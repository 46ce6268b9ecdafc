------------------------ MODULE AlwaysOnMonitorProofs ------------------------
(***************************************************************************)
(* Proofs about the P131 monitor, for every set of sources and of event    *)
(* IDs, every budget, window, limit and interval, and any number of lines, *)
(* rotations, stops, kills and I/O errors.                                 *)
(***************************************************************************)
EXTENDS AlwaysOnMonitor, FiniteSetTheorems, TLAPS

-----------------------------------------------------------------------------
(* The inductive invariant.                                                 *)

(* Lines are numbered in the order in which they are written.               *)
LinesInv ==
    \A src \in Sources :
        /\ Len(files[src].lines) <= written
        /\ \A i \in 1..Len(files[src].lines) :
              files[src].lines[i].number <= written

TypeInv == TypeOK /\ LinesInv

(* The states of the process and of the checkpoint that stops, restarts and *)
(* kills leave.                                                             *)
LifecycleInv ==
    /\ mem # None => Valid(mem)
    /\ disk # None => Valid(disk)
    /\ disk = None => receipt = None
    /\ mem # None /\ disk # None =>
          /\ mem.stops >= disk.stops
          /\ pc = "persistStop" => mem.stops > disk.stops
    /\ pc \in {"persist", "report", "persistReport"} =>
          mem.phase = "running" /\ mem.beat = 0
    /\ pc \in {"report", "persistReport"} =>
          /\ disk # None /\ disk.phase = "running"
          /\ disk.status = mem.status /\ disk.beat = 0
    /\ pc = "persistStop" => mem.phase = "stopped"
    /\ pc = "receipt" => disk = mem

(* A report no older than what the process believes to have reported.       *)
ReportsInv ==
    MaxReports > 1 /\ mem # None /\ mem.bucket # None =>
        \E b \in reports : b >= mem.bucket

(* The observations listed in `seen' respect the window.                    *)
Windowed(seen) ==
    \A i, j \in 1..Len(seen) : i < j /\ seen[i] = seen[j] => j - i > Window

Extends(longer, shorter) ==
    /\ Len(shorter) <= Len(longer)
    /\ \A i \in 1..Len(shorter) : longer[i] = shorter[i]

(* What a poll has accepted so far.                                         *)
SeenInv ==
    /\ mem # None => Windowed(mem.seen)
    /\ disk # None => Windowed(disk.seen)
    /\ poll # None =>
          /\ Windowed(poll.seen)
          /\ Extends(poll.seen, mem.seen)
          /\ Len(poll.seen) = Len(mem.seen) + poll.accepted
          /\ poll.accepted <= poll.read /\ poll.read <= MaxRecords

(* The total exceeds the observations by what failed polls have counted.    *)
Recounted(s) ==
    /\ s.accepted >= Len(s.seen)
    /\ s.accepted - Len(s.seen) <= readErrors * MaxRecords

CountInv ==
    /\ mem # None => Recounted(mem)
    /\ disk # None => Recounted(disk)

(* The lines 1..n of a file f of the source src have been read.             *)
Read(src, f, n, seen) ==
    /\ n <= Len(f.lines)
    /\ \A i \in 1..n :
          f.lines[i].kind = "valid" => Identity(src, f.lines[i]) \in Range(seen)

(* The cursor of a source is one of its file as it is, or the prefix kept   *)
(* with it tells that the file has been truncated since.                    *)
CursorOf(src, f, lines, health, seen) ==
    /\ health.inode = None => health.cursor = 0
    /\ health.inode # None => health.inode <= f.inode
    /\ health.inode = f.inode /\ health.cursor > 0 =>
          /\ health.prefix # <<>> /\ health.prefix[1] <= lines
          /\ \/ Read(src, f, health.cursor, seen)
             \/ \A i \in 1..Len(f.lines) :
                   f.lines[i].number # health.prefix[1]

Located(s) ==
    \A src \in Sources :
        CursorOf(src, files[src], written, s.source[src], s.seen)

CursorInv ==
    /\ mem # None => Located(mem)
    /\ disk # None => Located(disk)
    /\ poll # None =>
          /\ poll.inode = files[poll.source].inode
          /\ Read(poll.source, files[poll.source], poll.cursor, poll.seen)

IndInv ==
    /\ TypeInv /\ LifecycleInv /\ ReportedHasReport /\ ReportsInv /\ SeenInv
    /\ CountInv

-----------------------------------------------------------------------------
(* Facts about the operators.                                               *)

(* The constants.                                                           *)
LEMMA Constants ==
    /\ MaxRecords \in Nat \ {0} /\ Window \in Nat \ {0}
    /\ PrefixLines \in Nat \ {0} /\ FailureLimit \in Nat \ {0}
    /\ CanaryEvery \in Nat \ {0} /\ Timeout \in Nat \ {0}
    /\ StaleAfter \in Nat \ {0} /\ MaxReports \in Nat \ {0}
    /\ MaxLines \in Nat /\ MaxRotations \in Nat /\ MaxBucket \in Nat
    /\ MaxCrashes \in Nat /\ MaxReadErrors \in Nat
    /\ Skew \in Nat /\ MaxBackSteps \in Nat
    /\ None \notin Int /\ None \notin Nat /\ None \notin Events
    /\ None \notin MonitorState /\ None \notin PollState
    /\ None \notin TerminationReceipt
BY MonitorAssumption, NoneAssumption

(* The state of a first run.                                                *)
LEMMA InitialStateType ==
    /\ InitialState \in MonitorState /\ Valid(InitialState)
    /\ InitialState.stops = 0 /\ InitialState.bucket = None
    /\ InitialState.accepted = 0 /\ InitialState.seen = <<>>
    /\ \A src \in Sources : /\ InitialState.source[src].inode = None
                             /\ InitialState.source[src].cursor = 0
BY Constants
   DEF InitialState, MonitorState, SourceHealth, Age, Valid

(* A restart changes nothing but the number of restarts.                    *)
LEMMA ResumedType ==
    ASSUME NEW s \in MonitorState
    PROVE  /\ Resumed(s) \in MonitorState
           /\ Resumed(s).phase = s.phase /\ Resumed(s).status = s.status
           /\ Resumed(s).stops = s.stops /\ Resumed(s).bucket = s.bucket
           /\ Resumed(s).accepted = s.accepted /\ Resumed(s).seen = s.seen
           /\ Resumed(s).source = s.source
BY DEF Resumed, MonitorState

(* The end of a cycle.                                                      *)
LEMMA CycledType ==
    ASSUME NEW s \in MonitorState, NEW probe \in {"passed", "failed"}
    PROVE  /\ Cycled(s, probe) \in MonitorState
           /\ Cycled(s, probe).phase = "running" /\ Cycled(s, probe).beat = 0
           /\ Cycled(s, probe).stops = s.stops
           /\ Cycled(s, probe).bucket = s.bucket
           /\ Cycled(s, probe).accepted = s.accepted
           /\ Cycled(s, probe).seen = s.seen
           /\ Cycled(s, probe).source = s.source
<1>1. (s.cycles + 1) % CanaryEvery \in 0..(CanaryEvery - 1)
  BY Constants DEF MonitorState
<1>2. 0 \in Age
  BY DEF Age
<1> QED BY <1>1, <1>2 DEF Cycled, MonitorState

(* A stop.                                                                  *)
LEMMA StoppedType ==
    ASSUME NEW s \in MonitorState
    PROVE  /\ Stopped(s) \in MonitorState
           /\ Stopped(s).phase = "stopped" /\ Stopped(s).status = "stopped"
           /\ Stopped(s).stops = s.stops + 1 /\ Stopped(s).bucket = s.bucket
           /\ Stopped(s).accepted = s.accepted /\ Stopped(s).seen = s.seen
           /\ Stopped(s).source = s.source
<1>1. s.stops \in Nat /\ s.stops + 1 \in Nat
  BY DEF MonitorState
<1> DEFINE t == Stopped(s)
<1>2. /\ t.phase = "stopped" /\ t.status = "stopped" /\ t.stops = s.stops + 1
      /\ t.bucket = s.bucket /\ t.accepted = s.accepted /\ t.seen = s.seen
      /\ t.source = s.source
  BY DEF Stopped, MonitorState
<1>3. t \in MonitorState
  BY <1>1 DEF Stopped, MonitorState
<1> QED BY <1>2, <1>3

(* An age moves with the clock.                                             *)
LEMMA OlderType ==
    ASSUME NEW limit \in Nat, NEW age \in Age, NEW d \in {1, -1},
           backSteps \in 0..MaxBackSteps
    PROVE  /\ Older(age, limit, d) \in Age
           /\ Older(age, limit, d) = None <=> age = None
           /\ Older(age, limit, d) # None =>
                 \/ Older(age, limit, d) = age + d
                 \/ Older(age, limit, d) > limit /\ age + d > limit
<1>1. Reversible(limit) \in Int /\ Reversible(limit) >= limit
  BY Constants DEF Reversible
<1> QED BY <1>1, Constants DEF Older, Age

(* Moving the clock changes the ages only.                                  *)
LEMMA AgedType ==
    ASSUME NEW s \in MonitorState, NEW d \in {1, -1},
           backSteps \in 0..MaxBackSteps
    PROVE  /\ Aged(s, d) \in MonitorState
           /\ Aged(s, d).phase = s.phase /\ Aged(s, d).status = s.status
           /\ Aged(s, d).stops = s.stops /\ Aged(s, d).resumes = s.resumes
           /\ Aged(s, d).bucket = s.bucket
           /\ Aged(s, d).accepted = s.accepted /\ Aged(s, d).seen = s.seen
           /\ Aged(s, d).beat = Older(s.beat, Timeout, d)
           /\ \A src \in Sources :
                 /\ Aged(s, d).source[src].inode = s.source[src].inode
                 /\ Aged(s, d).source[src].cursor = s.source[src].cursor
                 /\ Aged(s, d).source[src].prefix = s.source[src].prefix
<1> DEFINE health == [src \in Sources |-> AgedHealth(s.source[src], d)]
<1>1. Older(s.beat, Timeout, d) \in Age
  BY OlderType, Constants DEF MonitorState
<1>2. \A src \in Sources :
         Older(s.source[src].data, StaleAfter, d) \in Age
  BY OlderType, Constants DEF MonitorState, SourceHealth
<1>3. /\ health \in [Sources -> SourceHealth]
      /\ \A src \in Sources :
            /\ health[src].inode = s.source[src].inode
            /\ health[src].cursor = s.source[src].cursor
            /\ health[src].prefix = s.source[src].prefix
  BY <1>2 DEF MonitorState, SourceHealth, AgedHealth
<1>4. Aged(s, d)
        = [s EXCEPT !.beat = Older(s.beat, Timeout, d), !.source = health]
  <2>1. s # None
    BY Constants
  <2> QED BY <2>1 DEF Aged
<1> HIDE DEF health
<1> QED BY <1>1, <1>3, <1>4 DEF MonitorState

(* Failures are counted up to the limit.                                    *)
LEMMA MoreFailuresType ==
    ASSUME NEW n \in 0..FailureLimit
    PROVE  MoreFailures(n) \in 0..FailureLimit
BY Constants DEF MoreFailures

(* The prefix that is kept of a file.                                       *)
LEMMA PrefixType ==
    ASSUME NEW f \in [inode : Nat, lines : Seq(Line)]
    PROVE  /\ Prefix(f) \in Seq(1..MaxLines)
           /\ f.lines # <<>> => /\ Prefix(f) # <<>>
                                /\ Prefix(f)[1] = f.lines[1].number
<1> DEFINE n == IF Len(f.lines) < PrefixLines THEN Len(f.lines)
                ELSE PrefixLines
           part == SubSeq(f.lines, 1, n)
<1>1. n \in Nat /\ n <= Len(f.lines) /\ (f.lines # <<>> => n >= 1)
  BY Constants
<1>2. /\ part \in Seq(Line) /\ Len(part) = n
      /\ \A i \in 1..n : part[i] = f.lines[i]
  BY <1>1
<1> HIDE DEF n, part
<1>3. Prefix(f) = [i \in 1..n |-> part[i].number]
  <2>1. Prefix(f) = Numbers(part)
    BY DEF Prefix, part, n
  <2>2. DOMAIN part = 1..n
    BY <1>1, <1>2
  <2> QED BY <2>1, <2>2 DEF Numbers
<1>4. \A i \in 1..n : part[i].number \in 1..MaxLines
  <2>1. \A i \in 1..n : part[i] \in Line
    BY <1>1, <1>2
  <2> QED BY <2>1 DEF Line
<1> QED BY <1>1, <1>2, <1>3, <1>4

-----------------------------------------------------------------------------
(* What the steps that build a new state leave in each of its fields.       *)

(* The fields that no poll touches.                                         *)
SameControl(s, t) ==
    /\ s.phase = t.phase /\ s.status = t.status /\ s.stops = t.stops
    /\ s.resumes = t.resumes /\ s.bucket = t.bucket

(* A line is read: it is new and appended, or it is not.                    *)
LEMMA ReadLineFields ==
    ASSUME TypeInv, ReadLine
    PROVE  /\ mem \in MonitorState /\ poll \in PollState
           /\ poll' \in PollState /\ poll'.source = poll.source
           /\ poll'.inode = poll.inode /\ poll'.cursor = poll.cursor + 1
           /\ poll'.read = poll.read + 1 /\ poll.read < MaxRecords
           /\ poll.cursor + 1 \in 1..Len(files[poll.source].lines)
           /\ Identity(poll.source, NextLine) \in Observation
           /\ \/ /\ poll'.seen = poll.seen /\ poll'.accepted = poll.accepted
                 /\ NextLine.kind = "valid" =>
                       Suppressed(Identity(poll.source, NextLine))
              \/ /\ ~Suppressed(Identity(poll.source, NextLine))
                 /\ poll'.seen
                      = Append(poll.seen, Identity(poll.source, NextLine))
                 /\ poll'.accepted = poll.accepted + 1
<1> DEFINE obs == Identity(poll.source, NextLine)
           new == NextLine.kind = "valid" /\ ~Suppressed(obs)
<1>1. /\ poll \in PollState /\ mem \in MonitorState
      /\ HasNextLine /\ poll.read < MaxRecords
  BY Constants DEF TypeInv, TypeOK, ReadLine, Ended, WithinCycleBudget
<1>2. /\ poll.source \in Sources /\ poll.cursor \in 0..MaxLines
      /\ poll.read \in Nat /\ poll.accepted \in Nat
      /\ poll.seen \in Seq(Observation)
  BY <1>1 DEF PollState
<1>3. /\ files[poll.source].lines \in Seq(Line)
      /\ Len(files[poll.source].lines) <= written /\ written \in 0..MaxLines
  BY <1>2 DEF TypeInv, TypeOK, LinesInv
<1>4. poll.cursor + 1 \in 1..Len(files[poll.source].lines)
  BY <1>1, <1>2, <1>3 DEF HasNextLine
<1>5. poll.cursor + 1 \in 0..MaxLines
  BY <1>3, <1>4, Constants
<1>6. NextLine \in Line
  BY <1>3, <1>4 DEF NextLine
<1>7. obs \in Observation
  BY <1>2, <1>6 DEF Identity, Observation, Line
<1> HIDE DEF obs, new
<1>8. poll' = [poll EXCEPT
                !.cursor = @ + 1, !.read = @ + 1,
                !.failed = @ \/ NextLine.kind = "invalid",
                !.seen = IF new THEN Append(@, obs) ELSE @,
                !.accepted = IF new THEN @ + 1 ELSE @]
  BY DEF ReadLine, obs, new
<1>9. /\ poll'.source = poll.source /\ poll'.inode = poll.inode
      /\ poll'.cursor = poll.cursor + 1 /\ poll'.read = poll.read + 1
      /\ poll'.failed = (poll.failed \/ NextLine.kind = "invalid")
      /\ poll'.seen = IF new THEN Append(poll.seen, obs) ELSE poll.seen
      /\ poll'.accepted = IF new THEN poll.accepted + 1 ELSE poll.accepted
  BY <1>1, <1>8 DEF PollState
<1>10. /\ (IF new THEN Append(poll.seen, obs) ELSE poll.seen)
              \in Seq(Observation)
       /\ (IF new THEN poll.accepted + 1 ELSE poll.accepted) \in Nat
       /\ poll.read + 1 \in Nat
       /\ (poll.failed \/ NextLine.kind = "invalid") \in BOOLEAN
  BY <1>1, <1>2, <1>7 DEF PollState
<1>11. poll' \in PollState
  BY <1>1, <1>5, <1>8, <1>10 DEF PollState
<1> QED BY <1>1, <1>4, <1>7, <1>9, <1>11 DEF obs, new

(* The end of a poll, complete or not, changes what it has read of its own  *)
(* source.                                                                  *)
LEMMA EndPollFields ==
    ASSUME TypeInv, EndPoll
    PROVE  /\ mem \in MonitorState /\ poll \in PollState
           /\ mem' \in MonitorState /\ SameControl(mem', mem)
           /\ mem'.seen = poll.seen
           /\ mem'.accepted = mem.accepted + poll.accepted
           /\ mem'.source[poll.source].cursor = poll.cursor
           /\ mem'.source[poll.source].inode = poll.inode
           /\ mem'.source[poll.source].prefix = Prefix(files[poll.source])
           /\ \A src \in Sources \ {poll.source} :
                 mem'.source[src] = mem.source[src]
<1> DEFINE old == mem.source[poll.source]
           health ==
               [cursor |-> poll.cursor, inode |-> poll.inode,
                prefix |-> Prefix(files[poll.source]),
                failures |-> IF poll.failed \/ OversizedNext
                             THEN MoreFailures(old.failures) ELSE 0,
                data |-> IF poll.accepted > 0 THEN 0 ELSE old.data]
<1>1. poll \in PollState /\ mem \in MonitorState
  BY Constants DEF TypeInv, TypeOK, EndPoll, Ended
<1>2. /\ poll.source \in Sources /\ poll.accepted \in Nat
      /\ poll.seen \in Seq(Observation) /\ old \in SourceHealth
      /\ mem.accepted + poll.accepted \in Nat
  BY <1>1 DEF PollState, MonitorState
<1>3. Prefix(files[poll.source]) \in Seq(1..MaxLines)
  BY <1>2, PrefixType DEF TypeInv, TypeOK
<1>4. /\ (IF poll.failed \/ OversizedNext
          THEN MoreFailures(old.failures) ELSE 0) \in 0..FailureLimit
      /\ (IF poll.accepted > 0 THEN 0 ELSE old.data) \in Age
  <2>1. MoreFailures(old.failures) \in 0..FailureLimit
    BY <1>2, MoreFailuresType DEF SourceHealth
  <2>2. 0 \in 0..FailureLimit /\ 0 \in Age
    BY Constants DEF Age
  <2>3. old.data \in Age
    BY <1>2 DEF SourceHealth
  <2> QED BY <2>1, <2>2, <2>3
<1>5. health \in SourceHealth
  BY <1>1, <1>3, <1>4 DEF PollState, SourceHealth
<1>6. mem' = [mem EXCEPT !.seen = poll.seen,
                         !.accepted = @ + poll.accepted,
                         !.source[poll.source] = health]
  BY <1>1 DEF EndPoll, MonitorState
<1>7. /\ health.cursor = poll.cursor /\ health.inode = poll.inode
      /\ health.prefix = Prefix(files[poll.source])
  OBVIOUS
<1> HIDE DEF health, old
<1>8. /\ mem' \in MonitorState
      /\ mem'.source = [mem.source EXCEPT ![poll.source] = health]
  BY <1>1, <1>2, <1>5, <1>6 DEF MonitorState
<1>9. /\ SameControl(mem', mem) /\ mem'.seen = poll.seen
      /\ mem'.accepted = mem.accepted + poll.accepted
  BY <1>1, <1>6 DEF MonitorState, SameControl
<1>10. /\ mem'.source[poll.source] = health
       /\ \A src \in Sources \ {poll.source} :
             mem'.source[src] = mem.source[src]
  BY <1>1, <1>2, <1>8 DEF MonitorState
<1> QED BY <1>1, <1>7, <1>8, <1>9, <1>10

(* A poll that fails is counted, and nothing else of it is kept.            *)
LEMMA PollFailsFields ==
    ASSUME TypeInv, PollFails
    PROVE  /\ mem \in MonitorState /\ poll \in PollState
           /\ mem' \in MonitorState /\ SameControl(mem', mem)
           /\ mem'.seen = mem.seen
           /\ mem'.accepted = mem.accepted + poll.accepted
           /\ \A src \in Sources :
                 /\ mem'.source[src].inode = mem.source[src].inode
                 /\ mem'.source[src].cursor = mem.source[src].cursor
                 /\ mem'.source[src].prefix = mem.source[src].prefix
<1> DEFINE old == mem.source[poll.source]
           health == [old EXCEPT !.failures = MoreFailures(@)]
<1>1. poll \in PollState /\ mem \in MonitorState
  BY Constants DEF TypeInv, TypeOK, PollFails, Ended
<1>2. /\ poll.source \in Sources /\ mem.accepted + poll.accepted \in Nat
      /\ old \in SourceHealth
  BY <1>1 DEF PollState, MonitorState
<1>3. /\ health \in SourceHealth /\ health.inode = old.inode
      /\ health.cursor = old.cursor /\ health.prefix = old.prefix
  <2>1. MoreFailures(old.failures) \in 0..FailureLimit
    BY <1>2, MoreFailuresType DEF SourceHealth
  <2> QED BY <1>2, <2>1 DEF SourceHealth
<1>4. mem' = [mem EXCEPT !.accepted = @ + poll.accepted,
                         !.source = [@ EXCEPT ![poll.source] = health]]
  BY <1>1 DEF PollFails, MonitorState
<1> HIDE DEF health
<1>5. /\ mem' \in MonitorState
      /\ mem'.source = [mem.source EXCEPT ![poll.source] = health]
  BY <1>1, <1>2, <1>3, <1>4 DEF MonitorState
<1>6. /\ SameControl(mem', mem) /\ mem'.seen = mem.seen
      /\ mem'.accepted = mem.accepted + poll.accepted
  BY <1>1, <1>4 DEF MonitorState, SameControl
<1> QED BY <1>1, <1>2, <1>3, <1>5, <1>6 DEF MonitorState

(* The end of a cycle.                                                      *)
LEMMA FinishCycleFields ==
    ASSUME TypeInv, NEW probe \in {"passed", "failed"}, FinishCycle(probe)
    PROVE  /\ mem \in MonitorState /\ mem' \in MonitorState
           /\ mem'.phase = "running" /\ mem'.status \in {"ready", "degraded"}
           /\ mem'.beat = 0 /\ mem'.stops = mem.stops
           /\ mem'.bucket = mem.bucket /\ mem'.accepted = mem.accepted
           /\ mem'.seen = mem.seen /\ mem'.source = mem.source
<1> DEFINE s == Cycled(mem, probe)
           status == IF Ready(s) THEN "ready" ELSE "degraded"
<1>1. mem \in MonitorState
  BY DEF TypeInv, TypeOK, FinishCycle, Ended
<1>2. /\ s \in MonitorState /\ s.phase = "running" /\ s.beat = 0
      /\ s.stops = mem.stops /\ s.bucket = mem.bucket
      /\ s.accepted = mem.accepted /\ s.seen = mem.seen
      /\ s.source = mem.source
  BY <1>1, CycledType
<1>3. mem' = [s EXCEPT !.status = status]
  BY DEF FinishCycle
<1>4. status \in {"ready", "degraded"}
  OBVIOUS
<1> HIDE DEF s, status
<1> QED BY <1>1, <1>2, <1>3, <1>4 DEF MonitorState

(* A report.                                                                *)
LEMMA WriteReportFields ==
    ASSUME TypeInv, WriteReport
    PROVE  /\ mem \in MonitorState /\ mem' \in MonitorState
           /\ mem'.bucket = bucket /\ mem'.phase = mem.phase
           /\ mem'.status = mem.status /\ mem'.stops = mem.stops
           /\ mem'.beat = mem.beat /\ mem'.accepted = mem.accepted
           /\ mem'.seen = mem.seen /\ mem'.source = mem.source
<1>1. mem \in MonitorState
  BY DEF TypeInv, TypeOK, WriteReport, Ended
<1> QED BY <1>1 DEF WriteReport, MonitorState, TypeInv, TypeOK

(* What a state dictionary and the same one at another time have in common. *)
SameButAges(s, t) ==
    /\ SameControl(s, t) /\ s.accepted = t.accepted /\ s.seen = t.seen
    /\ \A src \in Sources :
          /\ s.source[src].inode = t.source[src].inode
          /\ s.source[src].cursor = t.source[src].cursor
          /\ s.source[src].prefix = t.source[src].prefix

(* The clock moves, forward or back.                                        *)
LEMMA ClockFields ==
    ASSUME TypeInv, Tick \/ StepBack
    PROVE  /\ pc \in {"down", "failed", "loop"}
           /\ UNCHANGED <<files, written, rotations, pc, todo, poll, receipt,
                          reports, crashes, readErrors>>
           /\ bucket' \in 0..MaxBucket /\ backSteps' \in 0..MaxBackSteps
           /\ mem = None => mem' = None
           /\ disk = None => disk' = None
           /\ mem # None => /\ mem' \in MonitorState /\ mem' # None
                            /\ SameButAges(mem', mem)
           /\ disk # None => /\ disk' \in MonitorState /\ disk' # None
                             /\ SameButAges(disk', disk)
<1>0. /\ mem \in MonitorState \union {None} /\ None \notin MonitorState
      /\ disk \in MonitorState \union {None}
      /\ bucket \in 0..MaxBucket /\ backSteps \in 0..MaxBackSteps
      /\ MaxBucket \in Nat /\ MaxBackSteps \in Nat
  BY Constants DEF TypeInv, TypeOK
<1>1. /\ pc \in {"down", "failed", "loop"}
      /\ UNCHANGED <<files, written, rotations, pc, todo, poll, receipt,
                     reports, crashes, readErrors>>
  BY DEF Tick, StepBack, environment, Ended
<1>2. bucket' \in 0..MaxBucket /\ backSteps' \in 0..MaxBackSteps
  <2>1. CASE Tick
    BY <1>0, <2>1 DEF Tick, environment
  <2>2. CASE StepBack
    BY <1>0, <2>2 DEF StepBack
  <2> QED BY <2>1, <2>2
<1>3. PICK d \in {1, -1} : mem' = Aged(mem, d) /\ disk' = Aged(disk, d)
  BY DEF Tick, StepBack
<1>4. \A s \in MonitorState : /\ Aged(s, d) \in MonitorState
                              /\ SameButAges(Aged(s, d), s)
  BY <1>0, AgedType DEF SameButAges, SameControl
<1>5. Aged(None, d) = None
  BY DEF Aged
<1> QED BY <1>0, <1>1, <1>2, <1>3, <1>4, <1>5

-----------------------------------------------------------------------------
(* Type correctness.                                                        *)

(* Nothing has been written, nothing runs.                                  *)
LEMMA TypeInit == Init => TypeInv
<1> SUFFICES ASSUME Init PROVE TypeInv
  OBVIOUS
<1>1. files \in [Sources -> [inode : Nat, lines : Seq(Line)]]
  BY DEF Init
<1>2. \A src \in Sources : Len(files[src].lines) = 0
  BY DEF Init
<1> QED
  BY <1>1, <1>2, Constants
     DEF Init, TypeInv, TypeOK, LinesInv, Points, Ended

(* Lines are appended to, and files replaced under, what is there.          *)
LEMMA FilesTypeNext ==
    ASSUME TypeInv,
           \/ \E s \in Sources, k \in Kinds, e \in Events \union {None} :
                 WriteLine(s, k, e)
           \/ \E s \in Sources : Rotate(s) \/ Truncate(s)
    PROVE  TypeInv'
<1> USE DEF process, artifacts
<1>1. CASE \E s \in Sources, k \in Kinds, e \in Events \union {None} :
              WriteLine(s, k, e)
  <2>1. PICK s \in Sources, k \in Kinds, e \in Events \union {None} :
           WriteLine(s, k, e)
    BY <1>1
  <2> DEFINE line == [number |-> written + 1, kind |-> k, event |-> e]
             lines == Append(files[s].lines, line)
             file == [files[s] EXCEPT !.lines = lines]
  <2>2. /\ written < MaxLines /\ written' = written + 1
        /\ files' = [files EXCEPT ![s] = file]
    BY <2>1 DEF WriteLine, TypeInv, TypeOK
  <2>3. line \in Line /\ line.number = written + 1
    <3>0. written \in 0..MaxLines /\ MaxLines \in Nat
      BY Constants DEF TypeInv, TypeOK
    <3>1. written + 1 \in 1..MaxLines
      BY <2>2, <3>0
    <3> QED BY <3>1 DEF Line
  <2>4. files[s] \in [inode : Nat, lines : Seq(Line)]
    BY DEF TypeInv, TypeOK
  <2> HIDE DEF line
  <2>5. /\ lines \in Seq(Line) /\ Len(lines) = Len(files[s].lines) + 1
        /\ \A i \in 1..Len(lines) :
              lines[i] = IF i = Len(lines) THEN line ELSE files[s].lines[i]
    BY <2>3, <2>4
  <2> HIDE DEF lines
  <2>6. file \in [inode : Nat, lines : Seq(Line)] /\ file.lines = lines
    BY <2>4, <2>5
  <2> HIDE DEF file
  <2>7. /\ files' \in [Sources -> [inode : Nat, lines : Seq(Line)]]
        /\ files'[s] = file
        /\ \A t \in Sources \ {s} : files'[t] = files[t]
    BY <2>2, <2>6 DEF TypeInv, TypeOK
  <2>8. LinesInv'
    <3> SUFFICES ASSUME NEW t \in Sources
                 PROVE  /\ Len(files'[t].lines) <= written'
                        /\ \A i \in 1..Len(files'[t].lines) :
                              files'[t].lines[i].number <= written'
      BY DEF LinesInv
    <3>1. /\ Len(files[t].lines) <= written /\ Len(files[t].lines) \in Nat
          /\ \A i \in 1..Len(files[t].lines) :
                /\ files[t].lines[i].number <= written
                /\ files[t].lines[i].number \in Nat
      <4>1. files[t].lines \in Seq(Line)
        BY DEF TypeInv, TypeOK
      <4>2. \A i \in 1..Len(files[t].lines) : files[t].lines[i] \in Line
        BY <4>1
      <4> QED BY <4>1, <4>2 DEF TypeInv, LinesInv, Line
    <3>2. written \in Nat
      BY DEF TypeInv, TypeOK
    <3>3. CASE t = s
      <4>1. files'[t].lines = lines /\ Len(lines) <= written'
        BY <2>2, <2>5, <2>6, <2>7, <3>1, <3>2, <3>3
      <4>2. ASSUME NEW i \in 1..Len(lines)
            PROVE  lines[i].number <= written'
        <5>1. CASE i = Len(lines)
          BY <2>2, <2>3, <2>5, <3>2, <5>1
        <5>2. CASE i # Len(lines)
          <6>1. i \in 1..Len(files[t].lines) /\ lines[i] = files[t].lines[i]
            BY <2>5, <3>1, <3>3, <5>2
          <6> QED BY <2>2, <3>1, <3>2, <6>1
        <5> QED BY <5>1, <5>2
      <4> QED BY <4>1, <4>2
    <3>4. CASE t # s
      BY <2>2, <2>7, <3>1, <3>2, <3>4
    <3> QED BY <3>3, <3>4
  <2>9. TypeOK'
    <3>0. written \in 0..MaxLines /\ MaxLines \in Nat
      BY Constants DEF TypeInv, TypeOK
    <3>1. /\ written' \in 0..MaxLines
          /\ UNCHANGED <<rotations, bucket, backSteps, pc, mem, todo, poll, disk,
                         receipt, reports, crashes, readErrors>>
      BY <2>1, <2>2, <3>0 DEF WriteLine
    <3> QED BY <2>7, <3>1 DEF TypeInv, TypeOK
  <2> QED BY <2>8, <2>9 DEF TypeInv
<1>2. CASE \E s \in Sources : Rotate(s) \/ Truncate(s)
  <2>1. PICK s \in Sources : \E n \in Nat : Replace(s, n)
    BY <1>2 DEF Rotate, Truncate, TypeInv, TypeOK
  <2>2. PICK n \in Nat : Replace(s, n)
    BY <2>1
  <2>3. /\ files' \in [Sources -> [inode : Nat, lines : Seq(Line)]]
        /\ files'[s].lines = <<>>
        /\ \A t \in Sources \ {s} : files'[t] = files[t]
    BY <2>2 DEF Replace, TypeInv, TypeOK
  <2>4. LinesInv'
    BY <2>2, <2>3 DEF Replace, TypeInv, TypeOK, LinesInv
  <2>5. TypeOK'
    <3>1. /\ rotations' \in 0..MaxRotations
          /\ UNCHANGED <<written, bucket, backSteps, pc, mem, todo, poll, disk,
                         receipt, reports, crashes, readErrors>>
      BY <2>2, Constants DEF Replace, TypeInv, TypeOK
    <3> QED BY <2>3, <3>1 DEF TypeInv, TypeOK
  <2> QED BY <2>4, <2>5 DEF TypeInv
<1> QED BY <1>1, <1>2

(* Every step of the process, every fault and every step of its environment *)
(* keeps the state well typed.                                              *)
LEMMA TypeNext == TypeInv /\ [Next]_vars => TypeInv'
<1> SUFFICES ASSUME TypeInv, [Next]_vars PROVE TypeInv'
  OBVIOUS
<1>1. CASE \/ \E s \in Sources, k \in Kinds, e \in Events \union {None} :
                 WriteLine(s, k, e)
           \/ \E s \in Sources : Rotate(s) \/ Truncate(s)
  BY <1>1, FilesTypeNext
<1> USE Constants DEF TypeInv, TypeOK, LinesInv, Points, Ended, environment,
                      process, artifacts
<1>2. CASE Start
  BY <1>2, InitialStateType, ResumedType DEF Start
<1>3. CASE StartCycle
  BY <1>3 DEF StartCycle
<1>4. CASE \E s \in Sources : OpenSource(s)
  <2>1. PICK s \in Sources : OpenSource(s)
    BY <1>4
  <2>2. mem \in MonitorState
    BY <2>1 DEF OpenSource
  <2>3. /\ mem.source[s] \in SourceHealth /\ mem.seen \in Seq(Observation)
    BY <2>2 DEF MonitorState
  <2>4. /\ mem.source[s].cursor \in 0..MaxLines /\ files[s].inode \in Nat
        /\ 0 \in 0..MaxLines
    BY <2>3 DEF SourceHealth
  <2>5. poll' \in PollState
    BY <2>1, <2>3, <2>4 DEF OpenSource, PollState
  <2> QED BY <2>1, <2>5 DEF OpenSource
<1>5. CASE ReadLine
  BY <1>5, ReadLineFields DEF ReadLine
<1>6. CASE EndPoll
  <2>1. mem' \in MonitorState /\ mem' # None
    BY <1>6, EndPollFields
  <2>2. /\ pc' = "cycle" /\ poll' = None
        /\ UNCHANGED <<environment, todo, artifacts, crashes, readErrors>>
    BY <1>6 DEF EndPoll
  <2> QED BY <2>1, <2>2
<1>7. CASE PollFails
  <2>1. mem' \in MonitorState /\ mem' # None
    BY <1>7, PollFailsFields
  <2>2. /\ pc' = "cycle" /\ poll' = None /\ readErrors < MaxReadErrors
        /\ readErrors' = readErrors + 1
        /\ UNCHANGED <<environment, todo, artifacts, crashes>>
    BY <1>7 DEF PollFails
  <2> QED BY <2>1, <2>2
<1>8. CASE \E probe \in {"passed", "failed"} : FinishCycle(probe)
  <2>1. mem' \in MonitorState /\ mem' # None
    BY <1>8, FinishCycleFields
  <2>2. /\ pc = "cycle" /\ pc' = "persist"
        /\ UNCHANGED <<environment, todo, poll, artifacts, crashes,
                       readErrors>>
    BY <1>8 DEF FinishCycle
  <2> QED BY <2>1, <2>2
<1>9. CASE Persist \/ PersistReport \/ PersistStop
  <2>1. /\ pc \in {"persist", "persistReport", "persistStop"}
        /\ pc' \in {"report", "loop", "receipt"} /\ disk' = mem
        /\ UNCHANGED <<environment, mem, todo, poll, receipt, reports,
                       crashes, readErrors>>
    BY <1>9 DEF Persist, PersistReport, PersistStop
  <2>2. mem \in MonitorState /\ mem # None /\ poll = None
    BY <2>1
  <2> QED BY <2>1, <2>2
<1>10. CASE ReportNotDue
  BY <1>10 DEF ReportNotDue
<1>11. CASE PruneReport
  BY <1>11 DEF PruneReport
<1>12. CASE WriteReport
  BY <1>12, WriteReportFields DEF WriteReport
<1>13. CASE GracefulStop
  BY <1>13, StoppedType DEF GracefulStop
<1>14. CASE WriteReceipt
  <2>1. mem \in MonitorState
    BY <1>14 DEF WriteReceipt
  <2>2. receipt' \in TerminationReceipt
    BY <1>14, <2>1 DEF WriteReceipt, TerminationReceipt, MonitorState
  <2> QED BY <1>14, <2>2 DEF WriteReceipt
<1>15. CASE Crash
  BY <1>15 DEF Crash
<1>16. CASE GiveUp
  BY <1>16 DEF GiveUp
<1>17. CASE NextInterval
  BY <1>17 DEF NextInterval
<1>18. CASE Tick \/ StepBack
  <2>1. /\ pc' = pc /\ files' = files /\ written' = written
        /\ rotations' = rotations /\ todo' = todo /\ poll' = poll
        /\ receipt' = receipt /\ reports' = reports /\ crashes' = crashes
        /\ readErrors' = readErrors
        /\ bucket' \in 0..MaxBucket /\ backSteps' \in 0..MaxBackSteps
    BY <1>18, ClockFields
  <2>2. /\ mem' \in MonitorState \union {None} /\ (mem' = None <=> mem = None)
        /\ disk' \in MonitorState \union {None}
    BY <1>18, ClockFields
  <2> QED BY <2>1, <2>2
<1>19. CASE UNCHANGED vars
  BY <1>19 DEF vars
<1> QED
  BY <1>1, <1>2, <1>3, <1>4, <1>5, <1>6, <1>7, <1>8, <1>9, <1>10, <1>11,
     <1>12, <1>13, <1>14, <1>15, <1>16, <1>17, <1>18, <1>19
     DEF Next, CycleStep, StopStep, Environment

-----------------------------------------------------------------------------
(* Stops, restarts and kills.                                               *)

(* What a step does to the process and to the checkpoint, as far as the     *)
(* life cycle is concerned.                                                 *)
LEMMA LifecycleNext ==
    TypeInv /\ LifecycleInv /\ [Next]_vars => LifecycleInv'
<1> SUFFICES ASSUME TypeInv, LifecycleInv, [Next]_vars PROVE LifecycleInv'
  OBVIOUS
<1>0. /\ mem \in MonitorState \union {None} /\ (mem = None <=> pc \in Ended)
      /\ disk \in MonitorState \union {None} /\ None \notin MonitorState
      /\ receipt \in TerminationReceipt \union {None}
  BY Constants DEF TypeInv, TypeOK
<1>a. \A s \in MonitorState : s.stops \in Nat
  BY DEF MonitorState
<1> USE <1>0, <1>a
    DEF LifecycleInv, Valid, Ended, environment, process, artifacts
<1>1. CASE Start
  BY <1>1, InitialStateType, ResumedType DEF Start
<1>2. CASE StartCycle \/ ReportNotDue \/ GiveUp
  BY <1>2 DEF StartCycle, ReportNotDue, GiveUp
<1>3. CASE \E s \in Sources : OpenSource(s)
  BY <1>3 DEF OpenSource
<1>4. CASE ReadLine
  BY <1>4 DEF ReadLine
<1>5. CASE EndPoll \/ PollFails
  <2>1. mem' \in MonitorState /\ mem \in MonitorState
        /\ SameControl(mem', mem)
    BY <1>5, EndPollFields, PollFailsFields
  <2>2. pc' = "cycle" /\ UNCHANGED artifacts
    BY <1>5 DEF EndPoll, PollFails
  <2> QED BY <2>1, <2>2 DEF SameControl
<1>6. CASE \E probe \in {"passed", "failed"} : FinishCycle(probe)
  <2>1. /\ mem' \in MonitorState /\ mem \in MonitorState
        /\ mem'.phase = "running" /\ mem'.status \in {"ready", "degraded"}
        /\ mem'.beat = 0 /\ mem'.stops = mem.stops
    BY <1>6, FinishCycleFields
  <2>2. pc' = "persist" /\ UNCHANGED artifacts
    BY <1>6 DEF FinishCycle
  <2> QED BY <2>1, <2>2
<1>7. CASE Persist
  BY <1>7 DEF Persist
<1>8. CASE PruneReport
  BY <1>8 DEF PruneReport
<1>9. CASE WriteReport
  <2>1. /\ mem' \in MonitorState /\ mem \in MonitorState
        /\ mem'.phase = mem.phase /\ mem'.status = mem.status
        /\ mem'.stops = mem.stops /\ mem'.beat = mem.beat
    BY <1>9, WriteReportFields
  <2>2. /\ pc = "report" /\ pc' = "persistReport"
        /\ UNCHANGED <<disk, receipt>>
    BY <1>9 DEF WriteReport
  <2> QED BY <2>1, <2>2
<1>10. CASE PersistReport
  BY <1>10 DEF PersistReport
<1>11. CASE GracefulStop
  <2>1. /\ mem' \in MonitorState /\ mem \in MonitorState
        /\ mem'.phase = "stopped" /\ mem'.status = "stopped"
        /\ mem'.stops = mem.stops + 1
    BY <1>11, StoppedType DEF GracefulStop
  <2>2. pc = "loop" /\ pc' = "persistStop" /\ UNCHANGED artifacts
    BY <1>11 DEF GracefulStop
  <2> QED BY <2>1, <2>2
<1>12. CASE PersistStop
  BY <1>12 DEF PersistStop
<1>13. CASE WriteReceipt
  BY <1>13 DEF WriteReceipt
<1>14. CASE Crash
  BY <1>14 DEF Crash
<1>15. CASE Environment
  BY <1>15 DEF Environment, WriteLine, Rotate, Truncate, Replace, NextInterval
<1>16. CASE Tick \/ StepBack
  <2>1. /\ mem # None => /\ mem' # None /\ mem'.phase = mem.phase
                         /\ mem'.status = mem.status /\ mem'.stops = mem.stops
        /\ disk # None => /\ disk' # None /\ disk'.phase = disk.phase
                          /\ disk'.status = disk.status
                          /\ disk'.stops = disk.stops
        /\ mem = None => mem' = None
        /\ disk = None => disk' = None
    BY <1>16, ClockFields DEF SameButAges, SameControl
  <2>2. pc \in {"down", "failed", "loop"} /\ UNCHANGED <<pc, receipt>>
    BY <1>16, ClockFields
  <2> QED BY <2>1, <2>2
<1>17. CASE UNCHANGED vars
  BY <1>17 DEF vars
<1> QED
  BY <1>1, <1>2, <1>3, <1>4, <1>5, <1>6, <1>7, <1>8, <1>9, <1>10, <1>11,
     <1>12, <1>13, <1>14, <1>15, <1>16, <1>17
     DEF Next, CycleStep, StopStep

(* The receipt is written after the checkpoint it binds.                    *)
LEMMA ReceiptNext ==
    TypeInv /\ LifecycleInv /\ ReceiptBindsCheckpoint /\ [Next]_vars
        => ReceiptBindsCheckpoint'
<1> SUFFICES ASSUME TypeInv, LifecycleInv, ReceiptBindsCheckpoint, [Next]_vars
             PROVE  ReceiptBindsCheckpoint'
  OBVIOUS
<1>0. /\ mem \in MonitorState \union {None} /\ (mem = None <=> pc \in Ended)
      /\ disk \in MonitorState \union {None} /\ None \notin MonitorState
      /\ receipt \in TerminationReceipt \union {None}
      /\ None \notin TerminationReceipt
  BY Constants DEF TypeInv, TypeOK
<1>a. /\ \A s \in MonitorState : s.stops \in Nat
      /\ \A r \in TerminationReceipt : r.stops \in Nat
  BY DEF MonitorState, TerminationReceipt
<1> USE <1>0, <1>a
    DEF LifecycleInv, ReceiptBindsCheckpoint, Ended, environment, process,
        artifacts
<1>1. CASE Persist \/ PersistReport
  BY <1>1 DEF Persist, PersistReport
<1>2. CASE PersistStop
  BY <1>2 DEF PersistStop
<1>3. CASE WriteReceipt
  BY <1>3 DEF WriteReceipt
<1>4. CASE Tick \/ StepBack
  <2>1. /\ disk # None => /\ disk' # None /\ disk'.phase = disk.phase
                          /\ disk'.stops = disk.stops
                          /\ disk'.resumes = disk.resumes
        /\ disk = None => disk' = None
        /\ UNCHANGED receipt
    BY <1>4, ClockFields DEF SameButAges, SameControl
  <2> QED BY <2>1
<1>5. CASE UNCHANGED <<disk, receipt>>
  BY <1>5
<1> QED
  BY <1>1, <1>2, <1>3, <1>4, <1>5
     DEF Next, CycleStep, StopStep, Start, StartCycle, OpenSource, ReadLine,
         EndPoll, PollFails, FinishCycle, ReportNotDue, PruneReport,
         WriteReport, GracefulStop, Crash, GiveUp, Environment, WriteLine,
         Rotate, Truncate, Replace, NextInterval, vars

(* The watchdog's answers, spelled out.                                     *)
LEMMA AnswerMeans ==
    ASSUME NEW s \in MonitorState
    PROVE  /\ evaluate_watchdog(s) = "heartbeat_current" <=>
                 /\ Valid(s) /\ s.phase # "stopped"
                 /\ s.beat # None /\ -Skew <= s.beat /\ s.beat <= Timeout
           /\ Valid(s) /\ s.phase # "stopped" /\ s.beat # None =>
                 /\ s.beat < -Skew =>
                       evaluate_watchdog(s) = "heartbeat_in_future"
                 /\ s.beat > Timeout =>
                       evaluate_watchdog(s) = "heartbeat_stale"
<1>1. s # None /\ (s.beat # None => s.beat \in Int) /\ -Skew \in Int
      /\ Timeout \in Nat /\ -Skew <= Timeout
  BY Constants DEF MonitorState, Age
<1> QED BY <1>1 DEF evaluate_watchdog

(* No other step turns the answer.                                          *)
LEMMA ReviveStep ==
    TypeInv /\ LifecycleInv /\ [Next]_vars
        => (~Healthy /\ Healthy' => ByACycle \/ ByTime \/ ByTheClockSetBack)
<1> SUFFICES ASSUME TypeInv, LifecycleInv, [Next]_vars, ~Healthy, Healthy'
             PROVE  ByACycle \/ ByTime \/ ByTheClockSetBack
  OBVIOUS
<1>0. /\ mem \in MonitorState \union {None} /\ (mem = None <=> pc \in Ended)
      /\ disk \in MonitorState \union {None} /\ None \notin MonitorState
  BY Constants DEF TypeInv, TypeOK
<1>1. CASE Persist
  BY <1>1 DEF Persist, LifecycleInv, ByACycle
<1>2. CASE PersistReport
  <2>1. /\ disk \in MonitorState /\ Valid(disk) /\ disk.phase = "running"
        /\ disk.beat = 0
    BY <1>0, <1>2 DEF PersistReport, LifecycleInv
  <2>2. Healthy
    BY <2>1, AnswerMeans, Constants DEF Healthy
  <2> QED BY <2>2
<1>3. CASE PersistStop
  <2>1. mem \in MonitorState /\ mem.phase = "stopped" /\ disk' = mem
    BY <1>0, <1>3 DEF PersistStop, LifecycleInv, Ended
  <2>2. evaluate_watchdog(mem) # "heartbeat_current"
    BY <2>1, AnswerMeans
  <2> QED BY <2>1, <2>2 DEF Healthy
<1>4. ASSUME NEW d \in {1, -1}, disk' = Aged(disk, d)
      PROVE  /\ d = 1 => evaluate_watchdog(disk) = "heartbeat_in_future"
             /\ d = -1 => evaluate_watchdog(disk) = "heartbeat_stale"
  <2>1. disk # None
    BY <1>4 DEF Healthy, Aged, evaluate_watchdog
  <2>2. backSteps \in 0..MaxBackSteps
    BY DEF TypeInv, TypeOK
  <2>3. /\ disk \in MonitorState /\ disk' \in MonitorState
        /\ disk'.phase = disk.phase /\ disk'.status = disk.status
        /\ disk'.stops = disk.stops
        /\ disk'.beat = Older(disk.beat, Timeout, d)
    BY <1>0, <1>4, <2>1, <2>2, AgedType
  <2>4. /\ Valid(disk') /\ disk'.phase # "stopped" /\ disk'.beat # None
        /\ -Skew <= disk'.beat /\ disk'.beat <= Timeout
    BY <2>3, AnswerMeans DEF Healthy
  <2>5. disk.beat \in Age /\ Timeout \in Nat /\ Skew \in Nat
    BY <2>3, Constants DEF MonitorState
  <2>6. /\ disk.beat # None
        /\ \/ disk'.beat = disk.beat + d
           \/ disk'.beat > Timeout /\ disk.beat + d > Timeout
    <3>1. /\ Older(disk.beat, Timeout, d) = None <=> disk.beat = None
          /\ Older(disk.beat, Timeout, d) # None =>
                \/ Older(disk.beat, Timeout, d) = disk.beat + d
                \/ /\ Older(disk.beat, Timeout, d) > Timeout
                   /\ disk.beat + d > Timeout
      BY <2>2, <2>5, OlderType
    <3> QED BY <2>3, <2>4, <3>1
  <2>7. /\ disk.beat \in Int /\ disk'.beat = disk.beat + d
        /\ -Skew <= disk.beat + d /\ disk.beat + d <= Timeout
    <3>1. disk'.beat \in Int /\ disk.beat \in Int
      BY <2>3, <2>4, <2>5, <2>6 DEF MonitorState, Age
    <3> QED BY <2>4, <2>5, <2>6, <3>1
  <2>8. Valid(disk) /\ disk.phase # "stopped"
    BY <2>3, <2>4 DEF Valid
  <2>9. ~(-Skew <= disk.beat /\ disk.beat <= Timeout)
    BY <2>3, <2>6, <2>8, AnswerMeans DEF Healthy
  <2>10. /\ d = 1 => disk.beat < -Skew
         /\ d = -1 => disk.beat > Timeout
    BY <2>5, <2>7, <2>9
  <2> QED BY <2>3, <2>6, <2>8, <2>10, AnswerMeans
<1>6. CASE Tick
  BY <1>4, <1>6 DEF Tick, ByTime
<1>7. CASE StepBack
  <2>1. backSteps \in Nat
    BY DEF TypeInv, TypeOK
  <2> QED BY <1>4, <1>7, <2>1 DEF StepBack, ByTheClockSetBack
<1>5. CASE UNCHANGED disk
  BY <1>5 DEF Healthy
<1> QED
  BY <1>1, <1>2, <1>3, <1>5, <1>6, <1>7
     DEF Next, CycleStep, StopStep, Start, StartCycle, OpenSource, ReadLine,
         EndPoll, PollFails, FinishCycle, ReportNotDue, PruneReport,
         WriteReport, GracefulStop, WriteReceipt, Crash, GiveUp, Environment,
         WriteLine, Rotate, Truncate, Replace, NextInterval, vars, artifacts

-----------------------------------------------------------------------------
(* Reports.                                                                 *)

(* What may be pruned is among the reports.                                 *)
LEMMA RetainedReports == Retained \subseteq reports
BY DEF Retained

(* There are finitely many intervals.                                       *)
LEMMA FiniteReports ==
    ASSUME TypeInv
    PROVE  /\ IsFiniteSet(reports) /\ Cardinality(reports) \in Nat
           /\ IsFiniteSet(Retained) /\ Cardinality(Retained) \in Nat
<1>1. IsFiniteSet(0..MaxBucket)
  BY Constants, FS_Interval
<1>2. reports \subseteq 0..MaxBucket /\ Retained \subseteq 0..MaxBucket
  BY RetainedReports DEF TypeInv, TypeOK
<1>3. IsFiniteSet(reports) /\ IsFiniteSet(Retained)
  BY <1>1, <1>2, FS_Subset
<1> QED BY <1>3, FS_CardinalityType

(* Pruning takes the oldest of at least two reports.                        *)
LEMMA PruneKeepsNewer ==
    ASSUME TypeInv, PruneReport, MaxReports > 1, NEW n \in Int,
           \E b \in reports : b >= n
    PROVE  \E b \in reports' : b >= n
<1>1. PICK b \in Retained : /\ \A c \in Retained : b <= c
                            /\ reports' = reports \ {b}
  BY DEF PruneReport
<1>2. Cardinality(Retained) >= 2
  BY FiniteReports, Constants DEF PruneReport, OverBudget
<1>3. Cardinality(Retained \ {b}) = Cardinality(Retained) - 1
  BY <1>1, FiniteReports, FS_RemoveElement
<1>4. PICK c \in Retained : c # b
  <2>1. Retained \ {b} # {}
    BY <1>2, <1>3, FiniteReports, FS_EmptySet
  <2> QED BY <2>1
<1>5. c \in reports' /\ b <= c /\ b \in Int /\ c \in Int
  BY <1>1, <1>4, RetainedReports DEF TypeInv, TypeOK
<1>6. PICK a \in reports : a >= n
  OBVIOUS
<1>7. CASE a = b
  BY <1>5, <1>6, <1>7
<1>8. CASE a # b
  BY <1>1, <1>6, <1>8
<1> QED BY <1>7, <1>8

(* Neither pruning nor a kill between a report and its checkpoint takes the *)
(* last report away.                                                        *)
LEMMA ReportsNext ==
    TypeInv /\ ReportedHasReport /\ ReportsInv /\ [Next]_vars
        => (ReportedHasReport /\ ReportsInv)'
<1> SUFFICES ASSUME TypeInv, ReportedHasReport, ReportsInv, [Next]_vars
             PROVE  (ReportedHasReport /\ ReportsInv)'
  OBVIOUS
<1>0. /\ mem \in MonitorState \union {None} /\ (mem = None <=> pc \in Ended)
      /\ disk \in MonitorState \union {None} /\ None \notin MonitorState
      /\ bucket \in 0..MaxBucket /\ MaxBucket \in Nat /\ None \notin Nat
  BY Constants DEF TypeInv, TypeOK
<1>a. \A s \in MonitorState : s.bucket \in 0..MaxBucket \union {None}
  BY DEF MonitorState
<1> USE <1>0 DEF ReportedHasReport, ReportsInv, Ended, environment, process,
                 artifacts
<1>1. CASE Start
  BY <1>1, InitialStateType, ResumedType DEF Start
<1>2. CASE EndPoll \/ PollFails
  <2>1. /\ mem' \in MonitorState /\ mem \in MonitorState
        /\ mem'.bucket = mem.bucket
    BY <1>2, EndPollFields, PollFailsFields DEF SameControl
  <2>2. UNCHANGED <<disk, reports>>
    BY <1>2 DEF EndPoll, PollFails
  <2> QED BY <2>1, <2>2
<1>3. CASE \E probe \in {"passed", "failed"} : FinishCycle(probe)
  <2>1. /\ mem' \in MonitorState /\ mem \in MonitorState
        /\ mem'.bucket = mem.bucket
    BY <1>3, FinishCycleFields
  <2>2. UNCHANGED <<disk, reports>>
    BY <1>3 DEF FinishCycle
  <2> QED BY <2>1, <2>2
<1>4. CASE Persist \/ PersistReport \/ PersistStop
  BY <1>4 DEF Persist, PersistReport, PersistStop
<1>5. CASE PruneReport
  <2>1. UNCHANGED <<mem, disk>>
    BY <1>5 DEF PruneReport
  <2>2. \A n \in Int : MaxReports > 1 /\ (\E b \in reports : b >= n)
                          => \E b \in reports' : b >= n
    BY <1>5, PruneKeepsNewer
  <2>3. Cardinality(reports') <= MaxReports
    <3>1. PICK b \in Retained : reports' = reports \ {b}
      BY <1>5 DEF PruneReport
    <3>2. reports' \in SUBSET reports
      BY <3>1
    <3>3. IsFiniteSet(reports') /\ Cardinality(reports') <= Cardinality(reports)
      BY <3>2, FiniteReports, FS_Subset
    <3>4. Cardinality(reports') \in Nat
      BY <3>3, FS_CardinalityType
    <3> QED BY <3>3, <3>4, FiniteReports, Constants
  <2>4. /\ mem # None /\ mem.bucket # None => mem.bucket \in Int
        /\ disk # None /\ disk.bucket # None => disk.bucket \in Int
    BY <1>a
  <2> QED BY <2>1, <2>2, <2>3, <2>4
<1>6. CASE WriteReport
  <2>1. /\ mem' \in MonitorState /\ mem'.bucket = bucket
    BY <1>6, WriteReportFields
  <2>2. UNCHANGED disk /\ reports' = reports \union {bucket}
    BY <1>6 DEF WriteReport
  <2>3. Cardinality(reports') <= MaxReports
    <3>1. reports' = Retained \union {bucket} /\ bucket \notin Retained
      BY <1>6, <2>2 DEF WriteReport, Retained
    <3>2. Cardinality(reports') = Cardinality(Retained) + 1
      BY <3>1, FiniteReports, FS_AddElement
    <3> QED BY <1>6, <3>2, FiniteReports, Constants
            DEF WriteReport, OverBudget
  <2> QED BY <2>1, <2>2, <2>3
<1>7. CASE GracefulStop
  <2>1. /\ mem' \in MonitorState /\ mem \in MonitorState
        /\ mem'.bucket = mem.bucket
    BY <1>7, StoppedType DEF GracefulStop
  <2>2. UNCHANGED <<disk, reports>>
    BY <1>7 DEF GracefulStop
  <2> QED BY <2>1, <2>2
<1>8. CASE WriteReceipt \/ Crash
  BY <1>8 DEF WriteReceipt, Crash
<1>9. CASE Tick \/ StepBack
  <2>1. /\ mem # None => mem'.bucket = mem.bucket
        /\ disk # None => disk'.bucket = disk.bucket
        /\ mem = None => mem' = None
        /\ disk = None => disk' = None
        /\ UNCHANGED reports
    BY <1>9, ClockFields DEF SameButAges, SameControl
  <2> QED BY <2>1
<1>10. CASE UNCHANGED <<mem, disk, reports>>
  BY <1>10
<1> QED
  BY <1>1, <1>2, <1>3, <1>4, <1>5, <1>6, <1>7, <1>8, <1>9, <1>10
     DEF Next, CycleStep, StopStep, StartCycle, OpenSource, ReadLine,
         ReportNotDue, GiveUp, Environment, WriteLine, Rotate, Truncate,
         Replace, NextInterval, vars

-----------------------------------------------------------------------------
(* Observations.                                                            *)

(* An observation outside the window may be appended.                       *)
LEMMA AppendWindowed ==
    ASSUME NEW old \in Seq(Observation), NEW seen \in Seq(Observation),
           NEW obs \in Observation,
           Windowed(seen), Extends(seen, old), obs \notin Recent(old),
           \A i \in DOMAIN seen : i > Len(old) => seen[i] # obs
    PROVE  /\ Windowed(Append(seen, obs)) /\ Extends(Append(seen, obs), old)
           /\ Len(Append(seen, obs)) = Len(seen) + 1
<1> DEFINE new == Append(seen, obs)
<1>1. /\ Len(new) = Len(seen) + 1 /\ new[Len(seen) + 1] = obs
      /\ \A i \in 1..Len(seen) : new[i] = seen[i]
      /\ Len(seen) \in Nat /\ Len(old) \in Nat
  OBVIOUS
<1> HIDE DEF new
<1>2. Extends(new, old)
  BY <1>1 DEF Extends
<1>3. ASSUME NEW i \in 1..Len(seen), seen[i] = obs
      PROVE  Len(seen) + 1 - i > Window
  <2>1. i <= Len(old) /\ old[i] = obs
    BY <1>1, <1>3 DEF Extends
  <2>2. ~(i > Len(old) - Window)
    BY <1>1, <2>1 DEF Recent
  <2> QED BY <1>1, <2>1, <2>2, Constants DEF Extends
<1>4. Windowed(new)
  <2> SUFFICES ASSUME NEW i \in 1..Len(new), NEW j \in 1..Len(new),
                      i < j, new[i] = new[j]
               PROVE  j - i > Window
    BY DEF Windowed
  <2>1. i \in 1..Len(seen)
    BY <1>1
  <2>2. CASE j = Len(seen) + 1
    BY <1>1, <1>3, <2>1, <2>2
  <2>3. CASE j # Len(seen) + 1
    BY <1>1, <2>1, <2>3 DEF Windowed
  <2> QED BY <2>2, <2>3
<1> QED BY <1>1, <1>2, <1>4 DEF new

(* What is kept of the observations and of their total.                     *)
Kept(s, t) == s.seen = t.seen /\ s.accepted = t.accepted

(* One more failed poll allows for one more budget.                         *)
LEMMA OneMoreBudget ==
    TypeInv => /\ readErrors * MaxRecords \in Nat
               /\ (readErrors + 1) * MaxRecords
                    = readErrors * MaxRecords + MaxRecords
<1> SUFFICES ASSUME TypeInv
             PROVE  /\ readErrors * MaxRecords \in Nat
                    /\ (readErrors + 1) * MaxRecords
                         = readErrors * MaxRecords + MaxRecords
  OBVIOUS
<1>1. readErrors \in Nat /\ MaxRecords \in Nat
  BY Constants DEF TypeInv, TypeOK
<1> QED BY <1>1

(* The window is respected and the total bounded at every step.             *)
LEMMA SeenNext ==
    TypeInv /\ SeenInv /\ CountInv /\ [Next]_vars => (SeenInv /\ CountInv)'
<1> SUFFICES ASSUME TypeInv, SeenInv, CountInv, [Next]_vars
             PROVE  (SeenInv /\ CountInv)'
  OBVIOUS
<1>0. /\ mem \in MonitorState \union {None} /\ (mem = None <=> pc \in Ended)
      /\ disk \in MonitorState \union {None} /\ None \notin MonitorState
      /\ poll \in PollState \union {None} /\ (poll # None <=> pc = "poll")
      /\ readErrors * MaxRecords \in Nat
  BY Constants, OneMoreBudget DEF TypeInv, TypeOK
<1>a. /\ \A s \in MonitorState :
            s.seen \in Seq(Observation) /\ s.accepted \in Nat
      /\ \A q \in PollState : /\ q.seen \in Seq(Observation)
                              /\ q.accepted \in Nat /\ q.read \in Nat
  BY DEF MonitorState, PollState
<1>b. ASSUME UNCHANGED readErrors, poll' = None,
             mem' # None =>
                \/ mem # None /\ Kept(mem', mem)
                \/ disk # None /\ Kept(mem', disk)
                \/ mem'.seen = <<>> /\ mem'.accepted = 0,
             disk' # None =>
                \/ disk # None /\ Kept(disk', disk)
                \/ mem # None /\ Kept(disk', mem)
      PROVE  (SeenInv /\ CountInv)'
  BY <1>0, <1>b DEF SeenInv, CountInv, Recounted, Kept, Windowed
<1>1. CASE Start
  BY <1>0, <1>1, <1>b, InitialStateType, ResumedType
     DEF Start, Kept, artifacts
<1>2. CASE \/ StartCycle \/ ReportNotDue \/ GiveUp \/ Persist \/ PersistReport
           \/ PersistStop \/ WriteReceipt \/ PruneReport
  BY <1>0, <1>2, <1>b
     DEF StartCycle, ReportNotDue, GiveUp, Persist, PersistReport, PersistStop,
         WriteReceipt, PruneReport, Kept, artifacts, process
<1>3. CASE Crash
  BY <1>0, <1>3, <1>b DEF Crash, Kept, artifacts
<1>4. CASE \E s \in Sources : OpenSource(s)
  <2>1. /\ poll' # None /\ poll'.seen = mem.seen /\ poll'.accepted = 0
        /\ poll'.read = 0 /\ mem \in MonitorState
        /\ UNCHANGED <<mem, disk, readErrors>>
    <3>1. poll' \in PollState \union {None} /\ (poll' # None <=> pc' = "poll")
      BY TypeNext DEF TypeInv, TypeOK
    <3> QED BY <1>0, <1>4, <3>1 DEF OpenSource, artifacts, Ended
  <2>2. Extends(mem.seen, mem.seen)
    BY <1>a, <2>1 DEF Extends
  <2>3. Len(mem.seen) \in Nat
    BY <1>a, <2>1
  <2> QED BY <2>1, <2>2, <2>3, Constants DEF SeenInv, CountInv, Recounted
<1>5. CASE ReadLine
  <2> DEFINE obs == Identity(poll.source, NextLine)
  <2>1. /\ mem \in MonitorState /\ poll \in PollState /\ poll' \in PollState
        /\ poll'.read = poll.read + 1 /\ poll.read < MaxRecords
        /\ obs \in Observation
        /\ \/ poll'.seen = poll.seen /\ poll'.accepted = poll.accepted
           \/ /\ ~Suppressed(obs) /\ poll'.seen = Append(poll.seen, obs)
              /\ poll'.accepted = poll.accepted + 1
    BY <1>5, ReadLineFields
  <2> HIDE DEF obs
  <2>2. UNCHANGED <<mem, disk, readErrors>>
    BY <1>5 DEF ReadLine, artifacts
  <2>3. /\ mem # None /\ poll # None
        /\ mem.seen \in Seq(Observation) /\ poll.seen \in Seq(Observation)
        /\ poll.accepted \in Nat /\ poll.read \in Nat
        /\ Len(mem.seen) \in Nat
    BY <1>a, <2>1, Constants
  <2>4. /\ Windowed(poll.seen) /\ Extends(poll.seen, mem.seen)
        /\ Len(poll.seen) = Len(mem.seen) + poll.accepted
        /\ poll.accepted <= poll.read
    BY <2>3 DEF SeenInv
  <2>5. CASE poll'.seen = poll.seen /\ poll'.accepted = poll.accepted
    BY <2>1, <2>2, <2>3, <2>4, <2>5, Constants DEF SeenInv, CountInv, Recounted
  <2>6. CASE /\ ~Suppressed(obs) /\ poll'.seen = Append(poll.seen, obs)
             /\ poll'.accepted = poll.accepted + 1
    <3>1. /\ obs \notin Recent(mem.seen)
          /\ \A i \in DOMAIN poll.seen :
                i > Len(mem.seen) => poll.seen[i] # obs
      BY <2>6 DEF Suppressed
    <3>2. /\ Windowed(Append(poll.seen, obs))
          /\ Extends(Append(poll.seen, obs), mem.seen)
          /\ Len(Append(poll.seen, obs)) = Len(poll.seen) + 1
      BY <2>1, <2>3, <2>4, <3>1, AppendWindowed
    <3>3. /\ Windowed(poll'.seen) /\ Extends(poll'.seen, mem.seen)
          /\ Len(poll'.seen) = Len(poll.seen) + 1
      BY <2>6, <3>2
    <3>4. /\ Len(poll'.seen) = Len(mem.seen) + poll'.accepted
          /\ poll'.accepted <= poll'.read /\ poll'.read <= MaxRecords
      <4>1. MaxRecords \in Nat
        BY Constants
      <4> QED BY <2>1, <2>3, <2>4, <2>6, <3>3, <4>1
    <3>5. SeenInv'
      BY <2>2, <3>3, <3>4 DEF SeenInv
    <3>6. CountInv'
      BY <2>2 DEF CountInv, Recounted
    <3> QED BY <3>5, <3>6
  <2> QED BY <2>1, <2>5, <2>6
<1>6. CASE EndPoll
  <2>1. /\ mem' \in MonitorState /\ mem \in MonitorState /\ poll \in PollState
        /\ mem'.seen = poll.seen /\ mem'.accepted = mem.accepted + poll.accepted
    BY <1>6, EndPollFields
  <2>2. poll' = None /\ UNCHANGED <<disk, readErrors>>
    BY <1>6 DEF EndPoll, artifacts
  <2>3. /\ mem # None /\ poll # None /\ Len(mem.seen) \in Nat
        /\ mem.accepted \in Nat /\ poll.accepted \in Nat
    BY <1>a, <2>1, Constants
  <2> QED BY <1>0, <2>1, <2>2, <2>3 DEF SeenInv, CountInv, Recounted
<1>7. CASE PollFails
  <2>1. /\ mem' \in MonitorState /\ mem \in MonitorState /\ poll \in PollState
        /\ mem'.seen = mem.seen /\ mem'.accepted = mem.accepted + poll.accepted
    BY <1>7, PollFailsFields
  <2>2. /\ poll' = None /\ UNCHANGED disk
        /\ readErrors' * MaxRecords = readErrors * MaxRecords + MaxRecords
    BY <1>7, OneMoreBudget DEF PollFails, artifacts
  <2>3. /\ mem # None /\ poll # None /\ Len(mem.seen) \in Nat
        /\ mem.accepted \in Nat /\ poll.accepted \in Nat /\ poll.read \in Nat
    BY <1>a, <2>1, Constants
  <2>4. disk # None => disk.accepted \in Nat /\ Len(disk.seen) \in Nat
    BY <1>0, <1>a
  <2>5. poll.accepted <= MaxRecords
    BY <2>3, Constants DEF SeenInv
  <2>6. SeenInv'
    BY <2>1, <2>2, <2>3 DEF SeenInv
  <2>7. CountInv'
    BY <1>0, <2>1, <2>2, <2>3, <2>4, <2>5, Constants DEF CountInv, Recounted
  <2> QED BY <2>6, <2>7
<1>8. CASE \E probe \in {"passed", "failed"} : FinishCycle(probe)
  <2>1. mem \in MonitorState /\ Kept(mem', mem)
    BY <1>8, FinishCycleFields DEF Kept
  <2>2. poll' = None /\ UNCHANGED <<disk, readErrors>>
    BY <1>0, <1>8 DEF FinishCycle, artifacts
  <2> QED BY <1>0, <1>b, <2>1, <2>2 DEF Kept
<1>9. CASE WriteReport
  <2>1. mem \in MonitorState /\ Kept(mem', mem)
    BY <1>9, WriteReportFields DEF Kept
  <2>2. poll' = None /\ UNCHANGED <<disk, readErrors>>
    BY <1>0, <1>9 DEF WriteReport
  <2> QED BY <1>0, <1>b, <2>1, <2>2 DEF Kept
<1>10. CASE GracefulStop
  <2>1. mem \in MonitorState /\ Kept(mem', mem)
    BY <1>0, <1>10, StoppedType DEF Kept, GracefulStop, Ended
  <2>2. poll' = None /\ UNCHANGED <<disk, readErrors>>
    BY <1>0, <1>10 DEF GracefulStop, artifacts
  <2> QED BY <1>0, <1>b, <2>1, <2>2 DEF Kept
<1>11. CASE Tick \/ StepBack
  <2>1. /\ mem # None => Kept(mem', mem)
        /\ disk # None => Kept(disk', disk)
        /\ mem = None => mem' = None
        /\ disk = None => disk' = None
    BY <1>11, ClockFields DEF SameButAges, Kept
  <2>2. poll' = None /\ UNCHANGED readErrors
    BY <1>0, <1>11, ClockFields
  <2> QED BY <1>b, <2>1, <2>2
<1>12. CASE UNCHANGED <<mem, disk, poll, readErrors>>
  BY <1>12 DEF SeenInv, CountInv, Recounted
<1> QED
  BY <1>1, <1>2, <1>3, <1>4, <1>5, <1>6, <1>7, <1>8, <1>9, <1>10, <1>11, <1>12
     DEF Next, CycleStep, StopStep, Environment, WriteLine, Rotate, Truncate,
         Replace, NextInterval, vars, process, artifacts

-----------------------------------------------------------------------------
(* Cursors.                                                                 *)

(* What was in a list of observations is in every longer one.               *)
LEMMA RangeGrows ==
    ASSUME NEW a \in Seq(Observation), NEW b \in Seq(Observation),
           Extends(a, b)
    PROVE  Range(b) \subseteq Range(a)
<1> SUFFICES ASSUME NEW i \in DOMAIN b PROVE b[i] \in Range(a)
  BY DEF Range
<1>1. i \in 1..Len(b) /\ i \in DOMAIN a /\ a[i] = b[i]
  BY DEF Extends
<1> QED BY <1>1 DEF Range

(* The first element of a sequence.                                         *)
LEMMA FirstElement ==
    ASSUME NEW S, NEW seq \in Seq(S), seq # <<>>
    PROVE  Len(seq) >= 1 /\ seq[1] \in S
<1>1. Len(seq) >= 1
  OBVIOUS
<1> QED BY <1>1

(* The prefix check tells a file that does not begin with the line it began *)
(* with.                                                                    *)
LEMMA PrefixTells ==
    ASSUME NEW health \in SourceHealth,
           NEW f \in [inode : Nat, lines : Seq(Line)],
           health.prefix # <<>>, health.inode = f.inode,
           ~Replaced(health, f)
    PROVE  \E i \in 1..Len(f.lines) : f.lines[i].number = health.prefix[1]
<1>1. health.prefix \in Seq(1..MaxLines) /\ Len(health.prefix) >= 1
  BY DEF SourceHealth
<1>2. IsPrefix(health.prefix, Numbers(f.lines))
  BY DEF Replaced
<1> DEFINE ns == Numbers(f.lines)
           n == Len(health.prefix)
<1>3. /\ ns \in Seq(Nat) /\ Len(ns) = Len(f.lines)
      /\ \A i \in 1..Len(f.lines) : ns[i] = f.lines[i].number
  <2>1. /\ DOMAIN f.lines = 1..Len(f.lines) /\ Len(f.lines) \in Nat
        /\ \A i \in 1..Len(f.lines) : f.lines[i] \in Line
    OBVIOUS
  <2>2. \A i \in 1..Len(f.lines) : f.lines[i].number \in Nat
    BY <2>1 DEF Line
  <2>3. ns = [i \in 1..Len(f.lines) |-> f.lines[i].number]
    BY <2>1 DEF Numbers
  <2> QED BY <2>1, <2>2, <2>3
<1> HIDE DEF ns
<1>4. n <= Len(ns) /\ SubSeq(health.prefix, 1, n) = SubSeq(ns, 1, n)
  BY <1>2 DEF IsPrefix, ns
<1>5. health.prefix[1] = ns[1]
  <2>1. SubSeq(health.prefix, 1, n)[1] = health.prefix[1]
    BY <1>1
  <2>2. SubSeq(ns, 1, n)[1] = ns[1]
    BY <1>1, <1>3, <1>4
  <2> QED BY <1>4, <2>1, <2>2
<1> QED BY <1>1, <1>3, <1>4, <1>5

(* A file that is not replaced has been read up to the cursor.              *)
LEMMA CursorIsRead ==
    ASSUME TypeInv, NEW src \in Sources, NEW health \in SourceHealth,
           NEW seen, CursorOf(src, files[src], written, health, seen),
           ~Replaced(health, files[src])
    PROVE  Read(src, files[src], health.cursor, seen)
<1>1. /\ files[src] \in [inode : Nat, lines : Seq(Line)]
      /\ health.cursor \in Nat
      /\ Len(files[src].lines) \in Nat
  BY DEF TypeInv, TypeOK, SourceHealth
<1>2. /\ health.inode \in {None, files[src].inode}
      /\ health.cursor <= Len(files[src].lines)
  BY <1>1 DEF Replaced
<1>3. CASE health.cursor = 0
  BY <1>1, <1>3 DEF Read
<1>4. CASE health.cursor > 0
  <2>1. health.inode = files[src].inode /\ health.prefix # <<>>
    BY <1>2, <1>4 DEF CursorOf
  <2>2. \E i \in 1..Len(files[src].lines) :
           files[src].lines[i].number = health.prefix[1]
    BY <1>1, <2>1, PrefixTells
  <2> QED BY <1>4, <2>1, <2>2 DEF CursorOf
<1> QED BY <1>1, <1>3, <1>4

(* A file may grow, lose all its lines, or give way to another.             *)
Grown(f, g, lines) ==
    /\ g.inode = f.inode /\ Len(f.lines) <= Len(g.lines)
    /\ \A i \in 1..Len(f.lines) : g.lines[i] = f.lines[i]
    /\ \A i \in (Len(f.lines) + 1)..Len(g.lines) : g.lines[i].number > lines

FileStep(f, g, lines) ==
    \/ Grown(f, g, lines)
    \/ g.inode = f.inode /\ g.lines = <<>>
    \/ g.inode > f.inode

File == [inode : Nat, lines : Seq(Line)]

(* What has been read of a file stays read when it grows.                   *)
LEMMA ReadGrows ==
    ASSUME NEW src, NEW f \in File, NEW g \in File, NEW n \in Nat, NEW seen,
           NEW lines, Grown(f, g, lines), Read(src, f, n, seen)
    PROVE  Read(src, g, n, seen)
BY DEF File, Grown, Read

(* None of the three changes what a cursor means.                           *)
LEMMA CursorOfNext ==
    ASSUME NEW src \in Sources, NEW f \in File, NEW g \in File,
           NEW health \in SourceHealth, NEW seen,
           NEW lines \in Nat, NEW more \in Nat, lines <= more,
           FileStep(f, g, lines), CursorOf(src, f, lines, health, seen)
    PROVE  CursorOf(src, g, more, health, seen)
<1>1. /\ f.inode \in Nat /\ g.inode \in Nat
      /\ f.lines \in Seq(Line) /\ g.lines \in Seq(Line)
      /\ health.inode \in Nat \union {None} /\ health.cursor \in Nat
      /\ health.prefix \in Seq(1..MaxLines)
  BY DEF File, SourceHealth
<1>2. f.inode <= g.inode
  BY <1>1 DEF FileStep, Grown
<1>3. health.inode # None => health.inode <= g.inode
  BY <1>1, <1>2, Constants DEF CursorOf
<1>4. ASSUME health.inode = g.inode, health.cursor > 0
      PROVE  /\ health.prefix # <<>> /\ health.prefix[1] <= more
             /\ \/ Read(src, g, health.cursor, seen)
                \/ \A i \in 1..Len(g.lines) :
                      g.lines[i].number # health.prefix[1]
  <2>1. health.inode = f.inode /\ g.inode = f.inode
    BY <1>1, <1>2, <1>4, Constants DEF CursorOf
  <2>2. /\ health.prefix # <<>> /\ health.prefix[1] <= lines
        /\ health.prefix[1] \in Nat
    <3>1. health.prefix # <<>> /\ health.prefix[1] <= lines
      BY <1>4, <2>1 DEF CursorOf
    <3>2. health.prefix[1] \in 1..MaxLines
      BY <1>1, <3>1, FirstElement
    <3> QED BY <3>1, <3>2
  <2>3. health.prefix[1] <= more
    BY <2>2
  <2>4. CASE g.lines = <<>>
    BY <2>2, <2>3, <2>4
  <2>5. CASE Grown(f, g, lines)
    <3>1. CASE Read(src, f, health.cursor, seen)
      BY <1>1, <2>2, <2>3, <2>5, <3>1, ReadGrows
    <3>2. CASE \A i \in 1..Len(f.lines) :
                  f.lines[i].number # health.prefix[1]
      <4>1. ASSUME NEW i \in 1..Len(g.lines)
            PROVE  g.lines[i].number # health.prefix[1]
        <5>1. CASE i <= Len(f.lines)
          <6>1. i \in 1..Len(f.lines)
            BY <1>1, <5>1
          <6>2. g.lines[i] = f.lines[i]
            BY <2>5, <6>1 DEF Grown
          <6> QED BY <3>2, <6>1, <6>2
        <5>2. CASE i > Len(f.lines)
          <6>1. g.lines[i].number > lines /\ g.lines[i] \in Line
            BY <1>1, <2>5, <5>2 DEF Grown
          <6> QED BY <2>2, <6>1 DEF Line
        <5> QED BY <1>1, <5>1, <5>2
      <4> QED BY <2>2, <2>3, <4>1
    <3> QED BY <1>4, <2>1, <3>1, <3>2 DEF CursorOf
  <2> QED BY <1>1, <2>1, <2>4, <2>5 DEF FileStep
<1> QED BY <1>3, <1>4 DEF CursorOf

(* Every step does one of the three to every file; a poll in progress keeps *)
(* its file, if files are not truncated under it.                           *)
LEMMA FilesStep ==
    ASSUME TypeInv, [Next]_vars
    PROVE  /\ written \in Nat /\ written' \in Nat /\ written <= written'
           /\ files \in [Sources -> File] /\ files' \in [Sources -> File]
           /\ \A src \in Sources :
                 /\ FileStep(files[src], files'[src], written)
                 /\ pc = "poll" /\ "poll" \notin TruncatePoints =>
                       Grown(files[src], files'[src], written)
<1>1. /\ written \in Nat /\ written' \in Nat
      /\ files \in [Sources -> File] /\ files' \in [Sources -> File]
  BY TypeNext DEF TypeInv, TypeOK, File
<1>2. \A f \in File : Grown(f, f, written) /\ FileStep(f, f, written)
  BY DEF File, Grown, FileStep
<1>3. CASE UNCHANGED <<files, written>>
  BY <1>1, <1>2, <1>3
<1>4. CASE \E s \in Sources, k \in Kinds, e \in Events \union {None} :
              WriteLine(s, k, e)
  <2>1. PICK s \in Sources, k \in Kinds, e \in Events \union {None} :
           WriteLine(s, k, e)
    BY <1>4
  <2> DEFINE line == [number |-> written + 1, kind |-> k, event |-> e]
  <2>2. /\ written' = written + 1
        /\ files' = [files EXCEPT ![s].lines = Append(@, line)]
    BY <2>1 DEF WriteLine
  <2>3. line.number = written + 1
    OBVIOUS
  <2>4. files[s] \in File /\ files[s].lines \in Seq(Line)
    BY <1>1 DEF File
  <2>5. /\ files'[s].inode = files[s].inode
        /\ files'[s].lines = Append(files[s].lines, line)
        /\ \A t \in Sources \ {s} : files'[t] = files[t]
    BY <1>1, <2>2 DEF File
  <2> HIDE DEF line
  <2>6. /\ Len(files'[s].lines) = Len(files[s].lines) + 1
        /\ files'[s].lines[Len(files[s].lines) + 1] = line
        /\ \A i \in 1..Len(files[s].lines) :
              files'[s].lines[i] = files[s].lines[i]
    BY <2>4, <2>5
  <2>7. Grown(files[s], files'[s], written)
    BY <1>1, <2>3, <2>4, <2>5, <2>6 DEF Grown
  <2>8. \A t \in Sources : Grown(files[t], files'[t], written)
    BY <1>1, <1>2, <2>5, <2>7
  <2>9. written <= written'
    BY <1>1, <2>2
  <2> QED BY <1>1, <2>8, <2>9 DEF FileStep
<1>5. CASE \E s \in Sources : Rotate(s) \/ Truncate(s)
  <2>1. PICK s \in Sources : Rotate(s) \/ Truncate(s)
    BY <1>5
  <2>2. /\ \A t \in Sources \ {s} : files'[t] = files[t]
        /\ files'[s].lines = <<>> /\ written' = written
        /\ files'[s].inode \in {files[s].inode, files[s].inode + 1}
        /\ pc = "poll" => "poll" \in TruncatePoints
    BY <1>1, <2>1 DEF Rotate, Truncate, Replace
  <2>3. files[s].inode \in Nat
    BY <1>1 DEF File
  <2> QED BY <1>1, <1>2, <2>2, <2>3 DEF FileStep
<1> QED
  BY <1>3, <1>4, <1>5
     DEF Next, CycleStep, StopStep, Environment, Start, StartCycle, OpenSource,
         ReadLine, EndPoll, PollFails, FinishCycle, Persist, ReportNotDue,
         PruneReport, WriteReport, PersistReport, GracefulStop, PersistStop,
         WriteReceipt, Crash, GiveUp, Tick, StepBack, NextInterval, vars,
         environment

(* Cursors that are kept keep their meaning.                                *)
LEMMA LocatedNext ==
    ASSUME TypeInv, [Next]_vars, NEW s \in MonitorState, NEW t \in MonitorState,
           Located(s), t.seen = s.seen,
           \A src \in Sources :
               /\ t.source[src].inode = s.source[src].inode
               /\ t.source[src].cursor = s.source[src].cursor
               /\ t.source[src].prefix = s.source[src].prefix
    PROVE  \A src \in Sources :
               CursorOf(src, files'[src], written', t.source[src], t.seen)
<1> SUFFICES ASSUME NEW src \in Sources
             PROVE  CursorOf(src, files'[src], written', t.source[src], t.seen)
  OBVIOUS
<1>1. CursorOf(src, files[src], written, s.source[src], s.seen)
  BY DEF Located
<1>2. CursorOf(src, files[src], written, t.source[src], t.seen)
  BY <1>1 DEF CursorOf
<1>3. /\ files[src] \in File /\ files'[src] \in File
      /\ t.source[src] \in SourceHealth
      /\ written \in Nat /\ written' \in Nat /\ written <= written'
      /\ FileStep(files[src], files'[src], written)
  BY FilesStep DEF MonitorState
<1> QED BY <1>2, <1>3, CursorOfNext

(* The health that the end of a poll stores.                                *)
LEMMA PolledCursor ==
    ASSUME NEW src \in Sources, NEW f \in File, NEW lines \in Nat,
           NEW health \in SourceHealth, NEW seen,
           Read(src, f, health.cursor, seen), health.inode = f.inode,
           health.prefix = Prefix(f),
           \A i \in 1..Len(f.lines) : f.lines[i].number <= lines
    PROVE  CursorOf(src, f, lines, health, seen)
<1>1. f.inode \in Nat /\ f.lines \in Seq(Line) /\ health.cursor \in Nat
  BY DEF File, SourceHealth
<1>2. ASSUME health.cursor > 0
      PROVE  health.prefix # <<>> /\ health.prefix[1] <= lines
  <2>1. Len(f.lines) >= 1 /\ f.lines # <<>>
    BY <1>1, <1>2 DEF Read
  <2>2. health.prefix # <<>> /\ health.prefix[1] = f.lines[1].number
    BY <2>1, PrefixType DEF File
  <2> QED BY <1>1, <2>1, <2>2
<1> QED BY <1>1, <1>2, Constants DEF CursorOf

(* Polls read every line up to the cursor they store.                       *)
LEMMA CursorNext ==
    ASSUME "poll" \notin TruncatePoints
    PROVE  TypeInv /\ SeenInv /\ CursorInv /\ [Next]_vars => CursorInv'
<1> SUFFICES ASSUME TypeInv, SeenInv, CursorInv, [Next]_vars
             PROVE  CursorInv'
  OBVIOUS
<1>0. /\ mem \in MonitorState \union {None} /\ (mem = None <=> pc \in Ended)
      /\ disk \in MonitorState \union {None} /\ None \notin MonitorState
      /\ poll \in PollState \union {None} /\ (poll # None <=> pc = "poll")
      /\ mem' \in MonitorState \union {None}
      /\ disk' \in MonitorState \union {None}
      /\ poll' \in PollState \union {None} /\ (poll' # None <=> pc' = "poll")
      /\ None \notin PollState
  BY TypeNext, Constants DEF TypeInv, TypeOK
<1>a. \A s, t \in MonitorState :
         /\ Located(s) /\ t.seen = s.seen
         /\ \A src \in Sources :
               /\ t.source[src].inode = s.source[src].inode
               /\ t.source[src].cursor = s.source[src].cursor
               /\ t.source[src].prefix = s.source[src].prefix
         => \A src \in Sources :
               CursorOf(src, files'[src], written', t.source[src], t.seen)
  BY LocatedNext
<1>b. ASSUME UNCHANGED disk PROVE disk' # None => Located(disk)'
  BY <1>0, <1>a, <1>b DEF CursorInv, Located
<1>c. ASSUME UNCHANGED mem PROVE mem' # None => Located(mem)'
  BY <1>0, <1>a, <1>c DEF CursorInv, Located
<1>1. CASE Start
  <2>1. mem' # None => Located(mem)'
    <3>1. CASE disk = None
      <4>1. mem' = InitialState
        BY <1>1, <3>1 DEF Start
      <4>2. files' \in [Sources -> File]
        BY FilesStep
      <4> QED BY <4>1, <4>2, InitialStateType, Constants
              DEF Located, CursorOf, File
    <3>2. CASE disk # None
      <4>1. disk \in MonitorState /\ Located(disk) /\ mem' = Resumed(disk)
        BY <1>0, <1>1, <3>2 DEF Start, CursorInv
      <4>2. /\ mem' \in MonitorState /\ mem'.seen = disk.seen
            /\ mem'.source = disk.source
        BY <4>1, ResumedType
      <4> QED BY <1>a, <4>1, <4>2 DEF Located
    <3> QED BY <3>1, <3>2
  <2>2. UNCHANGED disk /\ poll' = None
    BY <1>0, <1>1 DEF Start, artifacts
  <2> QED BY <1>b, <2>1, <2>2 DEF CursorInv
<1>2. CASE StartCycle \/ ReportNotDue \/ GiveUp \/ PruneReport
  <2>1. UNCHANGED <<mem, disk>> /\ poll' = None
    BY <1>0, <1>2
       DEF StartCycle, ReportNotDue, GiveUp, PruneReport, artifacts, process
  <2> QED BY <1>b, <1>c, <2>1 DEF CursorInv
<1>3. CASE WriteReceipt \/ Crash
  <2>1. mem' = None /\ UNCHANGED disk /\ poll' = None
    BY <1>0, <1>3 DEF WriteReceipt, Crash, artifacts
  <2> QED BY <1>b, <2>1 DEF CursorInv
<1>4. CASE Persist \/ PersistReport \/ PersistStop
  <2>1. UNCHANGED mem /\ disk' = mem /\ poll' = None
    BY <1>0, <1>4 DEF Persist, PersistReport, PersistStop
  <2> QED BY <1>c, <2>1 DEF CursorInv, Located
<1>5. CASE \E s \in Sources : OpenSource(s)
  <2>1. PICK s \in Sources : OpenSource(s)
    BY <1>5
  <2> DEFINE f == files[s]
             h == mem.source[s]
  <2>2. /\ mem \in MonitorState /\ UNCHANGED <<mem, disk, files>>
    BY <1>0, <2>1 DEF OpenSource, artifacts, environment, Ended
  <2>3. /\ poll'.source = s /\ poll'.inode = f.inode /\ poll'.seen = mem.seen
        /\ poll'.cursor = IF Replaced(h, f) THEN 0 ELSE h.cursor
    BY <2>1 DEF OpenSource
  <2>4. Read(s, f, poll'.cursor, mem.seen)
    <3>1. CursorOf(s, f, written, h, mem.seen) /\ h \in SourceHealth
      BY <1>0, <2>2 DEF CursorInv, Located, MonitorState
    <3>2. CASE Replaced(h, f)
      <4>1. Len(f.lines) \in Nat
        BY DEF TypeInv, TypeOK
      <4> QED BY <2>3, <3>2, <4>1 DEF Read
    <3>3. CASE ~Replaced(h, f)
      BY <2>3, <3>1, <3>3, CursorIsRead
    <3> QED BY <3>2, <3>3
  <2> QED BY <1>b, <1>c, <2>2, <2>3, <2>4 DEF CursorInv
<1>6. CASE ReadLine
  <2> DEFINE src == poll.source
             f == files[src]
             obs == Identity(src, NextLine)
  <2>1. /\ mem \in MonitorState /\ poll \in PollState /\ poll' \in PollState
        /\ poll'.source = src /\ poll'.inode = poll.inode
        /\ poll'.cursor = poll.cursor + 1
        /\ poll.cursor + 1 \in 1..Len(f.lines) /\ obs \in Observation
        /\ \/ /\ poll'.seen = poll.seen
              /\ NextLine.kind = "valid" => Suppressed(obs)
           \/ poll'.seen = Append(poll.seen, obs)
    BY <1>6, ReadLineFields
  <2>2. UNCHANGED <<mem, disk, files>>
    BY <1>6 DEF ReadLine, artifacts, environment
  <2>3. /\ poll.inode = f.inode /\ Read(src, f, poll.cursor, poll.seen)
        /\ Extends(poll.seen, mem.seen)
        /\ mem.seen \in Seq(Observation) /\ poll.seen \in Seq(Observation)
        /\ poll.cursor \in Nat
    BY <1>0, <2>1 DEF CursorInv, SeenInv, PollState, MonitorState
  <2>4. /\ Range(poll.seen) \subseteq Range(poll'.seen)
        /\ NextLine.kind = "valid" => obs \in Range(poll'.seen)
    <3>1. CASE /\ poll'.seen = poll.seen
               /\ NextLine.kind = "valid" => Suppressed(obs)
      <4>1. Range(mem.seen) \subseteq Range(poll.seen)
        BY <2>3, RangeGrows
      <4>2. Suppressed(obs) => obs \in Range(poll.seen)
        BY <4>1 DEF Suppressed, Recent, Range
      <4> QED BY <3>1, <4>2
    <3>2. CASE poll'.seen = Append(poll.seen, obs)
      <4> HIDE DEF obs
      <4> DEFINE new == Append(poll.seen, obs)
      <4>1. /\ new \in Seq(Observation) /\ Extends(new, poll.seen)
            /\ Len(poll.seen) + 1 \in DOMAIN new
            /\ new[Len(poll.seen) + 1] = obs
        BY <2>1, <2>3 DEF Extends
      <4> HIDE DEF new
      <4>2. Range(poll.seen) \subseteq Range(new)
        BY <2>3, <4>1, RangeGrows
      <4>3. obs \in Range(new)
        BY <4>1 DEF Range
      <4> QED BY <3>2, <4>2, <4>3 DEF new
    <3> QED BY <2>1, <3>1, <3>2
  <2>5. Read(src, f, poll.cursor + 1, poll'.seen)
    <3> SUFFICES ASSUME NEW i \in 1..(poll.cursor + 1),
                        f.lines[i].kind = "valid"
                 PROVE  Identity(src, f.lines[i]) \in Range(poll'.seen)
      BY <2>1, <2>3 DEF Read
    <3>1. CASE i = poll.cursor + 1
      BY <2>4, <3>1 DEF NextLine
    <3>2. CASE i # poll.cursor + 1
      <4>1. i \in 1..poll.cursor
        BY <2>3, <3>2
      <4> QED BY <2>3, <2>4, <4>1 DEF Read
    <3> QED BY <3>1, <3>2
  <2> HIDE DEF obs
  <2> QED BY <1>b, <1>c, <2>1, <2>2, <2>3, <2>5 DEF CursorInv
<1>7. CASE EndPoll
  <2> DEFINE src == poll.source
             f == files[src]
  <2>1. /\ mem \in MonitorState /\ poll \in PollState
        /\ mem' \in MonitorState /\ mem'.seen = poll.seen
        /\ mem'.source[src].cursor = poll.cursor
        /\ mem'.source[src].inode = poll.inode
        /\ mem'.source[src].prefix = Prefix(f)
        /\ \A t \in Sources \ {src} : mem'.source[t] = mem.source[t]
    BY <1>7, EndPollFields
  <2>2. poll' = None /\ UNCHANGED <<disk, files, written>>
    BY <1>7 DEF EndPoll, artifacts, environment
  <2>3. /\ poll.inode = f.inode /\ Read(src, f, poll.cursor, poll.seen)
        /\ Extends(poll.seen, mem.seen) /\ src \in Sources
        /\ mem.seen \in Seq(Observation) /\ poll.seen \in Seq(Observation)
    BY <1>0, <2>1 DEF CursorInv, SeenInv, PollState, MonitorState
  <2>4. /\ f \in File /\ written \in Nat
        /\ \A i \in 1..Len(f.lines) : f.lines[i].number <= written
    <3>1. /\ files \in [Sources -> File]
          /\ written \in 0..MaxLines /\ MaxLines \in Nat
      BY Constants DEF TypeInv, TypeOK, File
    <3>2. f \in File
      BY <2>3, <3>1
    <3>3. written \in Nat
      BY <3>1
    <3>4. \A i \in 1..Len(f.lines) : f.lines[i].number <= written
      BY <2>3 DEF TypeInv, LinesInv
    <3> QED BY <3>2, <3>3, <3>4
  <2>5. CursorOf(src, f, written, mem'.source[src], mem'.seen)
    <3>1. mem'.source[src] \in SourceHealth
      BY <2>1, <2>3 DEF MonitorState
    <3> QED BY <2>1, <2>3, <2>4, <3>1, PolledCursor
  <2>6. \A t \in Sources \ {src} :
           CursorOf(t, files[t], written, mem'.source[t], mem'.seen)
    <3>1. Range(mem.seen) \subseteq Range(poll.seen)
      BY <2>3, RangeGrows
    <3>2. \A t \in Sources : CursorOf(t, files[t], written, mem.source[t],
                                      mem.seen)
      BY <1>0, <2>1 DEF CursorInv, Located
    <3>3. \A t \in Sources : CursorOf(t, files[t], written, mem.source[t],
                                      poll.seen)
      BY <3>1, <3>2 DEF CursorOf, Read
    <3> QED BY <2>1, <3>3
  <2>7. Located(mem)'
    BY <2>2, <2>5, <2>6 DEF Located
  <2> QED BY <1>b, <2>2, <2>7 DEF CursorInv
<1>8. CASE PollFails
  <2>1. /\ mem \in MonitorState /\ mem' \in MonitorState
        /\ mem'.seen = mem.seen
        /\ \A src \in Sources :
              /\ mem'.source[src].inode = mem.source[src].inode
              /\ mem'.source[src].cursor = mem.source[src].cursor
              /\ mem'.source[src].prefix = mem.source[src].prefix
    BY <1>8, PollFailsFields
  <2>2. poll' = None /\ UNCHANGED disk
    BY <1>8 DEF PollFails, artifacts
  <2>3. Located(mem)'
    BY <1>0, <1>a, <2>1 DEF CursorInv, Located
  <2> QED BY <1>b, <2>2, <2>3 DEF CursorInv
<1>9. CASE \/ \E probe \in {"passed", "failed"} : FinishCycle(probe)
           \/ WriteReport \/ GracefulStop
  <2>1. /\ mem \in MonitorState /\ mem' \in MonitorState
        /\ mem'.seen = mem.seen /\ mem'.source = mem.source
    BY <1>0, <1>9, FinishCycleFields, WriteReportFields, StoppedType
       DEF GracefulStop, Ended
  <2>2. poll' = None /\ UNCHANGED disk
    BY <1>0, <1>9 DEF FinishCycle, WriteReport, GracefulStop, artifacts
  <2>3. Located(mem)'
    BY <1>0, <1>a, <2>1 DEF CursorInv, Located
  <2> QED BY <1>b, <2>2, <2>3 DEF CursorInv
<1>10. CASE Tick \/ StepBack
  <2>1. /\ mem # None => mem' \in MonitorState /\ SameButAges(mem', mem)
        /\ disk # None => disk' \in MonitorState /\ SameButAges(disk', disk)
        /\ mem = None => mem' = None
        /\ disk = None => disk' = None
        /\ poll' = None
    BY <1>0, <1>10, ClockFields
  <2>2. mem # None => Located(mem)'
    BY <1>0, <1>a, <2>1 DEF CursorInv, Located, SameButAges
  <2>3. disk # None => Located(disk)'
    BY <1>0, <1>a, <2>1 DEF CursorInv, Located, SameButAges
  <2> QED BY <2>1, <2>2, <2>3 DEF CursorInv
<1>11. CASE Environment \/ UNCHANGED vars
  <2>1. UNCHANGED <<mem, disk, poll, pc>>
    BY <1>11 DEF Environment, WriteLine, Rotate, Truncate, Replace,
                 NextInterval, process, artifacts, vars
  <2>2. ASSUME poll # None
        PROVE  /\ poll.inode = files'[poll.source].inode
               /\ Read(poll.source, files'[poll.source], poll.cursor,
                       poll.seen)
    <3>1. poll.source \in Sources /\ poll.cursor \in Nat /\ pc = "poll"
      BY <1>0, <2>2 DEF PollState
    <3>2. /\ files[poll.source] \in File /\ files'[poll.source] \in File
          /\ Grown(files[poll.source], files'[poll.source], written)
      BY <3>1, FilesStep
    <3>3. /\ poll.inode = files[poll.source].inode
          /\ Read(poll.source, files[poll.source], poll.cursor, poll.seen)
      BY <2>2 DEF CursorInv
    <3> QED BY <3>1, <3>2, <3>3, ReadGrows DEF Grown
  <2> QED BY <1>b, <1>c, <2>1, <2>2 DEF CursorInv
<1> QED
  BY <1>1, <1>2, <1>3, <1>4, <1>5, <1>6, <1>7, <1>8, <1>9, <1>10, <1>11
     DEF Next, CycleStep, StopStep

-----------------------------------------------------------------------------
(* The theorems.                                                            *)

(* All the invariants hold before the first run.                            *)
LEMMA IndInit == Init => IndInv /\ ReceiptBindsCheckpoint /\ CursorInv
<1> SUFFICES ASSUME Init PROVE IndInv /\ ReceiptBindsCheckpoint /\ CursorInv
  OBVIOUS
<1>1. Cardinality(reports) = 0
  BY FS_EmptySet DEF Init
<1> QED
  BY <1>1, TypeInit, Constants
     DEF Init, IndInv, LifecycleInv, ReportedHasReport, ReportsInv, SeenInv,
         CountInv, CursorInv, ReceiptBindsCheckpoint

(* They hold throughout.                                                    *)
THEOREM Invariance == Spec => []IndInv
<1>1. IndInv /\ [Next]_vars => IndInv'
  BY TypeNext, LifecycleNext, ReportsNext, SeenNext DEF IndInv
<1> QED BY <1>1, IndInit, PTL DEF Spec

(* The files, the state dictionary, the checkpoint and the other artifacts  *)
(* are well typed.                                                          *)
THEOREM TypeCorrect == Spec => []TypeOK
<1>1. IndInv => TypeOK
  BY DEF IndInv, TypeInv
<1> QED BY <1>1, Invariance, PTL

(* load_monitor_state accepts every checkpoint that stops, kills and        *)
(* restarts leave.                                                          *)
THEOREM CheckpointIsAccepted == Spec => []CheckpointAccepted
<1>1. IndInv => CheckpointAccepted
  BY DEF IndInv, LifecycleInv, CheckpointAccepted
<1> QED BY <1>1, Invariance, PTL

(* _graceful_stop's receipt is never ahead of the checkpoint, and the one of*)
(* the last stop is of the run the stopped checkpoint describes.            *)
THEOREM ReceiptIsBound == Spec => []ReceiptBindsCheckpoint
<1>1. IndInv /\ ReceiptBindsCheckpoint /\ [Next]_vars
        => ReceiptBindsCheckpoint'
  BY ReceiptNext DEF IndInv
<1> QED BY <1>1, IndInit, Invariance, PTL DEF Spec

(* An interval the checkpoint calls reported has a report no older than it, *)
(* and the reports stay within their budget.                                *)
THEOREM ReportsAreThere == Spec => []ReportedHasReport
<1>1. IndInv => ReportedHasReport
  BY DEF IndInv
<1> QED BY <1>1, Invariance, PTL

(* An observation is accepted again only after `Window' others.             *)
THEOREM WindowIsKept == Spec => []SuppressedWithinWindow
<1>1. IndInv => SuppressedWithinWindow
  <2> SUFFICES ASSUME IndInv, disk # None, NEW i \in DOMAIN disk.seen,
                      NEW j \in DOMAIN disk.seen, i < j,
                      disk.seen[i] = disk.seen[j]
               PROVE  j - i > Window
    BY DEF SuppressedWithinWindow
  <2>1. Windowed(disk.seen) /\ disk.seen \in Seq(Observation)
    BY DEF IndInv, SeenInv, TypeInv, TypeOK, MonitorState
  <2> QED BY <2>1 DEF Windowed
<1> QED BY <1>1, Invariance, PTL

(* Each I/O error in a poll inflates the total of accepted observations by  *)
(* at most one cycle's budget; restarts and rotations add nothing.          *)
THEOREM RecountIsBounded == Spec => []RecountBounded
<1>1. IndInv => RecountBounded
  BY DEF IndInv, CountInv, Recounted, RecountBounded
<1> QED BY <1>1, Invariance, PTL

(* evaluate_watchdog turns healthy only with the checkpoint of a completed  *)
(* cycle, or by the wall clock: passing a heartbeat that was in its future, *)
(* or set back to where a stale one was current.                            *)
THEOREM OnlyCyclesRevive == Spec => OnlyACycleRevives
<1>1. IndInv /\ [Next]_vars
        => [~Healthy /\ Healthy'
              => ByACycle \/ ByTime \/ ByTheClockSetBack]_vars
  BY ReviveStep DEF IndInv
<1> QED BY <1>1, Invariance, PTL DEF Spec, OnlyACycleRevives

(* Unless a file is truncated in place while a poll reads it, every valid   *)
(* line before a checkpointed cursor has been accepted, whatever rotations, *)
(* truncations between the polls, I/O errors and kills there have been.     *)
THEOREM NothingIsSkipped ==
    ASSUME "poll" \notin TruncatePoints
    PROVE  Spec => []NothingSkipped
<1>1. IndInv /\ CursorInv /\ [Next]_vars => CursorInv'
  BY CursorNext DEF IndInv
<1>2. IndInv /\ CursorInv => NothingSkipped
  <2> SUFFICES ASSUME IndInv, CursorInv, disk # None, NEW src \in Sources,
                      ~Replaced(disk.source[src], files[src]),
                      NEW i \in 1..disk.source[src].cursor,
                      files[src].lines[i].kind = "valid"
               PROVE  Identity(src, files[src].lines[i]) \in Range(disk.seen)
    BY DEF NothingSkipped
  <2>1. /\ disk.source[src] \in SourceHealth /\ TypeInv
        /\ CursorOf(src, files[src], written, disk.source[src], disk.seen)
    BY DEF IndInv, TypeInv, TypeOK, MonitorState, CursorInv, Located
  <2>2. Read(src, files[src], disk.source[src].cursor, disk.seen)
    BY <2>1, CursorIsRead
  <2> QED BY <2>2 DEF Read
<1> QED BY <1>1, <1>2, IndInit, Invariance, PTL DEF Spec
=============================================================================
