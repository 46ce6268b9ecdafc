------------------------ MODULE NotificationAuthority ------------------------
(***************************************************************************)
(* The P141 notification authority                                         *)
(* (app/services/p141_notification_authority.py): a process that runs      *)
(* again and again, each time under a file lease, and turns every event of *)
(* the P133 outbox into one envelope and one simulated receipt per         *)
(* destination.  A cursor, written after the last receipt of an event, is  *)
(* the only memory between runs.                                           *)
(*                                                                         *)
(* An event is its sequence number; an artifact is the pair of its event   *)
(* and its destination, since its name and its bytes follow from the two.  *)
(* Every artifact is replaced by a rename: it is there, or it is not, or   *)
(* (a kill between the creation of the temporary file and the rename) a    *)
(* file with another name is left behind.  A run that raises before its    *)
(* first write changes nothing and is no step of this module               *)
(* (NotificationUnit has what it means for the service).                   *)
(*                                                                         *)
(* `troubles' are the conditions outside that make a run or a listing      *)
(* raise while they last: "space", the byte budget of the artifacts is     *)
(* used up or the free space is below its floor, "labSpace", the same, or  *)
(* the budget of files, for P142; "lease", P133's or P141's lease is held  *)
(* by somebody else; "litter", a temporary file is left in P133's outbox;  *)
(* "clock", the wall clock is too far behind P141's cursor.                *)
(***************************************************************************)
EXTENDS Integers, Sequences, FiniteSets

CONSTANTS
    Destinations,       \* the values of config.destination_ids
    DestinationIds,     \* config.destination_ids, in their order
    MaxArtifactFiles,   \* config.max_artifact_files
    Troubles,           \* bound: the conditions that come up
    MaxEvents,          \* bound: events P133 ever writes
    MaxPruned,          \* bound: events P133's retention removes
    MaxAuthorityCrashes \* bound: ends of a run by a kill or a failed write

ASSUME AuthorityAssumption ==
    /\ IsFiniteSet(Destinations)
    /\ DestinationIds \in Seq(Destinations)
    /\ Destinations = {DestinationIds[i] : i \in 1..Len(DestinationIds)}
    /\ Len(DestinationIds) >= 1
    /\ \A n \in {MaxArtifactFiles, MaxEvents, MaxPruned,
                 MaxAuthorityCrashes} : n \in Nat
    /\ Troubles \subseteq {"space", "labSpace", "lease", "litter", "clock"}

Event == 1..MaxEvents
Attempt == Event \X Destinations

VARIABLES
    outbox,      \* events in P133's outbox
    written,     \* how many events P133 has written
    pruned,      \* how many of them its retention has removed
    barred,      \* events whose transition kind the configuration rejects
    troubles,    \* the conditions outside that make runs raise
    envelopes,   \* attempts whose envelope file exists
    simulated,   \* attempts whose simulated receipt exists
    strays,      \* temporary files left in the two directories
    cursor,      \* last_sequence of the cursor file
    apc,         \* where the run is
    last,        \* the last event this run has read from the outbox
    current,     \* the event it is at
    slot,        \* the position in DestinationIds it is at
    authorityCrashes

outboxVars == <<outbox, written, pruned, barred, troubles>>
artifactVars == <<envelopes, simulated, strays, cursor>>
runVars == <<apc, last, current, slot>>
authorityVars == <<outboxVars, artifactVars, runVars, authorityCrashes>>

AuthorityInit ==
    /\ outbox = {} /\ written = 0 /\ pruned = 0 /\ barred = {}
    /\ troubles = {}
    /\ envelopes = {} /\ simulated = {} /\ strays = 0 /\ cursor = 0
    /\ apc = "idle" /\ last = 0 /\ current = 1 /\ slot = 1
    /\ authorityCrashes = 0

-----------------------------------------------------------------------------
(* The P133 outbox, as far as this process sees it (DeadmanOutbox has the   *)
(* whole of it): events are numbered without a gap, and any acknowledged    *)
(* one may be removed.                                                      *)

PublishEvent ==
    /\ written < MaxEvents
    /\ written' = written + 1
    /\ outbox' = outbox \union {written + 1}
    /\ \E b \in {barred, barred \union {written + 1}} : barred' = b
    /\ UNCHANGED <<pruned, troubles, artifactVars, runVars, authorityCrashes>>

PruneOutbox ==
    /\ pruned < MaxPruned
    /\ \E e \in outbox : outbox' = outbox \ {e}
    /\ pruned' = pruned + 1
    /\ UNCHANGED <<written, barred, troubles, artifactVars, runVars,
                   authorityCrashes>>

(* Disks fill up and are cleared, leases are taken and given back, clocks   *)
(* are set.                                                                 *)
TroubleComesOrGoes ==
    /\ \E c \in Troubles :
          \/ c \notin troubles /\ troubles' = troubles \union {c}
          \/ c \in troubles /\ troubles' = troubles \ {c}
    /\ UNCHANGED <<outbox, written, pruned, barred, artifactVars, runVars,
                   authorityCrashes>>

-----------------------------------------------------------------------------
(* What a run, and every listing, requires of the outbox and of the cursor: *)
(* list_outbox gets P133's lease and finds nothing but events, the events   *)
(* are 1, 2, 3 ... and the cursor is one of them or 0.                      *)
ChainAccepted ==
    /\ {"lease", "litter"} \intersect troubles = {}
    /\ outbox = 1..Cardinality(outbox)
    /\ cursor <= Cardinality(outbox)

(* _validate_clock: a cursor that has been written carries a time.          *)
ClockAccepted == cursor = 0 \/ "clock" \notin troubles

(* _validate_completed_attempts.                                            *)
CompletedAccepted ==
    \A e \in 1..cursor, d \in Destinations :
        <<e, d>> \in envelopes /\ <<e, d>> \in simulated

ArtifactFiles == Cardinality(envelopes) + Cardinality(simulated) + strays

MissingFiles(e) ==
    Cardinality({d \in Destinations : <<e, d>> \notin envelopes})
    + Cardinality({d \in Destinations : <<e, d>> \notin simulated})

(* Variant: room for one file is enough.                                    *)
VariantPreflightOne(e) ==
    /\ "space" \notin troubles
    /\ ArtifactFiles + 1 <= MaxArtifactFiles

(* _preflight_event_budget: there is room for the whole event.              *)
PreflightPasses(e) ==
    /\ "space" \notin troubles
    /\ ArtifactFiles + MissingFiles(e) <= MaxArtifactFiles

(* _reserve_budget, before each single write.                               *)
RoomForOne ==
    /\ "space" \notin troubles
    /\ ArtifactFiles + 1 <= MaxArtifactFiles

CurrentAttempt == <<current, DestinationIds[slot]>>

(* The locals of a run end with it.                                         *)
EndRun == apc' = "idle" /\ last' = 0 /\ current' = 1 /\ slot' = 1

(* The lease is taken, the cursor, the outbox and the completed attempts    *)
(* are read and accepted.                                                   *)
RunAccepted ==
    apc = "idle" /\ ClockAccepted /\ ChainAccepted /\ CompletedAccepted

BeginAuthorityRun ==
    /\ RunAccepted
    /\ apc' = "event"
    /\ last' = Cardinality(outbox)
    /\ current' = cursor + 1
    /\ slot' = 1
    /\ UNCHANGED <<outboxVars, artifactVars, authorityCrashes>>

(* The next pending event, if its kind and the budget allow it; the run     *)
(* ends otherwise, and when there is none.                                  *)
TakeEvent ==
    /\ apc = "event"
    /\ IF current <= last /\ current \notin barred /\ PreflightPasses(current)
       THEN apc' = "envelope" /\ slot' = 1 /\ UNCHANGED <<last, current>>
       ELSE EndRun
    /\ UNCHANGED <<outboxVars, artifactVars, authorityCrashes>>

(* _persist_attempt, first half: the envelope is written unless it is there.*)
PersistEnvelope ==
    /\ apc = "envelope"
    /\ IF \/ CurrentAttempt \in envelopes
          \/ RoomForOne /\ CurrentAttempt \notin simulated
       THEN /\ envelopes' = envelopes \union {CurrentAttempt}
            /\ apc' = "receipt"
            /\ UNCHANGED <<last, current, slot>>
       ELSE EndRun /\ UNCHANGED envelopes
    /\ UNCHANGED <<outboxVars, simulated, strays, cursor, authorityCrashes>>

(* Variant: the cursor follows the first destination.                       *)
VariantFirstDestination ==
    /\ apc = "receipt"
    /\ CurrentAttempt \in simulated \/ RoomForOne
    /\ simulated' = simulated \union {CurrentAttempt}
    /\ apc' = "cursor"
    /\ UNCHANGED <<last, current, slot>>
    /\ UNCHANGED <<outboxVars, envelopes, strays, cursor, authorityCrashes>>

(* Second half: the simulated receipt, unless it is there.                  *)
PersistReceipt ==
    /\ apc = "receipt"
    /\ IF CurrentAttempt \in simulated \/ RoomForOne
       THEN /\ simulated' = simulated \union {CurrentAttempt}
            /\ IF slot < Len(DestinationIds)
               THEN apc' = "envelope" /\ slot' = slot + 1
               ELSE apc' = "cursor" /\ UNCHANGED slot
            /\ UNCHANGED <<last, current>>
       ELSE EndRun /\ UNCHANGED simulated
    /\ UNCHANGED <<outboxVars, envelopes, strays, cursor, authorityCrashes>>

WriteAuthorityCursor ==
    /\ apc = "cursor"
    /\ cursor' = current
    /\ current' = current + 1
    /\ apc' = "event"
    /\ UNCHANGED <<outboxVars, envelopes, simulated, strays, last, slot,
                   authorityCrashes>>

(* A kill, or a write that fails, before the rename.  A kill in the middle  *)
(* of a write leaves the temporary file; a failed write removes it.         *)
AuthorityCrash ==
    /\ apc # "idle"
    /\ authorityCrashes < MaxAuthorityCrashes
    /\ authorityCrashes' = authorityCrashes + 1
    /\ \E n \in IF apc \in {"envelope", "receipt"} THEN 0..1 ELSE {0} :
          strays' = strays + n
    /\ EndRun
    /\ UNCHANGED <<outboxVars, envelopes, simulated, cursor>>

AuthorityStep ==
    \/ BeginAuthorityRun \/ TakeEvent \/ PersistEnvelope \/ PersistReceipt
    \/ WriteAuthorityCursor

AuthorityNext ==
    \/ PublishEvent \/ PruneOutbox \/ TroubleComesOrGoes
    \/ AuthorityStep \/ AuthorityCrash

-----------------------------------------------------------------------------
AuthorityTypeOK ==
    /\ outbox \subseteq Event /\ written \in 0..MaxEvents
    /\ pruned \in 0..MaxPruned /\ barred \subseteq Event
    /\ troubles \subseteq Troubles
    /\ envelopes \subseteq Attempt /\ simulated \subseteq Attempt
    /\ strays \in 0..MaxAuthorityCrashes /\ cursor \in 0..MaxEvents
    /\ apc \in {"idle", "event", "envelope", "receipt", "cursor"}
    /\ last \in 0..MaxEvents /\ current \in 1..(MaxEvents + 1)
    /\ slot \in 1..Len(DestinationIds)
    /\ authorityCrashes \in 0..MaxAuthorityCrashes

(* The cursor file never passes an event of which some destination lacks its*)
(* envelope or its simulated receipt, whatever kill or failed write comes   *)
(* between the writes, and no receipt stands without its envelope: the runs *)
(* that check the completed attempts (cursor_artifact_missing) and the      *)
(* receipts (receipt_without_envelope) never refuse an earlier run's files.  *)
CursorCoversArtifacts ==
    /\ CompletedAccepted
    /\ simulated \subseteq envelopes

(* Once the preflight has let an event through, the reservations before its *)
(* single writes find a file for each of them: the budget of files never    *)
(* leaves an event with some of its destinations served.  (Free space is    *)
(* shared with other programs, and may run out in between.)                 *)
AdmittedEventFits ==
    apc \in {"envelope", "receipt"} =>
        ArtifactFiles + MissingFiles(current) <= MaxArtifactFiles
=============================================================================
