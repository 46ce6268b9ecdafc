--------------------- MODULE NotificationAuthorityProofs ---------------------
(***************************************************************************)
(* Proofs about the P141 notification authority, for every list of         *)
(* destinations, every file budget and any number of events, removals and  *)
(* kills.  They are stated for its steps alone; NotificationChainProofs    *)
(* puts them together with those of the P142 transport.                    *)
(***************************************************************************)
EXTENDS NotificationAuthority, FiniteSetTheorems, TLAPS

-----------------------------------------------------------------------------
(* The inductive invariant.                                                 *)

(* Every stray file is the trace of a kill; an event under way is one that  *)
(* was read from the outbox.                                                *)
AuthorityTypeInv ==
    /\ AuthorityTypeOK
    /\ strays <= authorityCrashes
    /\ apc \in {"envelope", "receipt", "cursor"} => current <= last

Served(e, d) == <<e, d>> \in envelopes /\ <<e, d>> \in simulated

(* What a run has done of its event at each of its steps.                   *)
RunInv ==
    /\ apc # "idle" => current = cursor + 1
    /\ apc \in {"envelope", "receipt"} =>
          \A i \in 1..(slot - 1) : Served(current, DestinationIds[i])
    /\ apc = "receipt" => CurrentAttempt \in envelopes
    /\ apc = "cursor" => \A d \in Destinations : Served(current, d)

AuthorityInv ==
    /\ AuthorityTypeInv
    /\ CursorCoversArtifacts
    /\ RunInv
    /\ AdmittedEventFits

-----------------------------------------------------------------------------
(* Facts about the files.                                                   *)

(* The bounds are numbers.                                                  *)
LEMMA BoundsAreNumbers ==
    /\ MaxArtifactFiles \in Nat /\ MaxEvents \in Nat
    /\ MaxPruned \in Nat /\ MaxAuthorityCrashes \in Nat
BY AuthorityAssumption

(* There is a destination, and the destinations are those that are listed.  *)
LEMMA DestinationsAreListed ==
    /\ Len(DestinationIds) \in Nat \ {0}
    /\ \A i \in 1..Len(DestinationIds) : DestinationIds[i] \in Destinations
    /\ \A d \in Destinations :
          \E i \in 1..Len(DestinationIds) : DestinationIds[i] = d
<1>1. Len(DestinationIds) \in Nat /\ Len(DestinationIds) >= 1
  BY AuthorityAssumption
<1>2. \A i \in 1..Len(DestinationIds) : DestinationIds[i] \in Destinations
  BY AuthorityAssumption
<1>3. \A d \in Destinations :
        \E i \in 1..Len(DestinationIds) : DestinationIds[i] = d
  <2> SUFFICES ASSUME NEW d \in Destinations
               PROVE  \E i \in 1..Len(DestinationIds) : DestinationIds[i] = d
    OBVIOUS
  <2>1. d \in {DestinationIds[i] : i \in 1..Len(DestinationIds)}
    BY AuthorityAssumption
  <2> QED BY <2>1
<1> QED BY <1>1, <1>2, <1>3

(* There are finitely many events and artifacts.                            *)
LEMMA FiniteArtifacts ==
    /\ IsFiniteSet(Event) /\ Cardinality(Event) = MaxEvents
    /\ IsFiniteSet(Attempt)
<1>1. IsFiniteSet(Event) /\ Cardinality(Event) = MaxEvents
  <2>1. /\ IsFiniteSet(1..MaxEvents)
        /\ Cardinality(1..MaxEvents)
              = IF 1 > MaxEvents THEN 0 ELSE MaxEvents - 1 + 1
    BY BoundsAreNumbers, FS_Interval
  <2> QED BY <2>1, BoundsAreNumbers DEF Event
<1>2. IsFiniteSet(Attempt)
  BY <1>1, AuthorityAssumption, FS_Product DEF Attempt
<1> QED BY <1>1, <1>2

(* The outbox holds at most MaxEvents events, whatever has been removed.    *)
LEMMA OutboxSize ==
    outbox \subseteq Event => Cardinality(outbox) \in 0..MaxEvents
<1> SUFFICES ASSUME outbox \subseteq Event
             PROVE  Cardinality(outbox) \in 0..MaxEvents
  OBVIOUS
<1>1. IsFiniteSet(outbox) /\ Cardinality(outbox) <= MaxEvents
  BY FiniteArtifacts, FS_Subset
<1>2. Cardinality(outbox) \in Nat
  BY <1>1, FS_CardinalityType
<1> QED BY <1>1, <1>2, BoundsAreNumbers

(* A new file of an event is one more file and one missing file less.       *)
LEMMA OneFileMoves ==
    ASSUME NEW S \in SUBSET Attempt, NEW e \in Event, NEW d \in Destinations,
           <<e, d>> \notin S
    PROVE  /\ Cardinality(S) \in Nat
           /\ Cardinality(S \union {<<e, d>>}) = Cardinality(S) + 1
           /\ Cardinality({x \in Destinations : <<e, x>> \notin S}) \in Nat
           /\ Cardinality({x \in Destinations :
                              <<e, x>> \notin S \union {<<e, d>>}})
                = Cardinality({x \in Destinations : <<e, x>> \notin S}) - 1
<1> DEFINE M == {x \in Destinations : <<e, x>> \notin S}
           N == {x \in Destinations : <<e, x>> \notin S \union {<<e, d>>}}
<1>1. IsFiniteSet(S) /\ Cardinality(S) \in Nat
  BY FiniteArtifacts, FS_Subset, FS_CardinalityType
<1>2. Cardinality(S \union {<<e, d>>}) = Cardinality(S) + 1
  BY <1>1, FS_AddElement
<1>3. IsFiniteSet(M) /\ Cardinality(M) \in Nat
  BY AuthorityAssumption, FS_Subset, FS_CardinalityType
<1>4. d \in M /\ N = M \ {d}
  OBVIOUS
<1>5. Cardinality(N) = Cardinality(M) - 1
  <2>1. Cardinality(M \ {d}) = Cardinality(M) - 1
    BY <1>3, <1>4, FS_RemoveElement
  <2> QED BY <1>4, <2>1
<1> QED BY <1>1, <1>2, <1>3, <1>5

(* The numbers of files there are and of files that are missing.            *)
LEMMA FileCounts ==
    ASSUME NEW S \in SUBSET Attempt, NEW e \in Event
    PROVE  /\ Cardinality(S) \in Nat
           /\ Cardinality({x \in Destinations : <<e, x>> \notin S}) \in Nat
BY FiniteArtifacts, AuthorityAssumption, FS_Subset, FS_CardinalityType

-----------------------------------------------------------------------------
(* Before the first run nothing is there, and nothing is claimed.           *)
LEMMA AuthorityInitInv == AuthorityInit => AuthorityInv
BY BoundsAreNumbers, DestinationsAreListed
   DEF AuthorityInit, AuthorityInv, AuthorityTypeInv, AuthorityTypeOK,
       CursorCoversArtifacts, CompletedAccepted, RunInv, AdmittedEventFits

(* Every step of a run, every kill and every step of P133 keeps the files   *)
(* and the locals of the run well typed.                                    *)
LEMMA AuthorityTypeNext ==
    AuthorityTypeInv /\ (AuthorityNext \/ UNCHANGED authorityVars)
        => AuthorityTypeInv'
<1> SUFFICES ASSUME AuthorityTypeInv,
                    AuthorityNext \/ UNCHANGED authorityVars
             PROVE  AuthorityTypeInv'
  OBVIOUS
<1> USE BoundsAreNumbers, DestinationsAreListed
    DEF AuthorityTypeInv, AuthorityTypeOK, outboxVars, artifactVars, runVars
<1>1. CASE PublishEvent
  BY <1>1 DEF PublishEvent, Event
<1>2. CASE PruneOutbox
  BY <1>2 DEF PruneOutbox
<1>3. CASE BeginAuthorityRun
  BY <1>3, OutboxSize DEF BeginAuthorityRun, RunAccepted
<1>4. CASE TakeEvent
  BY <1>4 DEF TakeEvent, EndRun
<1>5. CurrentAttempt \in Attempt \/ apc \notin {"envelope", "receipt"}
  BY DEF CurrentAttempt, Attempt, Event
<1>6. CASE PersistEnvelope
  BY <1>5, <1>6 DEF PersistEnvelope, EndRun
<1>7. CASE PersistReceipt
  BY <1>5, <1>7 DEF PersistReceipt, EndRun
<1>8. CASE WriteAuthorityCursor
  BY <1>8 DEF WriteAuthorityCursor
<1>9. CASE AuthorityCrash
  BY <1>9 DEF AuthorityCrash, EndRun
<1>10. CASE TroubleComesOrGoes
  BY <1>10 DEF TroubleComesOrGoes
<1>11. CASE UNCHANGED authorityVars
  BY <1>11 DEF authorityVars
<1> QED
  BY <1>1, <1>2, <1>3, <1>4, <1>6, <1>7, <1>8, <1>9, <1>10, <1>11
     DEF AuthorityNext, AuthorityStep

(* The cursor passes an event only once all of its files are there.         *)
LEMMA AuthorityFilesNext ==
    AuthorityInv /\ (AuthorityNext \/ UNCHANGED authorityVars)
        => (CursorCoversArtifacts /\ RunInv)'
<1> SUFFICES ASSUME AuthorityInv,
                    AuthorityNext \/ UNCHANGED authorityVars
             PROVE  (CursorCoversArtifacts /\ RunInv)'
  OBVIOUS
<1> USE BoundsAreNumbers, DestinationsAreListed
    DEF AuthorityInv, AuthorityTypeInv, AuthorityTypeOK, outboxVars,
        artifactVars, runVars, CursorCoversArtifacts, CompletedAccepted,
        RunInv, Served, CurrentAttempt
<1>1. CASE PublishEvent
  BY <1>1 DEF PublishEvent
<1>2. CASE PruneOutbox
  BY <1>2 DEF PruneOutbox
<1>3. CASE BeginAuthorityRun
  BY <1>3 DEF BeginAuthorityRun, RunAccepted
<1>4. CASE TakeEvent
  BY <1>4 DEF TakeEvent, EndRun
<1>5. CASE PersistEnvelope
  BY <1>5 DEF PersistEnvelope, EndRun
<1>6. CASE PersistReceipt
  <2>1. CASE UNCHANGED simulated
    BY <1>6, <2>1 DEF PersistReceipt, EndRun
  <2>2. CASE simulated' = simulated \union {CurrentAttempt} /\ apc' # "idle"
    <3>1. CursorCoversArtifacts'
      BY <1>6, <2>2 DEF PersistReceipt
    <3>2. \A i \in 1..slot : Served(current, DestinationIds[i])'
      BY <1>6, <2>2 DEF PersistReceipt
    <3>3. CASE slot < Len(DestinationIds)
      BY <1>6, <2>2, <3>1, <3>2, <3>3 DEF PersistReceipt
    <3>4. CASE ~(slot < Len(DestinationIds))
      <4>1. \A d \in Destinations : \E i \in 1..slot : DestinationIds[i] = d
        BY <3>4
      <4> QED BY <1>6, <2>2, <3>1, <3>2, <3>4, <4>1 DEF PersistReceipt
    <3> QED BY <3>3, <3>4
  <2> QED BY <1>6, <2>1, <2>2 DEF PersistReceipt, EndRun
<1>7. CASE WriteAuthorityCursor
  <2>1. \A d \in Destinations : Served(current, d)
    BY <1>7 DEF WriteAuthorityCursor
  <2>2. CursorCoversArtifacts'
    BY <1>7, <2>1 DEF WriteAuthorityCursor
  <2>3. RunInv'
    BY <1>7 DEF WriteAuthorityCursor
  <2> QED BY <2>2, <2>3
<1>8. CASE AuthorityCrash
  BY <1>8 DEF AuthorityCrash, EndRun
<1>9. CASE TroubleComesOrGoes
  BY <1>9 DEF TroubleComesOrGoes
<1>10. CASE UNCHANGED authorityVars
  BY <1>10 DEF authorityVars
<1> QED
  BY <1>1, <1>2, <1>3, <1>4, <1>5, <1>6, <1>7, <1>8, <1>9, <1>10
     DEF AuthorityNext, AuthorityStep

(* A write takes one of the files the preflight has left room for.          *)
LEMMA AuthorityBudgetNext ==
    AuthorityInv /\ (AuthorityNext \/ UNCHANGED authorityVars)
        => AdmittedEventFits'
<1> SUFFICES ASSUME AuthorityInv,
                    AuthorityNext \/ UNCHANGED authorityVars,
                    apc' \in {"envelope", "receipt"}
             PROVE  (ArtifactFiles + MissingFiles(current) <= MaxArtifactFiles)'
  BY DEF AdmittedEventFits
<1> USE DEF outboxVars, artifactVars, runVars
<1>0. /\ envelopes \in SUBSET Attempt /\ simulated \in SUBSET Attempt
      /\ strays \in Nat /\ MaxArtifactFiles \in Nat
  BY BoundsAreNumbers DEF AuthorityInv, AuthorityTypeInv, AuthorityTypeOK
<1>1. CASE UNCHANGED <<envelopes, simulated, strays>>
           /\ \/ TakeEvent
              \/ UNCHANGED <<apc, current>>
  BY <1>1 DEF AuthorityInv, AdmittedEventFits, TakeEvent, PreflightPasses,
              EndRun, ArtifactFiles, MissingFiles
<1>2. ASSUME apc \in {"envelope", "receipt"}
      PROVE  /\ current \in Event /\ DestinationIds[slot] \in Destinations
             /\ ArtifactFiles + MissingFiles(current) <= MaxArtifactFiles
  BY <1>2, BoundsAreNumbers, DestinationsAreListed
     DEF AuthorityInv, AuthorityTypeInv, AuthorityTypeOK, AdmittedEventFits,
         Event
<1>3. CASE PersistEnvelope
  <2>1. /\ current' = current /\ UNCHANGED <<simulated, strays>>
        /\ envelopes' = envelopes \union {CurrentAttempt}
    BY <1>3 DEF PersistEnvelope, EndRun
  <2>2. CASE CurrentAttempt \in envelopes
    <3>1. envelopes' = envelopes
      BY <2>1, <2>2
    <3> QED BY <1>2, <1>3, <2>1, <3>1
            DEF PersistEnvelope, ArtifactFiles, MissingFiles
  <2>3. CASE CurrentAttempt \notin envelopes
    <3>1. apc = "envelope"
      BY <1>3 DEF PersistEnvelope
    <3>2. /\ Cardinality(envelopes) \in Nat
          /\ Cardinality(envelopes') = Cardinality(envelopes) + 1
          /\ Cardinality({x \in Destinations : <<current, x>> \notin envelopes})
                \in Nat
          /\ Cardinality({x \in Destinations : <<current, x>> \notin envelopes'})
               = Cardinality({x \in Destinations :
                                 <<current, x>> \notin envelopes}) - 1
      <4> DEFINE d == DestinationIds[slot]
                 new == envelopes \union {<<current, d>>}
      <4>1. /\ Cardinality(envelopes) \in Nat
            /\ Cardinality(new) = Cardinality(envelopes) + 1
            /\ Cardinality({x \in Destinations : <<current, x>> \notin envelopes})
                  \in Nat
            /\ Cardinality({x \in Destinations : <<current, x>> \notin new})
                 = Cardinality({x \in Destinations :
                                   <<current, x>> \notin envelopes}) - 1
        BY <1>0, <1>2, <2>3, <3>1, OneFileMoves DEF CurrentAttempt
      <4>2. envelopes' = new
        BY <2>1 DEF CurrentAttempt
      <4> QED BY <4>1, <4>2
    <3>3. /\ Cardinality(simulated) \in Nat
          /\ Cardinality({x \in Destinations : <<current, x>> \notin simulated})
                \in Nat
      BY <1>0, <1>2, <3>1, FileCounts
    <3> QED BY <1>0, <1>2, <2>1, <3>1, <3>2, <3>3
            DEF ArtifactFiles, MissingFiles
  <2> QED BY <2>2, <2>3
<1>4. CASE PersistReceipt
  <2>1. /\ current' = current /\ UNCHANGED <<envelopes, strays>>
        /\ simulated' = simulated \union {CurrentAttempt}
    BY <1>4 DEF PersistReceipt, EndRun
  <2>2. CASE CurrentAttempt \in simulated
    <3>1. simulated' = simulated
      BY <2>1, <2>2
    <3> QED BY <1>2, <1>4, <2>1, <3>1
            DEF PersistReceipt, ArtifactFiles, MissingFiles
  <2>3. CASE CurrentAttempt \notin simulated
    <3>1. apc = "receipt"
      BY <1>4 DEF PersistReceipt
    <3>2. /\ Cardinality(simulated) \in Nat
          /\ Cardinality(simulated') = Cardinality(simulated) + 1
          /\ Cardinality({x \in Destinations : <<current, x>> \notin simulated})
                \in Nat
          /\ Cardinality({x \in Destinations : <<current, x>> \notin simulated'})
               = Cardinality({x \in Destinations :
                                 <<current, x>> \notin simulated}) - 1
      <4> DEFINE d == DestinationIds[slot]
                 new == simulated \union {<<current, d>>}
      <4>1. /\ Cardinality(simulated) \in Nat
            /\ Cardinality(new) = Cardinality(simulated) + 1
            /\ Cardinality({x \in Destinations : <<current, x>> \notin simulated})
                  \in Nat
            /\ Cardinality({x \in Destinations : <<current, x>> \notin new})
                 = Cardinality({x \in Destinations :
                                   <<current, x>> \notin simulated}) - 1
        BY <1>0, <1>2, <2>3, <3>1, OneFileMoves DEF CurrentAttempt
      <4>2. simulated' = new
        BY <2>1 DEF CurrentAttempt
      <4> QED BY <4>1, <4>2
    <3>3. /\ Cardinality(envelopes) \in Nat
          /\ Cardinality({x \in Destinations : <<current, x>> \notin envelopes})
                \in Nat
      BY <1>0, <1>2, <3>1, FileCounts
    <3> QED BY <1>0, <1>2, <2>1, <3>1, <3>2, <3>3
            DEF ArtifactFiles, MissingFiles
  <2> QED BY <2>2, <2>3
<1> QED
  BY <1>1, <1>3, <1>4
     DEF AuthorityNext, AuthorityStep, authorityVars, PublishEvent,
         PruneOutbox, TroubleComesOrGoes, BeginAuthorityRun, TakeEvent,
         WriteAuthorityCursor, AuthorityCrash, EndRun

(* All of it together.                                                      *)
LEMMA AuthorityNextInv ==
    AuthorityInv /\ (AuthorityNext \/ UNCHANGED authorityVars)
        => AuthorityInv'
BY AuthorityTypeNext, AuthorityFilesNext, AuthorityBudgetNext
   DEF AuthorityInv
=============================================================================
