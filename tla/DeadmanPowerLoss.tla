-------------------------- MODULE DeadmanPowerLoss --------------------------
(***************************************************************************)
(* The dead-man outbox on a machine that may lose power: of the directory  *)
(* entries that changed since the last fsync of their directory, any may   *)
(* be lost and any may have reached the disk.  What the code relies on is  *)
(* the order of its fsyncs: event, then cursor; event unlinked, then its   *)
(* acknowledgement.                                                        *)
(***************************************************************************)
EXTENDS DeadmanOutbox

(* The contents a directory can have after the loss: what is both visible
   and durable is there, what is neither is not.                            *)
Survivors(visible, secured) ==
    {(visible \intersect secured) \union s :
        s \in SUBSET ((visible \union secured) \ (visible \intersect secured))}

PowerLoss ==
    /\ faults < MaxFaults
    /\ faults' = faults + 1
    /\ events' \in Survivors(events, eventsD)
    /\ eventsD' = events'
    /\ acks' \in Survivors(acks, acksD)
    /\ acksD' = acks'
    /\ cursor' \in {cursor, cursorD}
    /\ cursorD' = cursor'
    /\ tmp' \in SUBSET (tmp \union {d \in {"outbox"} : pc = "eventTmp"}
                            \union {d \in {"ack"} : pc = "ackTmp"})
    /\ Release
    /\ UNCHANGED <<env, log>>

PowerNext == Next \/ PowerLoss

PowerSpec == Init /\ [][PowerNext]_vars

(* After any loss of power the disk passes the validation of the next check:
   the cursor that survives is at most one behind the events that survive,
   and the extra event is one it can take over.  It rests on the fsync that
   ends every write.                                                        *)
AcceptableAfterPowerLoss == AcceptableToNextCheck

(* Events the cursor has passed go missing by retention only, which deletes
   one at a time and no more than the next event needs: all of them are on
   disk, or at least one less than the budget.                              *)
NoCommittedEventLost ==
    LET passed == cursor.next - 1
    IN  \/ Cardinality({e \in events : e.seq <= passed}) >= MaxEventFiles - 1
        \/ \A n \in 1..passed : \E e \in events : e.seq = n

(* A retained event that an acknowledgement names is the acknowledged one:
   no acknowledgement outlives its event and meets another of the same ID.  *)
AcksMatchEvents ==
    \A e \in events, a \in acks : EventId(e) = EventId(a) => a = e
=============================================================================
