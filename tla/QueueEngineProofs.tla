--------------------------- MODULE QueueEngineProofs ---------------------------
(***************************************************************************)
(* Proofs about QueueEngine for every value of its constants: mutual       *)
(* exclusion, kept rows, locks, slots and caps, attempts, and at the end   *)
(* that the engine implements WorkQueue.                                   *)
(***************************************************************************)
EXTENDS QueueEngine, FiniteSetTheorems, TLAPS

(* Every lane has a concurrency, so the number of free slots is a number.  *)
LEMMA CapIsNat == \A l \in Lanes : Cap(l) \in Nat
  BY LanesAssumption DEF Cap

(* A row update keeps the types of the columns it writes.                  *)
LEMMA SetRowTypes ==
  ASSUME TypeOK, NEW i \in Items, NEW s \in Statuses, SetRow(i, s)
  PROVE  /\ status' \in [Items -> Statuses]
         /\ lease' \in [Items -> {"none", "live", "lapsed"}]
  BY DEF TypeOK, SetRow, Statuses

(* Releasing a slot once or twice leaves a count, thanks to the clamp.     *)
LEMMA ReleaseTypes ==
  ASSUME TypeOK, NEW i \in Items, NEW n \in {1, 2}, Release(i, n)
  PROVE  laneInFlight' \in [Lanes -> Nat] /\ sessionLocks' \subseteq Sessions
<1>1. LaneOf[i] \in Lanes
  BY ItemsAssumption
<1>2. \A k \in Nat : (IF k < n THEN 0 ELSE k - n) \in Nat
  OBVIOUS
<1>3. QED
  BY <1>1, <1>2 DEF TypeOK, Release

(* Taking a slot leaves a count and locks a session that exists.           *)
LEMMA OccupyTypes ==
  ASSUME TypeOK, NEW i \in Items, Occupy(i)
  PROVE  laneInFlight' \in [Lanes -> Nat] /\ sessionLocks' \subseteq Sessions
  BY ItemsAssumption DEF TypeOK, Occupy

(* Every step of the system keeps the types, one case per action.         *)
LEMMA TypeStep == TypeOK /\ [Next]_vars => TypeOK'
<1> SUFFICES ASSUME TypeOK, [Next]_vars PROVE TypeOK'
  OBVIOUS
<1> USE DEF TypeOK, rows, slots, tick
<1>1. ASSUME TickStarts, UNCHANGED boots \/ boots' = boots + 1,
             engine' \in {"down", "running", "stopped"}
      PROVE  TypeOK'
  BY <1>1, LanesAssumption DEF TickStarts, Expired, Statuses
<1>2. CASE TickBegin
  BY <1>1, <1>2 DEF TickBegin
<1>3. CASE TickReserve
  BY <1>3 DEF TickReserve, Statuses
<1>4. CASE Boot
  BY <1>1, <1>4 DEF Boot
<1>5. CASE Stop
  BY <1>5 DEF Stop
<1>6. CASE Exit
  BY <1>6 DEF Exit
<1>7. ASSUME NEW i \in Items, BecomesDue(i) PROVE TypeOK'
  BY <1>7 DEF BecomesDue
<1>8. ASSUME NEW i \in Items, LeaseLapses(i) PROVE TypeOK'
  BY <1>8 DEF LeaseLapses
<1>9. ASSUME NEW i \in Items, BounceItem(i) PROVE TypeOK'
  BY <1>9, SetRowTypes DEF BounceItem, Statuses
<1>10. ASSUME NEW i \in Items, SkipHandledItem(i) PROVE TypeOK'
  BY <1>10, SetRowTypes, ItemsAssumption DEF SkipHandledItem, Statuses
<1>11. ASSUME NEW i \in Items, StartItem(i) PROVE TypeOK'
  <2>1. laneInFlight' \in [Lanes -> Nat] /\ sessionLocks' \subseteq Sessions
    BY <1>11, OccupyTypes DEF StartItem
  <2>2. exec' \in [Items -> Nat]
    BY <1>11 DEF StartItem
  <2>3. reserved' \subseteq Sessions /\ batch' \subseteq Items
    BY <1>11, ItemsAssumption DEF StartItem
  <2>4. job' \in [Items -> {"none", "scheduled", "dispatched", "cancelled"}]
    BY <1>11 DEF StartItem, DispatchRecovery
  <2>5. QED
    BY <1>11, <2>1, <2>2, <2>3, <2>4 DEF StartItem
<1>12. ASSUME NEW i \in Items, Heartbeat(i) PROVE TypeOK'
  BY <1>12 DEF Heartbeat
<1>13. ASSUME NEW i \in Items, HandlerReturns(i) PROVE TypeOK'
  <2>1. exec' \in [Items -> Nat]
    BY <1>13 DEF HandlerReturns
  <2>2. QED
    BY <1>13, <2>1, SetRowTypes, ReleaseTypes DEF HandlerReturns, FinishDone, Statuses
<1>14. ASSUME NEW i \in Items, HandlerThrows(i) PROVE TypeOK'
  <2>1. exec' \in [Items -> Nat]
    BY <1>14 DEF HandlerThrows
  <2>2. CASE FinishDone(i)
    BY <1>14, <2>1, <2>2, SetRowTypes, ReleaseTypes DEF HandlerThrows, FinishDone, Statuses
  <2>3. CASE RetryOrBury(i)
    <3>1. laneInFlight' \in [Lanes -> Nat] /\ sessionLocks' \subseteq Sessions
      BY <2>3, ReleaseTypes DEF RetryOrBury
    <3>2. /\ status' \in [Items -> Statuses]
          /\ lease' \in [Items -> {"none", "live", "lapsed"}]
      BY <2>3, SetRowTypes DEF RetryOrBury, Statuses
    <3>3. attempt' \in [Items -> Nat]
      <4>1. UNCHANGED attempt \/ attempt' = [attempt EXCEPT ![i] = @ + 1]
        BY <2>3 DEF RetryOrBury
      <4>2. QED
        BY <4>1
    <3>4. due' \in [Items -> BOOLEAN]
      <4>1. \/ UNCHANGED due
            \/ due' = [due EXCEPT ![i] = FALSE]
        BY <2>3 DEF RetryOrBury
      <4>2. QED
        BY <4>1
    <3>5. UNCHANGED <<sessions, stamp, clock, job, handled, engine, boots, tick>>
      BY <1>14 DEF HandlerThrows
    <3>6. QED
      BY <2>1, <3>1, <3>2, <3>3, <3>4, <3>5
  <2>4. CASE RetryOfMissingRow(i)
    BY <1>14, <2>1, <2>4, ReleaseTypes DEF HandlerThrows, RetryOfMissingRow
  <2>5. QED
    BY <1>14, <2>2, <2>3, <2>4 DEF HandlerThrows
<1>15. ASSUME NEW i \in Items, Enqueue(i) PROVE TypeOK'
  BY <1>15 DEF Enqueue, Statuses
<1>16. ASSUME NEW i \in Items, WriteRunStatus(i) PROVE TypeOK'
  BY <1>16 DEF WriteRunStatus
<1>17. ASSUME NEW i \in Items, CancelRecovery(i) PROVE TypeOK'
  BY <1>17 DEF CancelRecovery, Statuses
<1>18. ASSUME NEW i \in Items, PurgeDeadLetter(i) PROVE TypeOK'
  BY <1>18 DEF PurgeDeadLetter, Statuses
<1>19. ASSUME NEW s \in Sessions, DeleteSession(s) PROVE TypeOK'
  BY <1>19 DEF DeleteSession, Statuses
<1>20. CASE UNCHANGED vars
  BY <1>20 DEF vars
<1>21. QED
  BY <1>2, <1>3, <1>4, <1>5, <1>6, <1>7, <1>8, <1>9, <1>10, <1>11, <1>12, <1>13,
     <1>14, <1>15, <1>16, <1>17, <1>18, <1>19, <1>20 DEF Next

(* The state keeps its types, whatever the handlers, the API and the clock *)
(* do to the table.                                                        *)
THEOREM TypeCorrect == Spec => []TypeOK
<1>1. Init => TypeOK
  BY DEF Init, TypeOK, Statuses
<1>2. QED
  BY <1>1, TypeStep, PTL DEF Spec

-----------------------------------------------------------------------------
(* The inductive invariant behind mutual exclusion: an executing item's    *)
(* session is locked, a lane visit respects every lock held when it took   *)
(* its batch, and rows follow executions.                                  *)

LockedWhileExecuting == \A i \in Items : exec[i] > 0 => SessionOf[i] \in sessionLocks
ReservedCoversLocks == batch # {} => sessionLocks \subseteq reserved
BatchIsProcessing == \A i \in batch : status[i] = "processing"
ScheduledIsUnstarted == \A i \in Items : job[i] = "scheduled" => exec[i] = 0
GoneSessionHasNoRows ==
  \A i \in Items : SessionOf[i] \notin sessions => status[i] \in {"absent", "deleted"}
ExecutingRows == \A i \in Items : exec[i] > 0 => status[i] \in {"queued", "processing", "deleted"}

DownIsIdle == engine = "down" => Idle

IInv ==
  /\ TypeOK
  /\ DownIsIdle
  /\ LockedWhileExecuting
  /\ ReservedCoversLocks
  /\ SessionSerialized
  /\ BatchIsProcessing
  /\ ScheduledIsUnstarted
  /\ GoneSessionHasNoRows
  /\ ExecutingRowIsKept
  /\ ExecutingRows

(* The empty table of the first boot satisfies the invariant.              *)
LEMMA InitIInv == Init => IInv
<1>1. Init => TypeOK
  BY DEF Init, TypeOK, Statuses
<1>2. QED
  BY <1>1 DEF Init, IInv, LockedWhileExecuting, ReservedCoversLocks,
     SessionSerialized, BatchIsProcessing, ScheduledIsUnstarted,
     GoneSessionHasNoRows, ExecutingRowIsKept, ExecutingRows, DownIsIdle, Idle

(* The executions of an item are counted by a natural number.              *)
LEMMA NotExecuting == TypeOK => \A i \in Items : ~(exec[i] > 0) => exec[i] = 0
  BY DEF TypeOK

(* A step that touches nothing the invariant speaks of.                    *)
LEMMA UntouchedStep ==
  ASSUME IInv, TypeOK', DownIsIdle',
         UNCHANGED <<exec, sessionLocks, sessions, job, status, batch, reserved>>
  PROVE  IInv'
  BY DEF IInv, LockedWhileExecuting, ReservedCoversLocks, SessionSerialized,
     BatchIsProcessing, ScheduledIsUnstarted, GoneSessionHasNoRows, ExecutingRowIsKept,
     ExecutingRows

(* What a tick or a boot does to the rows before it starts an execution:   *)
(* it reserves some, and requeues some it does not hold.                   *)
StillRows ==
  /\ \A i \in Items :
       \/ status'[i] = status[i]
       \/ exec[i] = 0 /\ status[i] = "queued" /\ i \in batch' /\ status'[i] = "processing"
       \/ status[i] = "processing" /\ i \notin batch' /\ status'[i] = "queued"
  /\ \A i \in batch' : i \in batch \/ status'[i] = "processing"

(* A step of a tick or of a boot that starts no execution.                 *)
LEMMA StillStep ==
  ASSUME IInv, TypeOK', DownIsIdle', StillRows,
         UNCHANGED <<exec, sessionLocks, sessions, job>>,
         batch' # {} => sessionLocks \subseteq reserved'
  PROVE  IInv'
<1> USE DEF IInv, StillRows
<1>1. LockedWhileExecuting' /\ SessionSerialized' /\ ReservedCoversLocks'
  BY DEF LockedWhileExecuting, SessionSerialized, ReservedCoversLocks
<1>2. BatchIsProcessing' /\ ScheduledIsUnstarted'
  BY DEF BatchIsProcessing, ScheduledIsUnstarted, TypeOK
<1>3. GoneSessionHasNoRows'
  BY DEF GoneSessionHasNoRows
<1>4. ExecutingRowIsKept' /\ ExecutingRows'
  BY DEF ExecutingRowIsKept, ExecutingRows
<1>5. QED
  BY <1>1, <1>2, <1>3, <1>4

(* The end of an execution of i: its lock goes, nobody else's was needed.  *)
LEMMA EndStep ==
  ASSUME IInv, TypeOK', DownIsIdle', NEW i \in Items, Idle, exec[i] > 0, UNCHANGED <<sessions, job, tick>>,
         exec' = [exec EXCEPT ![i] = @ - 1],
         sessionLocks' = sessionLocks \ {SessionOf[i]},
         \A j \in Items \ {i} : status'[j] = status[j],
         status'[i] # status[i] => Exists(i)
  PROVE  IInv'
<1>1. exec[i] = 1 /\ exec'[i] = 0 /\ \A j \in Items \ {i} : exec'[j] = exec[j]
  BY DEF IInv, SessionSerialized, TypeOK
<1>2. \A j \in Items \ {i} : SessionOf[j] = SessionOf[i] => exec[j] = 0
  BY <1>1 DEF IInv, SessionSerialized, TypeOK
<1>3. LockedWhileExecuting'
  BY <1>1, <1>2 DEF IInv, LockedWhileExecuting
<1>4. SessionSerialized'
  BY <1>1 DEF IInv, SessionSerialized, TypeOK
<1>5. ReservedCoversLocks' /\ BatchIsProcessing'
  BY DEF ReservedCoversLocks, BatchIsProcessing, Idle, tick
<1>6. ScheduledIsUnstarted'
  BY <1>1 DEF IInv, ScheduledIsUnstarted
<1>7. GoneSessionHasNoRows'
  <2> SUFFICES ASSUME NEW j \in Items, SessionOf[j] \notin sessions
               PROVE  status'[j] \in {"absent", "deleted"}
    BY DEF GoneSessionHasNoRows
  <2>1. status[j] \in {"absent", "deleted"}
    BY DEF IInv, GoneSessionHasNoRows
  <2>2. QED
    BY <2>1 DEF Exists
<1>8. ExecutingRowIsKept' /\ ExecutingRows'
  BY <1>1 DEF IInv, ExecutingRowIsKept, ExecutingRows
<1>9. QED
  BY <1>3, <1>4, <1>5, <1>6, <1>7, <1>8 DEF IInv

(* A step between two callbacks that changes rows of items that do not     *)
(* execute, or deletes a session with all its rows.                        *)
LEMMA TableStep ==
  ASSUME IInv, TypeOK', DownIsIdle', Idle, UNCHANGED <<exec, sessionLocks, tick>>, sessions' \subseteq sessions,
         \A i \in Items : job'[i] = "scheduled" => job[i] = "scheduled" \/ exec[i] = 0,
         \A i \in Items : status'[i] # status[i] =>
            (exec[i] = 0 /\ SessionOf[i] \in sessions') \/ status'[i] = "deleted",
         \A i \in Items : exec[i] > 0 /\ SessionOf[i] \in sessions' => status'[i] = status[i],
         \A i \in Items : SessionOf[i] \in sessions \ sessions' => status'[i] \in {"absent", "deleted"}
  PROVE  IInv'
<1>1. LockedWhileExecuting' /\ SessionSerialized'
  BY DEF IInv, LockedWhileExecuting, SessionSerialized
<1>2. ReservedCoversLocks' /\ BatchIsProcessing'
  BY DEF ReservedCoversLocks, BatchIsProcessing, Idle, tick
<1>3. ScheduledIsUnstarted'
  BY DEF IInv, ScheduledIsUnstarted, TypeOK
<1>4. GoneSessionHasNoRows'
  BY DEF IInv, GoneSessionHasNoRows
<1>5. ExecutingRowIsKept' /\ ExecutingRows'
  BY DEF IInv, ExecutingRowIsKept, ExecutingRows, TypeOK
<1>6. QED
  BY <1>1, <1>2, <1>3, <1>4, <1>5 DEF IInv

(* Every step of the system keeps the invariant, one case per action.     *)
LEMMA NextIInv == IInv /\ [Next]_vars => IInv'
<1> SUFFICES ASSUME IInv, [Next]_vars PROVE IInv'
  OBVIOUS
<1> USE DEF rows, slots, tick
<1>0. TypeOK /\ TypeOK' /\ DownIsIdle'
  <2>1. TypeOK /\ TypeOK' /\ DownIsIdle
    BY TypeStep DEF IInv
  <2>2. DownIsIdle'
    BY <2>1 DEF DownIsIdle, Idle, Next, vars, TickBegin, TickStarts, Expired, TickReserve, Boot, Stop, Exit,
       BecomesDue, LeaseLapses, BounceItem, SkipHandledItem, StartItem, IsNext, Heartbeat,
       HandlerReturns, HandlerThrows, Enqueue, WriteRunStatus, CancelRecovery,
       PurgeDeadLetter, DeleteSession
  <2>3. QED
    BY <2>1, <2>2
<1>1. ASSUME TickStarts, Idle PROVE IInv'
  <2>1. \A i \in Items : \/ status'[i] = status[i]
                         \/ status[i] = "processing" /\ status'[i] = "queued"
    BY <1>1 DEF TickStarts, Expired
  <2>2. batch' = {} /\ UNCHANGED <<exec, sessionLocks, sessions, job>>
    BY <1>1 DEF TickStarts, Expired, Idle
  <2>3. StillRows
    BY <2>1, <2>2 DEF StillRows
  <2>4. UNCHANGED <<exec, sessionLocks, sessions, job>>
    BY <2>2
  <2>5. batch' # {} => sessionLocks \subseteq reserved'
    BY <2>2
  <2>6. QED
    BY <1>0, <2>3, <2>4, <2>5, StillStep
<1>2. CASE TickBegin
  BY <1>1, <1>2 DEF TickBegin
<1>3. CASE TickReserve
  <2>1. PICK R \in SUBSET Items :
          /\ IsReservation(R, Head(lanesLeft), AvailableSlots(Head(lanesLeft)))
          /\ batch' = R
          /\ status' = [i \in Items |-> IF i \in R THEN "processing" ELSE status[i]]
    BY <1>3 DEF TickReserve
  <2>2. \A i \in R : status[i] = "queued" /\ exec[i] = 0
    <3>1. \A i \in R : status[i] = "queued" /\ SessionOf[i] \notin sessionLocks
      BY <2>1 DEF IsReservation, Eligible
    <3>2. LockedWhileExecuting
      BY DEF IInv
    <3>3. QED
      BY <3>1, <3>2, <1>0, NotExecuting DEF LockedWhileExecuting
  <2>3. UNCHANGED <<exec, sessionLocks, sessions, job>> /\ reserved' = sessionLocks
    BY <1>3 DEF TickReserve
  <2>4. UNCHANGED <<exec, sessionLocks, sessions, job>>
    BY <2>3
  <2>5. \A i \in Items : status'[i] = IF i \in R THEN "processing" ELSE status[i]
    BY <2>1
  <2>6. StillRows
    BY <2>1, <2>2, <2>5 DEF StillRows
  <2>7. batch' # {} => sessionLocks \subseteq reserved'
    BY <2>3
  <2>8. QED
    BY <1>0, <2>4, <2>6, <2>7, StillStep
<1>4. ASSUME NEW i \in Items, BecomesDue(i) PROVE IInv'
  <2>1. UNCHANGED <<exec, sessionLocks, sessions, job, status, batch, reserved>>
    BY <1>4 DEF BecomesDue
  <2>2. QED
    BY <1>0, <2>1, UntouchedStep
<1>5. ASSUME NEW i \in Items, LeaseLapses(i) PROVE IInv'
  <2>1. UNCHANGED <<exec, sessionLocks, sessions, job, status, batch, reserved>>
    BY <1>5 DEF LeaseLapses
  <2>2. QED
    BY <1>0, <2>1, UntouchedStep
<1>6. ASSUME NEW i \in Items, BounceItem(i) PROVE IInv'
  <2>1. /\ UNCHANGED <<exec, sessionLocks, sessions, job, reserved>>
        /\ batch' = batch \ {i} /\ i \in batch
    BY <1>6 DEF BounceItem, IsNext
  <2>2. status[i] = "processing" /\ status' = [status EXCEPT ![i] = "queued"]
    BY <1>6, <2>1 DEF IInv, BatchIsProcessing, BounceItem, SetRow, Exists
  <2>3. status \in [Items -> Statuses]
    BY <1>0 DEF TypeOK
  <2>4. \A j \in Items : status'[j] = IF j = i THEN "queued" ELSE status[j]
    BY <2>2, <2>3
  <2>5. StillRows
    BY <2>1, <2>2, <2>4 DEF StillRows
  <2>6. UNCHANGED <<exec, sessionLocks, sessions, job>>
    BY <2>1
  <2>7. batch' # {} => sessionLocks \subseteq reserved'
    BY <2>1 DEF IInv, ReservedCoversLocks
  <2>8. QED
    BY <1>0, <2>5, <2>6, <2>7, StillStep
<1>7. ASSUME NEW i \in Items, SkipHandledItem(i) PROVE IInv'
  <2>1. /\ UNCHANGED <<exec, sessionLocks, sessions, job>>
        /\ batch' = batch \ {i} /\ i \in batch
        /\ reserved' = reserved \union {SessionOf[i]}
    BY <1>7 DEF SkipHandledItem, IsNext
  <2>2. status[i] = "processing" /\ status' = [status EXCEPT ![i] = "done"]
    BY <1>7, <2>1 DEF IInv, BatchIsProcessing, SkipHandledItem, SetRow, Exists
  <2>3. exec[i] = 0
    <3>1. SessionOf[i] \notin sessionLocks
      BY <1>7, <2>1 DEF SkipHandledItem, IInv, ReservedCoversLocks
    <3>2. QED
      BY <3>1, <1>0, NotExecuting DEF IInv, LockedWhileExecuting
  <2>4. SessionOf[i] \in sessions
    BY <1>7 DEF SkipHandledItem, ShouldTreatAsHandled
  <2>5. \A j \in Items : status'[j] = IF j = i THEN "done" ELSE status[j]
    BY <2>2, <1>0 DEF TypeOK
  <2>6. LockedWhileExecuting' /\ ReservedCoversLocks' /\ SessionSerialized' /\ ScheduledIsUnstarted'
    BY <2>1 DEF IInv, LockedWhileExecuting, ReservedCoversLocks, SessionSerialized, ScheduledIsUnstarted
  <2>7. BatchIsProcessing'
    BY <1>0, <2>1, <2>5 DEF IInv, BatchIsProcessing, TypeOK
  <2>8. GoneSessionHasNoRows'
    BY <2>1, <2>4, <2>5 DEF IInv, GoneSessionHasNoRows
  <2>9. ExecutingRowIsKept' /\ ExecutingRows'
    BY <2>1, <2>3, <2>5 DEF IInv, ExecutingRowIsKept, ExecutingRows
  <2>10. QED
    BY <1>0, <2>6, <2>7, <2>8, <2>9 DEF IInv
<1>8. ASSUME NEW i \in Items, StartItem(i) PROVE IInv'
  <2>1. /\ UNCHANGED <<sessions, status>>
        /\ batch' = batch \ {i} /\ i \in batch
        /\ reserved' = reserved \union {SessionOf[i]} /\ SessionOf[i] \notin reserved
        /\ sessionLocks' = sessionLocks \union {SessionOf[i]}
    BY <1>8 DEF StartItem, IsNext, Occupy
  <2>2. \A j \in Items : SessionOf[j] = SessionOf[i] => exec[j] = 0
    BY <1>0, <2>1 DEF IInv, LockedWhileExecuting, ReservedCoversLocks, TypeOK
  <2>3. \A j \in Items : exec'[j] = IF j = i THEN 1 ELSE exec[j]
    BY <1>8, <1>0, <2>2 DEF StartItem, TypeOK
  <2>4. \A j \in Items : job'[j] = "scheduled" => job[j] = "scheduled" /\ j # i
    BY <1>8, <1>0 DEF StartItem, DispatchRecovery, TypeOK
  <2>5. status[i] = "processing"
    BY <2>1 DEF IInv, BatchIsProcessing
  <2>6. LockedWhileExecuting' /\ ReservedCoversLocks' /\ SessionSerialized'
    BY <2>1, <2>2, <2>3 DEF IInv, LockedWhileExecuting, ReservedCoversLocks, SessionSerialized
  <2>7. BatchIsProcessing' /\ GoneSessionHasNoRows' /\ ScheduledIsUnstarted'
    BY <2>1, <2>3, <2>4 DEF IInv, BatchIsProcessing, GoneSessionHasNoRows, ScheduledIsUnstarted
  <2>8. ExecutingRowIsKept' /\ ExecutingRows'
    BY <2>1, <2>3, <2>5 DEF IInv, ExecutingRowIsKept, ExecutingRows
  <2>9. QED
    BY <1>0, <2>6, <2>7, <2>8 DEF IInv
<1>9. ASSUME NEW i \in Items, Heartbeat(i) PROVE IInv'
  <2>1. UNCHANGED <<exec, sessionLocks, sessions, job, status, batch, reserved>>
    BY <1>9 DEF Heartbeat
  <2>2. QED
    BY <1>0, <2>1, UntouchedStep
<1>10. ASSUME NEW i \in Items, NEW s \in Statuses, SetRow(i, s)
       PROVE  /\ \A j \in Items \ {i} : status'[j] = status[j]
              /\ status'[i] # status[i] => Exists(i)
  BY <1>10, <1>0 DEF SetRow, TypeOK
<1>11. ASSUME NEW i \in Items, HandlerReturns(i) PROVE IInv'
  <2>1. /\ \A j \in Items \ {i} : status'[j] = status[j]
        /\ status'[i] # status[i] => Exists(i)
    BY <1>11, <1>10 DEF HandlerReturns, FinishDone, Statuses
  <2>2. QED
    BY <1>0, <1>11, <2>1, EndStep DEF HandlerReturns, FinishDone, Release
<1>12. ASSUME NEW i \in Items, HandlerThrows(i) PROVE IInv'
  <2>1. /\ \A j \in Items \ {i} : status'[j] = status[j]
        /\ status'[i] # status[i] => Exists(i)
    BY <1>12, <1>10 DEF HandlerThrows, FinishDone, RetryOrBury, RetryOfMissingRow, Statuses
  <2>2. sessionLocks' = sessionLocks \ {SessionOf[i]}
    BY <1>12 DEF HandlerThrows, FinishDone, RetryOrBury, RetryOfMissingRow, Release
  <2>3. QED
    BY <1>0, <1>12, <2>1, <2>2, EndStep DEF HandlerThrows
<1>13. ASSUME NEW i \in Items, Enqueue(i) PROVE IInv'
  <2>1. /\ Idle /\ UNCHANGED <<exec, sessionLocks, sessions, tick>>
        /\ status[i] = "absent" /\ SessionOf[i] \in sessions
    BY <1>13 DEF Enqueue
  <2>2. exec[i] = 0
    BY <1>0, <2>1, NotExecuting DEF IInv, ExecutingRows
  <2>3. \A j \in Items : j # i => status'[j] = status[j] /\ job'[j] = job[j]
    BY <1>13, <1>0 DEF Enqueue, TypeOK
  <2>4. QED
    BY <1>0, <2>1, <2>2, <2>3, TableStep
<1>14. ASSUME NEW i \in Items, WriteRunStatus(i) PROVE IInv'
  <2>1. UNCHANGED <<exec, sessionLocks, sessions, job, status, batch, reserved>>
    BY <1>14 DEF WriteRunStatus
  <2>2. QED
    BY <1>0, <2>1, UntouchedStep
<1>15. ASSUME NEW i \in Items, CancelRecovery(i) PROVE IInv'
  <2>1. Idle /\ UNCHANGED <<exec, sessionLocks, sessions, tick>> /\ job[i] = "scheduled"
    BY <1>15 DEF CancelRecovery
  <2>2. exec[i] = 0
    BY <2>1 DEF IInv, ScheduledIsUnstarted
  <2>3. \A j \in Items : j # i => status'[j] = status[j] /\ job'[j] = job[j]
    BY <1>15, <1>0 DEF CancelRecovery, TypeOK
  <2>4. status'[i] # status[i] => status'[i] = "deleted"
    BY <1>15, <1>0 DEF CancelRecovery, TypeOK
  <2>5. QED
    BY <1>0, <2>1, <2>2, <2>3, <2>4, TableStep
<1>16. ASSUME NEW i \in Items, PurgeDeadLetter(i) PROVE IInv'
  <2>1. /\ Idle /\ UNCHANGED <<exec, sessionLocks, sessions, job, tick>>
        /\ status[i] = "dead_letter"
    BY <1>16 DEF PurgeDeadLetter
  <2>2. exec[i] = 0
    BY <1>0, <2>1, NotExecuting DEF IInv, ExecutingRows
  <2>3. \A j \in Items : status'[j] = IF j = i THEN "deleted" ELSE status[j]
    BY <1>16, <1>0 DEF PurgeDeadLetter, TypeOK
  <2>4. QED
    BY <1>0, <2>1, <2>2, <2>3, TableStep
<1>17. ASSUME NEW s \in Sessions, DeleteSession(s) PROVE IInv'
  <2>1. Idle /\ UNCHANGED <<exec, sessionLocks, tick>> /\ sessions' = sessions \ {s}
    BY <1>17 DEF DeleteSession
  <2>2. \A i \in Items : status'[i] = IF SessionOf[i] = s /\ Exists(i) THEN "deleted" ELSE status[i]
    BY <1>17 DEF DeleteSession
  <2>3. \A i \in Items : job'[i] = "scheduled" => job[i] = "scheduled"
    BY <1>17 DEF DeleteSession
  <2>4. QED
    BY <1>0, <2>1, <2>2, <2>3, TableStep DEF Exists
<1>18. CASE Boot
  BY <1>1, <1>18 DEF Boot, IInv, DownIsIdle
<1>19. CASE Stop
  <2>1. UNCHANGED <<exec, sessionLocks, sessions, job, status, batch, reserved>>
    BY <1>19 DEF Stop
  <2>2. QED
    BY <1>0, <2>1, UntouchedStep
<1>20. CASE Exit
  <2>1. /\ \A i \in Items : exec'[i] = 0
        /\ batch' = {} /\ sessionLocks' = {}
        /\ UNCHANGED <<sessions, status, job>>
    BY <1>20 DEF Exit
  <2>2. QED
    BY <1>0, <2>1 DEF IInv, LockedWhileExecuting, ReservedCoversLocks, SessionSerialized,
       BatchIsProcessing, ScheduledIsUnstarted, GoneSessionHasNoRows, ExecutingRowIsKept, ExecutingRows
<1>21. CASE UNCHANGED vars
  <2>1. UNCHANGED <<exec, sessionLocks, sessions, job, status, batch, reserved>>
    BY <1>21 DEF vars
  <2>2. QED
    BY <1>0, <2>1, UntouchedStep
<1>22. QED
  BY <1>2, <1>3, <1>4, <1>5, <1>6, <1>7, <1>8, <1>9, <1>11, <1>12, <1>13, <1>14, <1>15,
     <1>16, <1>17, <1>18, <1>19, <1>20, <1>21 DEF Next

(* The inductive invariant holds in every reachable state.                 *)
LEMMA Invariance == Spec => []IInv
  BY InitIInv, NextIInv, PTL DEF Spec

-----------------------------------------------------------------------------
(* Whatever lanes, priorities and sessions there are and however often the *)
(* process crashes, the engine never runs two handlers of one session at a *)
(* time, nor one item twice.                                               *)
THEOREM Serialized == Spec => []SessionSerialized
<1>1. IInv => SessionSerialized
  BY DEF IInv
<1>2. QED
  BY <1>1, Invariance, PTL

(* The row of a handler in flight is still queued or processing: nothing   *)
(* but the deletion of its session settles or removes it meanwhile.        *)
THEOREM RowKept == Spec => []ExecutingRowIsKept
<1>1. IInv => ExecutingRowIsKept
  BY DEF IInv
<1>2. QED
  BY <1>1, Invariance, PTL

(* A done or dead-lettered item stays settled until its row is deleted.    *)
THEOREM SettledStays == Spec => SettledIsFinal
<1> DEFINE Final == \A i \in Items : status[i] \in Settled => status'[i] \in {status[i], "deleted"}
<1>1. IInv /\ Next => Final
  <2> SUFFICES ASSUME IInv, Next PROVE Final
    OBVIOUS
  <2> USE DEF rows, Settled
  <2>0. status \in [Items -> Statuses] /\ ExecutingRows /\ BatchIsProcessing
    BY DEF IInv, TypeOK
  <2>1. ASSUME NEW i \in Items, NEW x \in Statuses, SetRow(i, x), status[i] \notin Settled
        PROVE  Final
    BY <2>0, <2>1 DEF SetRow
  <2>2. CASE TickBegin \/ Boot
    BY <2>2 DEF TickBegin, Boot, TickStarts, Expired
  <2>3. CASE TickReserve
    BY <2>3 DEF TickReserve, IsReservation, Eligible
  <2>4. ASSUME NEW i \in Items, BounceItem(i) \/ SkipHandledItem(i) PROVE Final
    <3>1. status[i] \notin Settled
      BY <2>0, <2>4 DEF BounceItem, SkipHandledItem, IsNext, BatchIsProcessing
    <3>2. SetRow(i, "queued") \/ SetRow(i, "done")
      BY <2>4 DEF BounceItem, SkipHandledItem
    <3>3. QED
      BY <2>1, <3>1, <3>2 DEF Statuses
  <2>5. ASSUME NEW i \in Items, HandlerReturns(i) \/ HandlerThrows(i) PROVE Final
    <3>1. status[i] \notin Settled
      BY <2>0, <2>5 DEF HandlerReturns, HandlerThrows, ExecutingRows
    <3>2. \/ SetRow(i, "queued") \/ SetRow(i, "done") \/ SetRow(i, "dead_letter")
          \/ UNCHANGED status
      BY <2>5 DEF HandlerReturns, HandlerThrows, FinishDone, RetryOrBury, RetryOfMissingRow
    <3>3. QED
      BY <2>1, <3>1, <3>2 DEF Statuses
  <2>6. ASSUME NEW i \in Items, Enqueue(i) \/ CancelRecovery(i) \/ PurgeDeadLetter(i) PROVE Final
    BY <2>0, <2>6 DEF Enqueue, CancelRecovery, PurgeDeadLetter
  <2>7. ASSUME NEW s \in Sessions, DeleteSession(s) PROVE Final
    BY <2>7 DEF DeleteSession
  <2>8. CASE UNCHANGED status
    BY <2>8
  <2>9. ASSUME NEW i \in Items, BecomesDue(i) \/ LeaseLapses(i) \/ StartItem(i) \/ Heartbeat(i) \/ WriteRunStatus(i)
        PROVE  UNCHANGED status
    BY <2>9 DEF BecomesDue, LeaseLapses, StartItem, Heartbeat, WriteRunStatus
  <2>10. CASE Stop \/ Exit
    BY <2>10 DEF Stop, Exit
  <2>11. QED
    BY <2>2, <2>3, <2>4, <2>5, <2>6, <2>7, <2>8, <2>9, <2>10 DEF Next
<1>2. IInv /\ [Next]_vars => [Final]_vars
  BY <1>1
<1>3. QED
  BY <1>2, Invariance, PTL DEF Spec, SettledIsFinal

-----------------------------------------------------------------------------
(* Locks, and work that was started.  The converse of LockedWhileExecuting *)
(* holds at every point of a tick: nothing takes a lock but a start.  A    *)
(* job that may still be cancelled belongs to an item that was never tried *)
(* because its first execution dispatches it.                              *)

LockHasExecution == \A s \in sessionLocks : \E i \in Items : exec[i] > 0 /\ SessionOf[i] = s
CancellableIsUntried ==
  \A i \in Items : job[i] = "scheduled" \/ status[i] = "absent" => attempt[i] = 0

WorkInv == IInv /\ LockHasExecution /\ CancellableIsUntried

(* A step that starts or ends no execution, nor tries an item again.       *)
LEMMA UntriedStep ==
  ASSUME WorkInv, IInv', UNCHANGED <<exec, sessionLocks, attempt>>,
         \A i \in Items : job'[i] = "scheduled" => job[i] = "scheduled" \/ status[i] = "absent",
         \A i \in Items : status'[i] = "absent" => status[i] = "absent"
  PROVE  WorkInv'
<1>1. LockHasExecution'
  BY DEF WorkInv, LockHasExecution
<1>2. CancellableIsUntried'
  BY DEF WorkInv, CancellableIsUntried
<1>3. QED
  BY <1>1, <1>2 DEF WorkInv

(* The end of an execution releases the one lock it held, and only it may  *)
(* count another attempt.                                                  *)
LEMMA ReleasingStep ==
  ASSUME WorkInv, IInv', NEW i \in Items, exec[i] > 0, UNCHANGED job,
         exec' = [exec EXCEPT ![i] = @ - 1],
         sessionLocks' = sessionLocks \ {SessionOf[i]},
         \A j \in Items \ {i} : attempt'[j] = attempt[j],
         \A j \in Items : status'[j] = "absent" => status[j] = "absent"
  PROVE  WorkInv'
<1>1. exec \in [Items -> Nat] /\ ScheduledIsUnstarted /\ ExecutingRows
  BY DEF WorkInv, IInv, TypeOK
<1>2. LockHasExecution'
  BY <1>1 DEF WorkInv, LockHasExecution
<1>3. job[i] # "scheduled" /\ status[i] # "absent"
  BY <1>1 DEF ScheduledIsUnstarted, ExecutingRows
<1>4. CancellableIsUntried'
  BY <1>3 DEF WorkInv, CancellableIsUntried
<1>5. QED
  BY <1>2, <1>4 DEF WorkInv

(* Every step keeps both, one case per action.                             *)
LEMMA WorkStep == WorkInv /\ [Next]_vars => WorkInv'
<1> SUFFICES ASSUME WorkInv, [Next]_vars PROVE WorkInv'
  OBVIOUS
<1> USE DEF rows, slots, tick
<1>0. IInv /\ IInv' /\ TypeOK
  BY NextIInv DEF WorkInv, IInv
<1>1. ASSUME NEW i \in Items, NEW x \in Statuses \ {"absent"}, SetRow(i, x)
      PROVE  \A j \in Items : status'[j] = "absent" => status[j] = "absent"
  BY <1>0, <1>1 DEF SetRow, TypeOK
<1>2. CASE TickBegin \/ Boot
  BY <1>0, <1>2, UntriedStep DEF TickBegin, Boot, TickStarts
<1>3. CASE TickReserve
  BY <1>0, <1>3, UntriedStep DEF TickReserve
<1>4. ASSUME NEW i \in Items, BounceItem(i) \/ SkipHandledItem(i) PROVE WorkInv'
  <2>1. SetRow(i, "queued") \/ SetRow(i, "done")
    BY <1>4 DEF BounceItem, SkipHandledItem
  <2>2. UNCHANGED <<exec, sessionLocks, attempt, job>>
    BY <1>4 DEF BounceItem, SkipHandledItem
  <2>3. \A j \in Items : status'[j] = "absent" => status[j] = "absent"
    BY <1>1, <2>1 DEF Statuses
  <2>4. QED
    BY <1>0, <2>2, <2>3, UntriedStep
<1>5. ASSUME NEW i \in Items, StartItem(i) PROVE WorkInv'
  <2>1. /\ exec' = [exec EXCEPT ![i] = @ + 1]
        /\ sessionLocks' = sessionLocks \union {SessionOf[i]}
        /\ UNCHANGED <<status, attempt>>
    BY <1>5 DEF StartItem, Occupy
  <2>2. exec'[i] > 0 /\ \A j \in Items : exec[j] > 0 => exec'[j] > 0
    BY <1>0, <2>1 DEF TypeOK
  <2>3. LockHasExecution'
    BY <2>1, <2>2 DEF WorkInv, LockHasExecution
  <2>4. \A j \in Items : job'[j] = "scheduled" => job[j] = "scheduled"
    BY <1>0, <1>5 DEF StartItem, DispatchRecovery, TypeOK
  <2>5. QED
    BY <1>0, <2>1, <2>3, <2>4 DEF WorkInv, CancellableIsUntried
<1>6. ASSUME NEW i \in Items, HandlerReturns(i) PROVE WorkInv'
  <2>1. /\ sessionLocks' = sessionLocks \ {SessionOf[i]}
        /\ exec[i] > 0 /\ exec' = [exec EXCEPT ![i] = @ - 1]
        /\ UNCHANGED <<job, attempt>> /\ SetRow(i, "done")
    BY <1>6 DEF HandlerReturns, FinishDone, Release
  <2>2. \A j \in Items : status'[j] = "absent" => status[j] = "absent"
    BY <1>1, <2>1 DEF Statuses
  <2>3. QED
    BY <1>0, <2>1, <2>2, ReleasingStep
<1>7. ASSUME NEW i \in Items, HandlerThrows(i) PROVE WorkInv'
  <2>1. /\ sessionLocks' = sessionLocks \ {SessionOf[i]}
        /\ exec[i] > 0 /\ exec' = [exec EXCEPT ![i] = @ - 1]
        /\ UNCHANGED job
    BY <1>7 DEF HandlerThrows, FinishDone, RetryOrBury, RetryOfMissingRow, Release
  <2>2. \A j \in Items \ {i} : attempt'[j] = attempt[j]
    BY <1>0, <1>7 DEF HandlerThrows, FinishDone, RetryOrBury, RetryOfMissingRow, TypeOK
  <2>3. \/ SetRow(i, "queued") \/ SetRow(i, "done") \/ SetRow(i, "dead_letter")
        \/ UNCHANGED status
    BY <1>7 DEF HandlerThrows, FinishDone, RetryOrBury, RetryOfMissingRow
  <2>4. \A j \in Items : status'[j] = "absent" => status[j] = "absent"
    BY <1>1, <2>3 DEF Statuses
  <2>5. QED
    BY <1>0, <2>1, <2>2, <2>4, ReleasingStep
<1>8. ASSUME NEW i \in Items, Enqueue(i) \/ CancelRecovery(i) PROVE WorkInv'
  <2>1. \A j \in Items : job'[j] = "scheduled" => job[j] = "scheduled" \/ status[j] = "absent"
    BY <1>0, <1>8 DEF Enqueue, CancelRecovery, TypeOK
  <2>2. \A j \in Items : status'[j] = "absent" => status[j] = "absent"
    BY <1>0, <1>8 DEF Enqueue, CancelRecovery, TypeOK
  <2>3. UNCHANGED <<exec, sessionLocks, attempt>>
    BY <1>8 DEF Enqueue, CancelRecovery
  <2>4. QED
    BY <1>0, <2>1, <2>2, <2>3, UntriedStep
<1>9. ASSUME NEW i \in Items, PurgeDeadLetter(i) PROVE WorkInv'
  BY <1>0, <1>9, UntriedStep DEF PurgeDeadLetter, TypeOK
<1>10. ASSUME NEW s \in Sessions, DeleteSession(s) PROVE WorkInv'
  BY <1>0, <1>10, UntriedStep DEF DeleteSession
<1>11. ASSUME NEW i \in Items,
              BecomesDue(i) \/ LeaseLapses(i) \/ Heartbeat(i) \/ WriteRunStatus(i)
       PROVE  WorkInv'
  BY <1>0, <1>11, UntriedStep DEF BecomesDue, LeaseLapses, Heartbeat, WriteRunStatus
<1>12. CASE Stop \/ UNCHANGED vars
  BY <1>0, <1>12, UntriedStep DEF Stop, vars
<1>13. CASE Exit
  <2>1. sessionLocks' = {} /\ UNCHANGED <<status, job, attempt>>
    BY <1>13 DEF Exit
  <2>2. QED
    BY <1>0, <2>1 DEF WorkInv, LockHasExecution, CancellableIsUntried
<1>14. QED
  BY <1>2, <1>3, <1>4, <1>5, <1>6, <1>7, <1>8, <1>9, <1>10, <1>11, <1>12, <1>13 DEF Next

(* Both hold in every reachable state.                                     *)
LEMMA WorkInvariance == Spec => []WorkInv
<1>1. Init => WorkInv
  BY InitIInv DEF Init, WorkInv, LockHasExecution, CancellableIsUntried
<1>2. QED
  BY <1>1, WorkStep, PTL DEF Spec

(* Between two callbacks the locked sessions are exactly those with an     *)
(* execution in flight: no path through the engine leaks a lock or drops   *)
(* one that is still needed.                                               *)
THEOREM LocksAreExecutions == Spec => []LocksMatchExecutions
<1>1. WorkInv => LocksMatchExecutions
  BY ItemsAssumption DEF WorkInv, IInv, LockHasExecution, LockedWhileExecuting, LocksMatchExecutions
<1>2. QED
  BY <1>1, WorkInvariance, PTL

(* An item that was tried and is not settled stays in the table as long as *)
(* its session does.                                                       *)
THEOREM StartedStays == Spec => StartedWorkIsKept
<1> DEFINE Kept == \A i \in Items : attempt[i] > 0 /\ status[i] \in {"queued", "processing"}
                      => status'[i] # "deleted" \/ SessionOf[i] \notin sessions'
<1>1. WorkInv /\ Next => Kept
  <2> SUFFICES ASSUME WorkInv, Next PROVE Kept
    OBVIOUS
  <2> USE DEF rows
  <2>0. status \in [Items -> Statuses] /\ CancellableIsUntried
    BY DEF WorkInv, IInv, TypeOK
  <2>1. ASSUME NEW i \in Items, NEW x \in Statuses \ {"deleted"}, SetRow(i, x)
        PROVE  Kept
    BY <2>0, <2>1 DEF SetRow
  <2>2. CASE TickBegin \/ Boot
    BY <2>2 DEF TickBegin, Boot, TickStarts
  <2>3. CASE TickReserve
    BY <2>3 DEF TickReserve
  <2>4. CASE UNCHANGED status
    BY <2>4
  <2>5. ASSUME NEW i \in Items,
               BounceItem(i) \/ SkipHandledItem(i) \/ HandlerReturns(i) \/ HandlerThrows(i)
        PROVE  Kept
    <3>1. \/ SetRow(i, "queued") \/ SetRow(i, "done") \/ SetRow(i, "dead_letter")
          \/ UNCHANGED status
      BY <2>5 DEF BounceItem, SkipHandledItem, HandlerReturns, HandlerThrows, FinishDone,
         RetryOrBury, RetryOfMissingRow
    <3>2. QED
      BY <2>1, <2>4, <3>1 DEF Statuses
  <2>6. ASSUME NEW i \in Items, Enqueue(i) \/ CancelRecovery(i) \/ PurgeDeadLetter(i) PROVE Kept
    BY <2>0, <2>6 DEF Enqueue, CancelRecovery, PurgeDeadLetter, CancellableIsUntried
  <2>7. ASSUME NEW s \in Sessions, DeleteSession(s) PROVE Kept
    BY <2>7 DEF DeleteSession
  <2>8. ASSUME NEW i \in Items,
               BecomesDue(i) \/ LeaseLapses(i) \/ StartItem(i) \/ Heartbeat(i) \/ WriteRunStatus(i)
        PROVE  UNCHANGED status
    BY <2>8 DEF BecomesDue, LeaseLapses, StartItem, Heartbeat, WriteRunStatus
  <2>9. CASE Stop \/ Exit
    BY <2>9 DEF Stop, Exit
  <2>10. QED
    BY <2>2, <2>3, <2>4, <2>5, <2>6, <2>7, <2>8, <2>9 DEF Next
<1>2. WorkInv /\ [Next]_vars => [Kept]_vars
  BY <1>1
<1>3. QED
  BY <1>2, WorkInvariance, PTL DEF Spec, StartedWorkIsKept

-----------------------------------------------------------------------------
(* Lane counters, where the session of an execution is not deleted.  A     *)
(* slot is taken from the moment its item is reserved: what a lane         *)
(* executes and what the tick holds for it never exceed its concurrency.   *)

Taken(l) == Executing(l) \union {i \in batch : LaneOf[i] = l}

BusySessionsStay == \A i \in Items : exec[i] > 0 => SessionOf[i] \in sessions
TakenFits == \A l \in Lanes : Cardinality(Taken(l)) <= Cap(l)

SlotInv == IInv /\ BusySessionsStay /\ SlotsMatchExecutions /\ TakenFits

(* What a lane executes or holds is a finite set of items.                 *)
LEMMA TakenIsFinite ==
  ASSUME batch \subseteq Items, NEW l
  PROVE  /\ IsFiniteSet(Executing(l)) /\ Cardinality(Executing(l)) \in Nat
         /\ IsFiniteSet(Taken(l)) /\ Cardinality(Taken(l)) \in Nat
         /\ Cardinality(Executing(l)) <= Cardinality(Taken(l))
<1>1. IsFiniteSet(Taken(l))
  BY ItemsAssumption, FS_Subset DEF Taken, Executing
<1>2. Executing(l) \in SUBSET Taken(l)
  BY DEF Taken
<1>3. IsFiniteSet(Executing(l)) /\ Cardinality(Executing(l)) <= Cardinality(Taken(l))
  BY <1>1, <1>2, FS_Subset
<1>4. QED
  BY <1>1, <1>3, FS_CardinalityType

(* Taking less of every lane keeps it within its cap.                      *)
LEMMA LessFits ==
  ASSUME TakenFits, batch \subseteq Items, \A l \in Lanes : Taken(l)' \subseteq Taken(l)
  PROVE  TakenFits'
<1> SUFFICES ASSUME NEW l \in Lanes PROVE Cardinality(Taken(l)') <= Cap(l)
  BY DEF TakenFits, Cap
<1>1. IsFiniteSet(Taken(l)) /\ Taken(l)' \in SUBSET Taken(l)
  BY TakenIsFinite
<1>2. Cardinality(Taken(l)') <= Cardinality(Taken(l))
  BY <1>1, FS_Subset
<1>3. IsFiniteSet(Taken(l)')
  BY <1>1, FS_Subset
<1>4. Cardinality(Taken(l)) \in Nat /\ Cardinality(Taken(l)') \in Nat
  BY <1>1, <1>3, FS_CardinalityType
<1>5. QED
  BY <1>2, <1>4, CapIsNat DEF TakenFits

(* A step that leaves the executions alone and takes no slot.              *)
LEMMA SlotlessStep ==
  ASSUME SlotInv, IInv', UNCHANGED <<exec, laneInFlight>>, batch' \subseteq batch,
         \A i \in Items : exec[i] > 0 => SessionOf[i] \in sessions'
  PROVE  SlotInv'
<1>1. \A l \in Lanes : Executing(l)' = Executing(l)
  BY DEF Executing
<1>2. \A l \in Lanes : Taken(l)' \subseteq Taken(l)
  BY DEF Taken, Executing
<1>3. TakenFits'
  BY <1>2, LessFits DEF SlotInv, IInv, TypeOK
<1>4. SlotsMatchExecutions'
  BY <1>1 DEF SlotInv, SlotsMatchExecutions
<1>5. BusySessionsStay'
  BY DEF BusySessionsStay
<1>6. QED
  BY <1>3, <1>4, <1>5 DEF SlotInv

(* The end of an execution gives back the slot it held, and no other.      *)
LEMMA SlotReturned ==
  ASSUME SlotInv, IInv', NEW i \in Items, exec[i] > 0, UNCHANGED <<sessions, batch>>,
         exec' = [exec EXCEPT ![i] = @ - 1], Release(i, 1)
  PROVE  SlotInv'
<1>1. /\ exec \in [Items -> Nat] /\ laneInFlight \in [Lanes -> Nat] /\ batch \subseteq Items
      /\ LaneOf[i] \in Lanes /\ exec[i] = 1
  <2>1. exec[i] \in Nat /\ exec[i] <= 1
    BY DEF SlotInv, IInv, TypeOK, SessionSerialized
  <2>2. exec[i] = 1
    BY <2>1
  <2>3. QED
    BY <2>2, ItemsAssumption DEF SlotInv, IInv, TypeOK
<1>2. \A j \in Items : exec'[j] = IF j = i THEN 0 ELSE exec[j]
  BY <1>1
<1>3. Executing(LaneOf[i])' = Executing(LaneOf[i]) \ {i} /\ i \in Executing(LaneOf[i])
  BY <1>1, <1>2 DEF Executing
<1>4. \A l \in Lanes : l # LaneOf[i] => Executing(l)' = Executing(l)
  BY <1>2 DEF Executing
<1>5. laneInFlight'[LaneOf[i]] = Cardinality(Executing(LaneOf[i]) \ {i})
  <2>1. IsFiniteSet(Executing(LaneOf[i])) /\ Cardinality(Executing(LaneOf[i])) \in Nat
    BY <1>1, TakenIsFinite
  <2>2. Cardinality(Executing(LaneOf[i]) \ {i}) = Cardinality(Executing(LaneOf[i])) - 1
    BY <1>3, <2>1, FS_RemoveElement
  <2>3. Cardinality(Executing(LaneOf[i])) # 0
    BY <1>3, <2>1, FS_EmptySet
  <2>4. laneInFlight[LaneOf[i]] = Cardinality(Executing(LaneOf[i]))
    BY <1>1 DEF SlotInv, SlotsMatchExecutions
  <2>5. QED
    BY <1>1, <2>1, <2>2, <2>3, <2>4 DEF Release
<1>6. \A l \in Lanes : l # LaneOf[i] => laneInFlight'[l] = laneInFlight[l]
  BY <1>1 DEF Release
<1>7. SlotsMatchExecutions'
  BY <1>3, <1>4, <1>5, <1>6 DEF SlotInv, SlotsMatchExecutions
<1>8. TakenFits'
  <2>1. \A l \in Lanes : Taken(l)' \subseteq Taken(l)
    BY <1>2 DEF Taken, Executing
  <2>2. QED
    BY <1>1, <2>1, LessFits DEF SlotInv
<1>9. BusySessionsStay'
  BY <1>2 DEF SlotInv, BusySessionsStay
<1>10. QED
  BY <1>7, <1>8, <1>9 DEF SlotInv

(* A start turns a reserved slot into an executing one.                    *)
LEMMA SlotUsed ==
  ASSUME SlotInv, IInv', NEW i \in Items, StartItem(i)
  PROVE  SlotInv'
<1>1. /\ exec \in [Items -> Nat] /\ laneInFlight \in [Lanes -> Nat] /\ batch \subseteq Items
      /\ LaneOf[i] \in Lanes
  BY ItemsAssumption DEF SlotInv, IInv, TypeOK
<1>2. /\ i \in batch /\ batch' = batch \ {i} /\ UNCHANGED sessions
      /\ laneInFlight' = [laneInFlight EXCEPT ![LaneOf[i]] = @ + 1]
      /\ exec' = [exec EXCEPT ![i] = @ + 1]
  BY DEF StartItem, IsNext, Occupy, rows
<1>3. exec[i] = 0
  <2>1. SessionOf[i] \notin sessionLocks
    BY <1>2 DEF StartItem, SlotInv, IInv, ReservedCoversLocks
  <2>2. QED
    BY <1>1, <2>1 DEF SlotInv, IInv, LockedWhileExecuting
<1>4. \A j \in Items : exec'[j] = IF j = i THEN 1 ELSE exec[j]
  BY <1>1, <1>2, <1>3
<1>5. Executing(LaneOf[i])' = Executing(LaneOf[i]) \union {i} /\ i \notin Executing(LaneOf[i])
  BY <1>3, <1>4 DEF Executing
<1>6. \A l \in Lanes : l # LaneOf[i] => Executing(l)' = Executing(l)
  BY <1>4 DEF Executing
<1>7. SlotsMatchExecutions'
  <2>1. IsFiniteSet(Executing(LaneOf[i])) /\ Cardinality(Executing(LaneOf[i])) \in Nat
    BY <1>1, TakenIsFinite
  <2>2. Cardinality(Executing(LaneOf[i]) \union {i}) = Cardinality(Executing(LaneOf[i])) + 1
    BY <1>5, <2>1, FS_AddElement
  <2>3. laneInFlight'[LaneOf[i]] = Cardinality(Executing(LaneOf[i])')
    BY <1>1, <1>2, <1>5, <2>2 DEF SlotInv, SlotsMatchExecutions
  <2>4. QED
    BY <1>1, <1>2, <1>6, <2>3 DEF SlotInv, SlotsMatchExecutions
<1>8. TakenFits'
  <2>1. \A l \in Lanes : Taken(l)' \subseteq Taken(l)
    BY <1>1, <1>2, <1>4 DEF Taken, Executing
  <2>2. QED
    BY <1>1, <2>1, LessFits DEF SlotInv
<1>9. BusySessionsStay'
  <2>1. SessionOf[i] \in sessions
    BY <1>2 DEF SlotInv, IInv, BatchIsProcessing, GoneSessionHasNoRows
  <2>2. QED
    BY <1>2, <1>4, <2>1 DEF SlotInv, BusySessionsStay
<1>10. QED
  BY <1>7, <1>8, <1>9 DEF SlotInv

(* A visit reserves no more items than its lane has free slots.            *)
LEMMA SlotsReserved ==
  ASSUME SlotInv, IInv', TickReserve
  PROVE  SlotInv'
<1>1. UNCHANGED <<exec, laneInFlight, sessions>> /\ batch = {}
  BY DEF TickReserve, slots
<1>2. PICK l \in Lanes, R \in SUBSET Items :
        IsReservation(R, l, AvailableSlots(l)) /\ batch' = R
  BY DEF TickReserve, SlotInv, IInv, TypeOK
<1>3. laneInFlight \in [Lanes -> Nat] /\ l \in Lanes
  BY DEF SlotInv, IInv, TypeOK
<1>4. \A m \in Lanes : Executing(m)' = Executing(m) /\ Taken(m) = Executing(m)
  BY <1>1 DEF Taken, Executing
<1>5. \A i \in R : LaneOf[i] = l
  BY <1>2 DEF IsReservation, Eligible
<1>6. \A m \in Lanes : m # l => Taken(m)' = Taken(m)
  BY <1>1, <1>2, <1>4, <1>5 DEF Taken
<1>7. Taken(l)' = Executing(l) \union R
  BY <1>2, <1>3, <1>4, <1>5 DEF Taken
<1>8. Cardinality(Executing(l) \union R) <= Cap(l)
  <2>1. IsFiniteSet(Executing(l)) /\ Cardinality(Executing(l)) \in Nat
        /\ Cardinality(Executing(l)) = Cardinality(Taken(l))
    BY <1>1, <1>3, <1>4, TakenIsFinite
  <2>2. IsFiniteSet(R) /\ Cardinality(R) \in Nat
    BY ItemsAssumption, FS_Subset, FS_CardinalityType
  <2>3. Cardinality(R) <= AvailableSlots(l)
    BY <1>2 DEF IsReservation
  <2>4. laneInFlight[l] = Cardinality(Executing(l)) /\ Cardinality(Executing(l)) <= Cap(l)
    BY <1>3, <2>1 DEF SlotInv, SlotsMatchExecutions, TakenFits
  <2>5. Cardinality(R) <= Cap(l) - Cardinality(Executing(l))
    BY <1>3, <2>1, <2>2, <2>3, <2>4, CapIsNat DEF AvailableSlots
  <2>6. /\ IsFiniteSet(Executing(l) \union R)
        /\ Cardinality(Executing(l) \union R) =
              Cardinality(Executing(l)) + Cardinality(R) - Cardinality(Executing(l) \cap R)
    BY <2>1, <2>2, FS_Union
  <2>7. Cardinality(Executing(l) \cap R) \in Nat
    BY <2>1, FS_Intersection, FS_CardinalityType
  <2>8. QED
    BY <1>3, <2>1, <2>2, <2>5, <2>6, <2>7, CapIsNat
<1>9. TakenFits'
  <2> SUFFICES ASSUME NEW m \in Lanes PROVE Cardinality(Taken(m)') <= Cap(m)
    BY DEF TakenFits, Cap
  <2>1. CASE m = l
    BY <1>7, <1>8, <2>1
  <2>2. CASE m # l
    BY <1>6, <2>2 DEF SlotInv, TakenFits
  <2>3. QED
    BY <2>1, <2>2
<1>10. SlotsMatchExecutions' /\ BusySessionsStay'
  BY <1>1, <1>4 DEF SlotInv, SlotsMatchExecutions, BusySessionsStay
<1>11. QED
  BY <1>9, <1>10 DEF SlotInv

(* Every step keeps the counters, if executing sessions are not deleted.   *)
LEMMA SlotStep ==
  ASSUME DeleteBusySessions = FALSE
  PROVE  SlotInv /\ [Next]_vars => SlotInv'
<1> SUFFICES ASSUME SlotInv, [Next]_vars PROVE SlotInv'
  OBVIOUS
<1> USE DEF rows, slots, tick
<1>0. IInv /\ IInv' /\ BusySessionsStay /\ TypeOK
  BY NextIInv DEF SlotInv, IInv
<1>1. ASSUME UNCHANGED <<exec, laneInFlight, sessions>>, batch' \subseteq batch
      PROVE  SlotInv'
  BY <1>0, <1>1, SlotlessStep DEF BusySessionsStay
<1>2. CASE TickBegin \/ (Boot /\ batch = {})
  BY <1>1, <1>2 DEF TickBegin, Boot, TickStarts
<1>3. CASE TickReserve
  BY <1>0, <1>3, SlotsReserved
<1>4. ASSUME NEW i \in Items, BounceItem(i) \/ SkipHandledItem(i) PROVE SlotInv'
  BY <1>1, <1>4 DEF BounceItem, SkipHandledItem
<1>5. ASSUME NEW i \in Items, StartItem(i) PROVE SlotInv'
  BY <1>0, <1>5, SlotUsed
<1>6. ASSUME NEW i \in Items, HandlerReturns(i) \/ HandlerThrows(i) PROVE SlotInv'
  <2>1. /\ exec[i] > 0 /\ UNCHANGED <<sessions, batch>>
        /\ exec' = [exec EXCEPT ![i] = @ - 1]
    BY <1>6 DEF HandlerReturns, HandlerThrows
  <2>2. Exists(i)
    BY <1>0, <2>1 DEF BusySessionsStay, IInv, ExecutingRowIsKept, Exists
  <2>3. Release(i, 1)
    BY <1>6, <2>2 DEF HandlerReturns, HandlerThrows, FinishDone, RetryOrBury
  <2>4. QED
    BY <1>0, <2>1, <2>3, SlotReturned
<1>7. ASSUME NEW i \in Items,
             \/ Enqueue(i) \/ CancelRecovery(i) \/ PurgeDeadLetter(i) \/ BecomesDue(i)
             \/ LeaseLapses(i) \/ Heartbeat(i) \/ WriteRunStatus(i)
      PROVE  SlotInv'
  BY <1>1, <1>7 DEF Enqueue, CancelRecovery, PurgeDeadLetter, BecomesDue, LeaseLapses,
     Heartbeat, WriteRunStatus
<1>8. ASSUME NEW s \in Sessions, DeleteSession(s) PROVE SlotInv'
  <2>1. /\ UNCHANGED <<exec, laneInFlight, batch>> /\ sessions' = sessions \ {s}
        /\ \A i \in Items : SessionOf[i] = s => exec[i] = 0
    BY <1>8 DEF DeleteSession
  <2>2. \A i \in Items : exec[i] > 0 => SessionOf[i] \in sessions'
    BY <1>0, <2>1 DEF BusySessionsStay
  <2>3. QED
    BY <1>0, <2>1, <2>2, SlotlessStep
<1>9. CASE Stop \/ UNCHANGED vars
  BY <1>1, <1>9 DEF Stop, vars
<1>10. CASE Boot
  BY <1>0, <1>2, <1>10 DEF Boot, IInv, DownIsIdle, Idle
<1>11. CASE Exit
  <2>1. /\ \A i \in Items : exec'[i] = 0
        /\ \A l \in Lanes : laneInFlight'[l] = 0
        /\ batch' = {}
    BY <1>11 DEF Exit
  <2>2. \A l \in Lanes : Executing(l)' = {} /\ Taken(l)' = {}
    BY <2>1 DEF Taken, Executing
  <2>3. \A l \in Lanes : Cardinality(Executing(l)') = 0 /\ Cardinality(Taken(l)') = 0
    BY <2>2, FS_EmptySet
  <2>4. QED
    BY <1>0, <2>1, <2>3, CapIsNat DEF SlotInv, BusySessionsStay, SlotsMatchExecutions, TakenFits, Cap
<1>12. QED
  BY <1>2, <1>3, <1>4, <1>5, <1>6, <1>7, <1>8, <1>9, <1>10, <1>11 DEF Next

(* The counters hold in every reachable state of such a system.            *)
LEMMA SlotInvariance ==
  ASSUME DeleteBusySessions = FALSE
  PROVE  Spec => []SlotInv
<1>1. ASSUME Init PROVE SlotInv
  <2>1. /\ \A i \in Items : exec[i] = 0
        /\ \A l \in Lanes : laneInFlight[l] = 0
        /\ batch = {} /\ IInv
    BY <1>1, InitIInv DEF Init
  <2>2. \A l \in Lanes : Executing(l) = {} /\ Taken(l) = {}
    BY <2>1 DEF Taken, Executing
  <2>3. \A l \in Lanes : Cardinality(Executing(l)) = 0 /\ Cardinality(Taken(l)) = 0
    BY <2>2, FS_EmptySet
  <2>4. QED
    BY <2>1, <2>3, CapIsNat DEF SlotInv, BusySessionsStay, SlotsMatchExecutions, TakenFits
<1>2. SlotInv /\ [Next]_vars => SlotInv'
  BY SlotStep
<1>3. QED
  BY <1>1, <1>2, PTL DEF Spec

(* As long as nobody deletes a session that executes, the counter of a     *)
(* lane is the number of its executions.                                   *)
THEOREM SlotsAreCounted ==
  ASSUME DeleteBusySessions = FALSE
  PROVE  Spec => []SlotsMatchExecutions
<1>1. SlotInv => SlotsMatchExecutions
  BY DEF SlotInv
<1>2. QED
  BY <1>1, SlotInvariance, PTL

(* Under the same condition no lane executes more than its concurrency,    *)
(* for any number of items and lanes and however often the process starts. *)
THEOREM LanesKeepTheirCap ==
  ASSUME DeleteBusySessions = FALSE
  PROVE  Spec => []LaneCapRespected
<1>1. SlotInv => LaneCapRespected
  <2> SUFFICES ASSUME SlotInv, NEW l \in Lanes PROVE Cardinality(Executing(l)) <= Cap(l)
    BY DEF LaneCapRespected
  <2>1. Cardinality(Taken(l)) <= Cap(l) /\ batch \subseteq Items
    BY DEF SlotInv, TakenFits, IInv, TypeOK
  <2>2. QED
    BY <2>1, TakenIsFinite, CapIsNat
<1>2. QED
  BY <1>1, SlotInvariance, PTL

-----------------------------------------------------------------------------
(* Only failed executions use up attempts, and what has used up all but    *)
(* the last is still tried: leases that lapse, bounces and restarts are    *)
(* not counted, and what is in the dead letters failed MaxAttempts times.  *)
BuriedWhenExhausted ==
  \A i \in Items : /\ attempt[i] < MaxAttempts
                   /\ status[i] = "dead_letter" => attempt[i] = MaxAttempts - 1

AttemptInv == IInv /\ BuriedWhenExhausted

(* Steps that count no attempt and bury nothing.                           *)
LEMMA NothingBuried ==
  ASSUME AttemptInv, attempt' = attempt,
         \A i \in Items : status'[i] = "dead_letter" => status[i] = "dead_letter"
  PROVE  BuriedWhenExhausted'
  BY DEF AttemptInv, BuriedWhenExhausted

LEMMA AttemptStep == AttemptInv /\ [Next]_vars => BuriedWhenExhausted'
<1> SUFFICES ASSUME AttemptInv, [Next]_vars PROVE BuriedWhenExhausted'
  OBVIOUS
<1> USE DEF rows
<1>0. /\ MaxAttempts \in Nat \ {0}
      /\ status \in [Items -> Statuses] /\ attempt \in [Items -> Nat]
  BY BoundsAssumption DEF AttemptInv, IInv, TypeOK
<1>1. ASSUME NEW i \in Items, NEW s \in Statuses \ {"dead_letter"}, SetRow(i, s), attempt' = attempt
      PROVE  BuriedWhenExhausted'
  <2>1. \A j \in Items : status'[j] = "dead_letter" => status[j] = "dead_letter"
    BY <1>0, <1>1 DEF SetRow
  <2>2. QED
    BY <1>1, <2>1, NothingBuried
<1>2. CASE TickBegin \/ Boot
  BY <1>2, NothingBuried DEF TickBegin, Boot, TickStarts
<1>3. CASE TickReserve
  BY <1>3, NothingBuried DEF TickReserve
<1>4. CASE Stop \/ Exit \/ UNCHANGED vars
  BY <1>4, NothingBuried DEF Stop, Exit, vars
<1>5. ASSUME NEW i \in Items, \/ BecomesDue(i) \/ LeaseLapses(i) \/ StartItem(i) \/ Heartbeat(i)
                              \/ WriteRunStatus(i)
      PROVE  BuriedWhenExhausted'
  BY <1>5, NothingBuried DEF BecomesDue, LeaseLapses, StartItem, Heartbeat, WriteRunStatus
<1>6. ASSUME NEW i \in Items, BounceItem(i) \/ SkipHandledItem(i)
      PROVE  BuriedWhenExhausted'
  BY <1>1, <1>6 DEF BounceItem, SkipHandledItem, Statuses
<1>7. ASSUME NEW i \in Items, FinishDone(i) PROVE BuriedWhenExhausted'
  BY <1>1, <1>7 DEF FinishDone, Statuses
<1>8. ASSUME NEW i \in Items, RetryOrBury(i) PROVE BuriedWhenExhausted'
  <2>1. attempt[i] \in Nat /\ attempt[i] < MaxAttempts
    BY <1>0 DEF AttemptInv, BuriedWhenExhausted
  <2>2. CASE attempt[i] + 1 >= MaxAttempts
    <3>1. attempt' = attempt /\ attempt[i] = MaxAttempts - 1
      BY <1>0, <1>8, <2>1, <2>2 DEF RetryOrBury
    <3>2. \A j \in Items \ {i} : status'[j] = status[j]
      BY <1>0, <1>8, <2>2 DEF RetryOrBury, SetRow
    <3>3. QED
      BY <3>1, <3>2 DEF AttemptInv, BuriedWhenExhausted
  <2>3. CASE ~(attempt[i] + 1 >= MaxAttempts)
    <3>1. attempt' = [attempt EXCEPT ![i] = @ + 1] /\ SetRow(i, "queued")
      BY <1>8, <2>3 DEF RetryOrBury
    <3>2. \A j \in Items \ {i} : attempt'[j] = attempt[j] /\ status'[j] = status[j]
      BY <1>0, <3>1 DEF SetRow
    <3>3. status'[i] # "dead_letter" \/ ~Exists(i)
      BY <1>0, <3>1 DEF SetRow
    <3>4. ~Exists(i) => status'[i] \in {"absent", "deleted"}
      BY <3>1 DEF SetRow, Exists
    <3>5. attempt'[i] = attempt[i] + 1 /\ attempt'[i] < MaxAttempts
      BY <1>0, <2>1, <2>3, <3>1
    <3>6. QED
      BY <3>2, <3>3, <3>4, <3>5 DEF AttemptInv, BuriedWhenExhausted
  <2>4. QED
    BY <2>2, <2>3
<1>9. ASSUME NEW i \in Items, HandlerReturns(i) \/ HandlerThrows(i)
      PROVE  BuriedWhenExhausted'
  BY <1>7, <1>8, <1>9, NothingBuried DEF HandlerReturns, HandlerThrows, RetryOfMissingRow
<1>10. ASSUME NEW i \in Items, Enqueue(i) \/ CancelRecovery(i) \/ PurgeDeadLetter(i)
       PROVE  BuriedWhenExhausted'
  <2>1. /\ attempt' = attempt
        /\ \A j \in Items : status'[j] = "dead_letter" => status[j] = "dead_letter"
    BY <1>0, <1>10 DEF Enqueue, CancelRecovery, PurgeDeadLetter
  <2>2. QED
    BY <2>1, NothingBuried
<1>11. ASSUME NEW s \in Sessions, DeleteSession(s) PROVE BuriedWhenExhausted'
  <2>1. /\ attempt' = attempt
        /\ \A j \in Items : status'[j] = "dead_letter" => status[j] = "dead_letter"
    BY <1>11 DEF DeleteSession
  <2>2. QED
    BY <2>1, NothingBuried
<1>12. QED
  BY <1>2, <1>3, <1>4, <1>5, <1>6, <1>9, <1>10, <1>11 DEF Next

(* No item is buried with attempts left, nor tried when none is left.      *)
THEOREM BuriedAfterTheLastAttempt == Spec => []BuriedWhenExhausted
<1>1. Init => BuriedWhenExhausted
  BY BoundsAssumption DEF Init, BuriedWhenExhausted
<1>2. IInv /\ BuriedWhenExhausted /\ [Next]_vars => BuriedWhenExhausted'
  BY AttemptStep DEF AttemptInv
<1>3. QED
  BY <1>1, <1>2, Invariance, PTL DEF Spec

-----------------------------------------------------------------------------
(* Refinement: QueueEngine implements WorkQueue.  The step that leases,    *)
(* bounces and counts slots is invisible to the callers, who see items     *)
(* wait, execute, settle or be withdrawn.                                  *)

(* The state of the abstract queue, and one item's step in it.             *)
Phase == [i \in Items |-> AbstractPhase(i)]
Alone(i, p) == /\ i \in Items
               /\ AbstractPhase(i)' = p
               /\ \A j \in Items \ {i} : AbstractPhase(j)' = AbstractPhase(j)

(* A phase function that changes at one item only is an EXCEPT.            *)
LEMMA AloneIsExcept ==
  ASSUME NEW i \in Items, NEW p, Alone(i, p)
  PROVE  Phase' = [Phase EXCEPT ![i] = p]
  BY DEF Alone, Phase

(* Rows that move between queued and processing show nothing outside.      *)
LEMMA Invisible ==
  ASSUME UNCHANGED exec,
         \A i \in Items : \/ status'[i] = status[i]
                          \/ {status[i], status'[i]} \subseteq {"queued", "processing"}
  PROVE  UNCHANGED Phase
<1>1. \A i \in Items : AbstractPhase(i)' = AbstractPhase(i)
  BY DEF AbstractPhase, Settled
<1>2. QED
  BY <1>1 DEF Phase

(* A step that leaves the other rows and executions alone is a step of i.  *)
LEMMA OthersKeepPhase ==
  ASSUME NEW i \in Items,
         \A j \in Items \ {i} : status'[j] = status[j] /\ exec'[j] = exec[j]
  PROVE  Alone(i, AbstractPhase(i)')
  BY DEF Alone, AbstractPhase

(* The empty table is the empty work queue.                                *)
LEMMA InitRefines == Init => WQ!Init
  BY DEF Init, WQ!Init, AbstractPhase, Settled

(* A withdrawal is a set of items whose rows are deleted.                  *)
LEMMA WithdrawRefines ==
  ASSUME IInv, UNCHANGED exec, NEW S \in SUBSET Items,
         \A i \in Items : status'[i] = IF i \in S THEN "deleted" ELSE status[i],
         \A i \in S : status[i] # "absent"
  PROVE  WQ!Withdraw(Phase, Phase')
<1>1. \A i \in Items : exec[i] > 0 => status[i] \in {"queued", "processing", "deleted"}
  BY DEF IInv, ExecutingRows
<1>2. \A i \in Items : AbstractPhase(i)' = IF i \in S THEN WQ!Withdrawn(AbstractPhase(i))
                                                      ELSE AbstractPhase(i)
  BY <1>1 DEF AbstractPhase, WQ!Withdrawn, Settled
<1>3. Phase' = [i \in Items |-> IF i \in S THEN WQ!Withdrawn(Phase[i]) ELSE Phase[i]]
  BY <1>2 DEF Phase
<1>4. QED
  BY <1>3 DEF WQ!Withdraw, WQ!Without, Phase

(* Every step is a step of the work queue or invisible to its callers.     *)
LEMMA NextRefines == IInv /\ [Next]_vars => [WQ!Next]_Phase
<1> SUFFICES ASSUME IInv, [Next]_vars PROVE WQ!Next \/ UNCHANGED Phase
  OBVIOUS
<1> USE DEF rows, slots, tick
<1>0. /\ TypeOK /\ BatchIsProcessing /\ ExecutingRows /\ LockedWhileExecuting
      /\ ReservedCoversLocks /\ SessionSerialized
      /\ status \in [Items -> Statuses] /\ exec \in [Items -> Nat]
  BY DEF IInv, TypeOK
<1>1. CASE TickBegin \/ Boot
  <2>1. UNCHANGED exec
    BY <1>1 DEF TickBegin, Boot, TickStarts, Expired
  <2>2. \A i \in Items : \/ status'[i] = status[i]
                         \/ {status[i], status'[i]} \subseteq {"queued", "processing"}
    BY <1>1 DEF TickBegin, Boot, TickStarts, Expired
  <2>3. QED
    BY <2>1, <2>2, Invisible
<1>2. CASE TickReserve
  <2>1. UNCHANGED exec
    BY <1>2 DEF TickReserve
  <2>2. \A i \in Items : \/ status'[i] = status[i]
                         \/ {status[i], status'[i]} \subseteq {"queued", "processing"}
    BY <1>2 DEF TickReserve, IsReservation, Eligible
  <2>3. QED
    BY <2>1, <2>2, Invisible
<1>3. ASSUME NEW i \in Items, BounceItem(i) PROVE UNCHANGED Phase
  <2>1. UNCHANGED exec
    BY <1>3 DEF BounceItem
  <2>2. status[i] = "processing"
    BY <1>0, <1>3 DEF BounceItem, IsNext, BatchIsProcessing
  <2>3. \A j \in Items : status'[j] = IF j = i THEN "queued" ELSE status[j]
    BY <1>0, <1>3, <2>2 DEF BounceItem, SetRow, Exists
  <2>4. QED
    BY <2>1, <2>2, <2>3, Invisible
<1>4. ASSUME NEW i \in Items, SkipHandledItem(i) PROVE WQ!SettleUnrun(Phase, Phase', i)
  <2>1. UNCHANGED exec /\ status[i] = "processing" /\ SessionOf[i] \notin sessionLocks
    BY <1>0, <1>4 DEF SkipHandledItem, IsNext, BatchIsProcessing, ReservedCoversLocks
  <2>2. exec[i] = 0
    BY <1>0, <2>1, NotExecuting DEF LockedWhileExecuting
  <2>3. \A j \in Items : status'[j] = IF j = i THEN "done" ELSE status[j]
    BY <1>0, <1>4, <2>1 DEF SkipHandledItem, SetRow, Exists
  <2>4. AbstractPhase(i) = "waiting" /\ AbstractPhase(i)' = "settled"
    BY <2>1, <2>2, <2>3 DEF AbstractPhase, Settled
  <2>5. Alone(i, "settled")
    BY <2>1, <2>3, <2>4, OthersKeepPhase
  <2>6. QED
    BY <2>4, <2>5, AloneIsExcept DEF WQ!SettleUnrun, Phase
<1>5. ASSUME NEW i \in Items, StartItem(i) PROVE WQ!Begin(Phase, Phase', i)
  <2>1. UNCHANGED status /\ status[i] = "processing" /\ SessionOf[i] \notin sessionLocks
    BY <1>0, <1>5 DEF StartItem, IsNext, BatchIsProcessing, ReservedCoversLocks
  <2>2. \A j \in Items : SessionOf[j] = SessionOf[i] => exec[j] = 0
    BY <1>0, <2>1, NotExecuting DEF LockedWhileExecuting
  <2>3. \A j \in Items : exec'[j] = IF j = i THEN 1 ELSE exec[j]
    BY <1>0, <1>5, <2>2 DEF StartItem
  <2>4. AbstractPhase(i) = "waiting" /\ AbstractPhase(i)' = "executing"
    BY <2>1, <2>2, <2>3 DEF AbstractPhase, Settled
  <2>5. Alone(i, "executing")
    BY <2>1, <2>3, <2>4, OthersKeepPhase
  <2>6. \A j \in Items : SessionOf[j] = SessionOf[i]
                           => AbstractPhase(j) \notin {"executing", "orphan"}
    BY <2>2 DEF AbstractPhase
  <2>7. QED
    BY <2>4, <2>5, <2>6, AloneIsExcept DEF WQ!Begin, WQ!Free, WQ!Busy, Phase
<1>6. ASSUME NEW i \in Items, HandlerReturns(i) \/ HandlerThrows(i) PROVE WQ!End(Phase, Phase', i)
  <2>1. exec[i] > 0 /\ exec' = [exec EXCEPT ![i] = @ - 1]
    BY <1>6 DEF HandlerReturns, HandlerThrows
  <2>2. \A j \in Items : exec'[j] = IF j = i THEN 0 ELSE exec[j]
    BY <1>0, <2>1 DEF SessionSerialized
  <2>3. status[i] \in {"queued", "processing", "deleted"}
    BY <1>0, <2>1 DEF ExecutingRows
  <2>4. /\ \/ SetRow(i, "done") \/ SetRow(i, "queued") \/ SetRow(i, "dead_letter")
           \/ ~Exists(i) /\ UNCHANGED status
    BY <1>6 DEF HandlerReturns, HandlerThrows, FinishDone, RetryOrBury, RetryOfMissingRow
  <2>5. /\ \A j \in Items \ {i} : status'[j] = status[j]
        /\ \/ status[i] # "deleted" /\ status'[i] \in {"done", "queued", "dead_letter"}
           \/ status[i] = "deleted" /\ status'[i] = "deleted"
    BY <1>0, <2>3, <2>4 DEF SetRow, Exists
  <2>6. Alone(i, AbstractPhase(i)')
    BY <2>2, <2>5, OthersKeepPhase
  <2>7. \/ AbstractPhase(i) = "executing" /\ AbstractPhase(i)' \in {"settled", "waiting"}
        \/ AbstractPhase(i) = "orphan" /\ AbstractPhase(i)' = "gone"
    BY <2>1, <2>2, <2>3, <2>5 DEF AbstractPhase, Settled
  <2>8. Phase' = [Phase EXCEPT ![i] = AbstractPhase(i)']
    BY <2>6, AloneIsExcept
  <2>9. QED
    BY <2>7, <2>8 DEF WQ!End, Phase
<1>7. ASSUME NEW i \in Items, Enqueue(i) PROVE WQ!Submit(Phase, Phase', i)
  <2>1. UNCHANGED exec /\ status[i] = "absent"
    BY <1>7 DEF Enqueue
  <2>2. exec[i] = 0
    BY <1>0, <2>1, NotExecuting DEF ExecutingRows
  <2>3. \A j \in Items : status'[j] = IF j = i THEN "queued" ELSE status[j]
    BY <1>0, <1>7 DEF Enqueue
  <2>4. AbstractPhase(i) = "none" /\ AbstractPhase(i)' = "waiting"
    BY <2>1, <2>2, <2>3 DEF AbstractPhase, Settled
  <2>5. Alone(i, "waiting")
    BY <2>1, <2>3, <2>4, OthersKeepPhase
  <2>6. QED
    BY <2>4, <2>5, AloneIsExcept DEF WQ!Submit, Phase
<1>8. ASSUME NEW i \in Items, CancelRecovery(i) \/ PurgeDeadLetter(i) PROVE WQ!Withdraw(Phase, Phase')
  <2>1. UNCHANGED exec
    BY <1>8 DEF CancelRecovery, PurgeDeadLetter
  <2>2. PICK S \in SUBSET {i} : /\ \A j \in S : status[j] # "absent"
                                /\ \A j \in Items : status'[j] = IF j \in S THEN "deleted" ELSE status[j]
    <3>1. CASE status[i] \in {"queued", "dead_letter"} /\ status' = [status EXCEPT ![i] = "deleted"]
      <4>1. \A j \in Items : status'[j] = IF j \in {i} THEN "deleted" ELSE status[j]
        BY <1>0, <3>1
      <4>2. \A j \in {i} : status[j] # "absent"
        BY <3>1
      <4>3. WITNESS {i} \in SUBSET {i}
      <4>4. QED
        BY <4>1, <4>2
    <3>2. CASE UNCHANGED status
      <4>1. WITNESS {} \in SUBSET {i}
      <4>2. QED
        BY <3>2
    <3>3. \/ status[i] \in {"queued", "dead_letter"} /\ status' = [status EXCEPT ![i] = "deleted"]
          \/ UNCHANGED status
      BY <1>0, <1>8 DEF CancelRecovery, PurgeDeadLetter
    <3>4. QED
      BY <3>1, <3>2, <3>3
  <2>3. QED
    BY <2>1, <2>2, WithdrawRefines
<1>9. ASSUME NEW s \in Sessions, DeleteSession(s) PROVE WQ!Withdraw(Phase, Phase')
  <2> DEFINE gone == {i \in Items : SessionOf[i] = s /\ Exists(i)}
  <2>1. UNCHANGED exec
    BY <1>9 DEF DeleteSession
  <2>2. \A i \in Items : status'[i] = IF i \in gone THEN "deleted" ELSE status[i]
    BY <1>9 DEF DeleteSession
  <2>3. \A i \in gone : status[i] # "absent"
    BY DEF Exists
  <2>4. gone \in SUBSET Items
    OBVIOUS
  <2> HIDE DEF gone
  <2>5. QED
    BY <2>1, <2>2, <2>3, <2>4, WithdrawRefines
<1>10. ASSUME Exit PROVE WQ!Crash(Phase, Phase')
  <2>1. UNCHANGED status /\ \A i \in Items : exec'[i] = 0
    BY <1>10 DEF Exit
  <2>2. \A i \in Items : AbstractPhase(i)' = WQ!Interrupted(AbstractPhase(i))
    BY <1>0, <2>1 DEF AbstractPhase, WQ!Interrupted, ExecutingRows, Settled
  <2>3. Phase' = [i \in Items |-> WQ!Interrupted(Phase[i])]
    BY <2>2 DEF Phase
  <2>4. QED
    BY <2>3 DEF WQ!Crash, WQ!Restarted, Phase
<1>11. ASSUME NEW i \in Items, BecomesDue(i) \/ LeaseLapses(i) \/ Heartbeat(i) \/ WriteRunStatus(i)
       PROVE  UNCHANGED Phase
  <2>1. UNCHANGED exec /\ UNCHANGED status
    BY <1>11 DEF BecomesDue, LeaseLapses, Heartbeat, WriteRunStatus
  <2>2. QED
    BY <2>1, Invisible
<1>12. CASE Stop \/ UNCHANGED vars
  <2>1. UNCHANGED exec /\ UNCHANGED status
    BY <1>12 DEF Stop, vars
  <2>2. QED
    BY <2>1, Invisible
<1>13. QED
  BY <1>1, <1>2, <1>3, <1>4, <1>5, <1>6, <1>7, <1>8, <1>9, <1>10, <1>11, <1>12
     DEF Next, WQ!Next, WQ!Step, Phase

(* Every behaviour of the engine, crashes included, is one the abstract    *)
(* work queue allows: sessions are served one item at a time, started work *)
(* comes back until it settles, and only a withdrawal removes an item.     *)
THEOREM Implementation == Spec => ImplementsWorkQueue
<1>1. IInv /\ [Next]_vars => [WQ!Next]_Phase
  BY NextRefines
<1>2. QED
  BY <1>1, InitRefines, Invariance, PTL DEF Spec, ImplementsWorkQueue, WQ!Spec, Phase
=============================================================================
