----------------------------- MODULE QueueEngine -----------------------------
(***************************************************************************)
(* The durable run queue: the SQLite table queue_items                     *)
(* (packages/db/src/database.ts) and the engine that drains it             *)
(* (packages/queue/src/index.ts), in one gateway process that may crash,   *)
(* be shut down and be booted again.                                       *)
(*                                                                         *)
(* JavaScript runs one callback to completion: a tick of the engine is a   *)
(* sequence of database statements that no other callback interrupts.  The *)
(* tick is therefore split into small actions that only a crash can        *)
(* separate: every other callback is guarded by Idle.  Time may pass       *)
(* anywhere, so availability and leases change without that guard.         *)
(*                                                                         *)
(* The work handler is abstract here: it returns or throws after any       *)
(* delay, and the status of an item's run - which the handler, the HTTP    *)
(* API and the watchdog write - is reduced to what the engine reads of it, *)
(* whether it is one of NON_REPLAYABLE_RUN_STATUSES ("handled").           *)
(***************************************************************************)
EXTENDS Integers, Sequences, FiniteSets

CONSTANTS
  Items,            (* queue items: each is the work of one run *)
  Sessions,         (* conversation sessions *)
  SessionOf,        (* [Items -> Sessions] *)
  LaneOf,           (* the lane an item was enqueued on *)
  Priority,         (* [Items -> Nat], smaller is served first *)
  RecoveryItems,    (* items enqueued for a watchdog recovery job *)
  Lanes,            (* every lane name an item may carry *)
  LaneConcurrency,  (* config.queue.laneConcurrency: some lanes -> cap *)
  DefaultLane,      (* config.queue.defaultLane *)
  LaneOrder,        (* the lanes a tick visits, in order *)
  MaxAttempts,      (* config.queue.retry.maxAttempts *)
  MaxBoots,         (* bound: process starts; the last one runs on *)
  DeleteBusySessions (* may an operator delete a session that is executing *)

ASSUME ItemsAssumption ==
  /\ SessionOf \in [Items -> Sessions]
  /\ LaneOf \in [Items -> Lanes]
  /\ Priority \in [Items -> Nat]
  /\ RecoveryItems \subseteq Items
  /\ IsFiniteSet(Items)
ASSUME LanesAssumption ==
  /\ DefaultLane \in Lanes
  /\ DOMAIN LaneConcurrency \subseteq Lanes
  /\ \A l \in DOMAIN LaneConcurrency : LaneConcurrency[l] \in Nat \ {0}
  /\ LaneOrder \in Seq(Lanes)
ASSUME BoundsAssumption ==
  /\ MaxAttempts \in Nat \ {0}
  /\ MaxBoots \in Nat \ {0}
  /\ DeleteBusySessions \in BOOLEAN

VARIABLES
  (* rows of queue_items, of sessions and of watchdog_recovery_jobs *)
  sessions,    (* the sessions that exist *)
  status,      (* queue_items.status; "absent" before enqueue, "deleted" after *)
  due,         (* is available_at in the past *)
  lease,       (* lease_expires_at: null, in the future or in the past *)
  attempt,     (* queue_items.attempt *)
  stamp,       (* queue_items.created_at *)
  clock,       (* the next created_at *)
  job,         (* status of the item's recovery job *)
  handled,     (* the items whose run status is non-replayable *)
  (* memory of the process *)
  engine,      (* "down", "running" or "stopped" (queue.stop() was called) *)
  boots,       (* starts of the process so far *)
  exec,        (* exec[i]: executions of i's handler in flight *)
  laneInFlight, sessionLocks,
  lanesLeft,   (* lanes the current tick has still to visit *)
  batch,       (* items reserved by the current tick and not yet processed *)
  reserved     (* reservedSessions of the current lane visit *)

rows   == <<sessions, status, due, lease, attempt, stamp, clock, job>>
slots  == <<exec, laneInFlight, sessionLocks>>
tick   == <<lanesLeft, batch, reserved>>
vars   == <<rows, handled, engine, boots, slots, tick>>

Statuses == {"absent", "queued", "processing", "done", "dead_letter", "deleted"}
Settled  == {"done", "dead_letter"}

TypeOK ==
  /\ sessions \subseteq Sessions
  /\ status \in [Items -> Statuses]
  /\ due \in [Items -> BOOLEAN]
  /\ lease \in [Items -> {"none", "live", "lapsed"}]
  /\ attempt \in [Items -> Nat]
  /\ stamp \in [Items -> Nat]
  /\ clock \in Nat
  /\ job \in [Items -> {"none", "scheduled", "dispatched", "cancelled"}]
  /\ handled \subseteq Items
  /\ engine \in {"down", "running", "stopped"}
  /\ boots \in Nat
  /\ exec \in [Items -> Nat]
  /\ laneInFlight \in [Lanes -> Nat]
  /\ sessionLocks \subseteq Sessions
  /\ lanesLeft \in Seq(Lanes)
  /\ batch \subseteq Items
  /\ reserved \subseteq Sessions

Init ==
  /\ sessions = Sessions
  /\ status = [i \in Items |-> "absent"]
  /\ due = [i \in Items |-> FALSE]
  /\ lease = [i \in Items |-> "none"]
  /\ attempt = [i \in Items |-> 0]
  /\ stamp = [i \in Items |-> 0]
  /\ clock = 1
  /\ job = [i \in Items |-> "none"]
  /\ handled = {}
  /\ engine = "down"
  /\ boots = 0
  /\ exec = [i \in Items |-> 0]
  /\ laneInFlight = [l \in Lanes |-> 0]
  /\ sessionLocks = {}
  /\ lanesLeft = <<>>
  /\ batch = {}
  /\ reserved = {}

-----------------------------------------------------------------------------
(* Mutants: each is a mistake somebody could make in the definition named  *)
(* in its comment, and breaks a property below.                            *)

AvailableSlotsOfEmptyLane(l) == (* AvailableSlots: in-flight work forgotten *)
  IF l \in DOMAIN LaneConcurrency THEN LaneConcurrency[l] ELSE 1

ExistsOnceEnqueued(i) == status[i] # "absent"  (* Exists: updates upsert *)

ExpiredNever == {}  (* Expired: releaseExpiredLeases is not called *)

OccupyLaneOnly(i) ==  (* Occupy: no session lock *)
  /\ laneInFlight' = [laneInFlight EXCEPT ![LaneOf[i]] = @ + 1]
  /\ UNCHANGED sessionLocks

ReleaseUnclamped(i, n) ==  (* Release: Math.max(0, ...) dropped *)
  /\ laneInFlight' = [laneInFlight EXCEPT ![LaneOf[i]] = @ - n]
  /\ sessionLocks' = sessionLocks \ {SessionOf[i]}

ReleaseLockOnly(i, n) ==  (* Release: the slot leaks *)
  /\ UNCHANGED laneInFlight
  /\ sessionLocks' = sessionLocks \ {SessionOf[i]}

ReleaseSlotOnly(i, n) ==  (* Release: the session lock leaks *)
  /\ laneInFlight' = [laneInFlight EXCEPT ![LaneOf[i]] = IF @ < n THEN 0 ELSE @ - n]
  /\ UNCHANGED sessionLocks

NoDispatch(i) == UNCHANGED job  (* DispatchRecovery: job left scheduled *)

-----------------------------------------------------------------------------
(* Definitions the actions share. *)

Idle == lanesLeft = <<>> /\ batch = {}
Up == engine # "down"

Cap(l) == IF l \in DOMAIN LaneConcurrency THEN LaneConcurrency[l]
          ELSE IF DefaultLane \in DOMAIN LaneConcurrency
               THEN LaneConcurrency[DefaultLane] ELSE 1

AvailableSlots(l) == IF laneInFlight[l] < Cap(l) THEN Cap(l) - laneInFlight[l] ELSE 0

(* ORDER BY priority ASC, created_at ASC *)
Before(i, j) == \/ Priority[i] < Priority[j]
                \/ Priority[i] = Priority[j] /\ stamp[i] < stamp[j]

Eligible(l) == {i \in Items : /\ status[i] = "queued"
                              /\ due[i]
                              /\ LaneOf[i] = l
                              /\ SessionOf[i] \notin sessionLocks}

(* The rows the LIMITed SELECT returns: the best n of the eligible ones.   *)
IsReservation(R, l, n) ==
  /\ R \subseteq Eligible(l)
  /\ \A i \in R, j \in Eligible(l) \ R : Before(i, j)
  /\ Cardinality(R) <= n
  /\ Cardinality(R) < n => R = Eligible(l)

IsNext(i) == i \in batch /\ \A j \in batch \ {i} : Before(i, j)

Exists(i) == status[i] \notin {"absent", "deleted"}

(* The run of a deleted session is gone with it, and reads as not handled. *)
ShouldTreatAsHandled(i) == i \in handled /\ SessionOf[i] \in sessions

(* Row updates are conditioned on the id only: a missing row is no error.  *)
SetRow(i, s) == IF Exists(i)
                THEN /\ status' = [status EXCEPT ![i] = s]
                     /\ lease' = [lease EXCEPT ![i] = "none"]
                ELSE UNCHANGED <<status, lease>>

(* Processing rows whose lease is in the past.                             *)
Expired == {i \in Items : status[i] = "processing" /\ lease[i] = "lapsed"}

Occupy(i) ==
  /\ laneInFlight' = [laneInFlight EXCEPT ![LaneOf[i]] = @ + 1]
  /\ sessionLocks' = sessionLocks \union {SessionOf[i]}

(* n calls of releaseLaneSlot; the counter is clamped at 0.                *)
Release(i, n) ==
  /\ laneInFlight' = [laneInFlight EXCEPT ![LaneOf[i]] = IF @ < n THEN 0 ELSE @ - n]
  /\ sessionLocks' = sessionLocks \ {SessionOf[i]}

-----------------------------------------------------------------------------
(* Time. *)

BecomesDue(i) ==
  /\ status[i] = "queued" /\ ~due[i]
  /\ due' = [due EXCEPT ![i] = TRUE]
  /\ UNCHANGED <<sessions, status, lease, attempt, stamp, clock, job,
                 handled, engine, boots, slots, tick>>

LeaseLapses(i) ==
  /\ status[i] = "processing" /\ lease[i] = "live"
  /\ lease' = [lease EXCEPT ![i] = "lapsed"]
  /\ UNCHANGED <<sessions, status, due, attempt, stamp, clock, job,
                 handled, engine, boots, slots, tick>>

-----------------------------------------------------------------------------
(* The tick. *)

(* releaseExpiredLeases, then the list of lanes to visit.                  *)
TickStarts ==
  /\ status' = [i \in Items |-> IF i \in Expired THEN "queued" ELSE status[i]]
  /\ lease' = [i \in Items |-> IF i \in Expired THEN "none" ELSE lease[i]]
  /\ lanesLeft' = LaneOrder
  /\ UNCHANGED <<sessions, due, attempt, stamp, clock, job, handled, slots,
                 batch, reserved>>

TickBegin ==
  /\ engine = "running" /\ Idle
  /\ TickStarts
  /\ UNCHANGED <<engine, boots>>

(* Visit the next lane: reserve as many due items as it has free slots.    *)
TickReserve ==
  /\ lanesLeft # <<>> /\ batch = {}
  /\ LET l == Head(lanesLeft) IN
     \E R \in SUBSET Items :
       /\ IsReservation(R, l, AvailableSlots(l))
       /\ batch' = R
       /\ status' = [i \in Items |-> IF i \in R THEN "processing" ELSE status[i]]
       /\ lease' = [i \in Items |-> IF i \in R THEN "live" ELSE lease[i]]
  /\ reserved' = sessionLocks
  /\ lanesLeft' = Tail(lanesLeft)
  /\ UNCHANGED <<sessions, due, attempt, stamp, clock, job, handled, engine,
                 boots, slots>>

(* Another item of the same session came first in this visit.              *)
BounceItem(i) ==
  /\ IsNext(i)
  /\ SessionOf[i] \in reserved
  /\ batch' = batch \ {i}
  /\ SetRow(i, "queued")
  /\ due' = [due EXCEPT ![i] = FALSE]
  /\ UNCHANGED <<sessions, attempt, stamp, clock, job, handled, engine, boots,
                 slots, lanesLeft, reserved>>

(* runItem of a handled item: slot taken and given back, row done.         *)
SkipHandledItem(i) ==
  /\ IsNext(i)
  /\ SessionOf[i] \notin reserved
  /\ ShouldTreatAsHandled(i)
  /\ batch' = batch \ {i}
  /\ reserved' = reserved \union {SessionOf[i]}
  /\ SetRow(i, "done")
  /\ UNCHANGED <<sessions, due, attempt, stamp, clock, job, handled, engine,
                 boots, slots, lanesLeft>>

(* The handler of a recovery run marks its job before anything else,       *)
(* whatever the status the job has: a cancelled one is dispatched too.     *)
DispatchRecovery(i) == job' = [job EXCEPT ![i] = IF @ = "none" THEN "none" ELSE "dispatched"]

(* runItem up to the handler's first await: the slot is taken, and the     *)
(* handler marks the item's recovery job as dispatched.                    *)
StartItem(i) ==
  /\ IsNext(i)
  /\ SessionOf[i] \notin reserved
  /\ ~ShouldTreatAsHandled(i)
  /\ batch' = batch \ {i}
  /\ reserved' = reserved \union {SessionOf[i]}
  /\ exec' = [exec EXCEPT ![i] = @ + 1]
  /\ Occupy(i)
  /\ DispatchRecovery(i)
  /\ UNCHANGED <<sessions, status, due, lease, attempt, stamp, clock, handled,
                 engine, boots, lanesLeft>>

TickStep ==
  \/ TickReserve
  \/ \E i \in Items : BounceItem(i) \/ SkipHandledItem(i) \/ StartItem(i)

-----------------------------------------------------------------------------
(* The rest of runItem. *)

(* The lease heartbeat, an interval that lives as long as the execution.   *)
Heartbeat(i) ==
  /\ Idle /\ exec[i] > 0
  /\ status[i] = "processing" /\ lease[i] = "lapsed"
  /\ lease' = [lease EXCEPT ![i] = "live"]
  /\ UNCHANGED <<sessions, status, due, attempt, stamp, clock, job, handled,
                 engine, boots, slots, tick>>

(* The execution is over: markQueueDone, slot and session lock released.   *)
FinishDone(i) ==
  /\ SetRow(i, "done")
  /\ Release(i, 1)
  /\ UNCHANGED <<due, attempt>>

HandlerReturns(i) ==
  /\ Idle /\ exec[i] > 0
  /\ exec' = [exec EXCEPT ![i] = @ - 1]
  /\ FinishDone(i)
  /\ UNCHANGED <<sessions, stamp, clock, job, handled, engine, boots, tick>>

(* markQueueRetry: another attempt after a backoff, or the dead letters.   *)
RetryOrBury(i) ==
  /\ IF attempt[i] + 1 >= MaxAttempts
     THEN SetRow(i, "dead_letter") /\ UNCHANGED <<due, attempt>>
     ELSE /\ SetRow(i, "queued")
          /\ attempt' = [attempt EXCEPT ![i] = @ + 1]
          /\ due' = [due EXCEPT ![i] = FALSE]
  /\ Release(i, 1)

(* markQueueRetry throws when the row is gone: after the finally block the *)
(* rejected promise releases the slot a second time in tick's catch.       *)
RetryOfMissingRow(i) ==
  /\ Release(i, 2)
  /\ UNCHANGED <<status, lease, due, attempt>>

HandlerThrows(i) ==
  /\ Idle /\ exec[i] > 0
  /\ exec' = [exec EXCEPT ![i] = @ - 1]
  /\ \/ ShouldTreatAsHandled(i) /\ FinishDone(i)
     \/ ~ShouldTreatAsHandled(i) /\ Exists(i) /\ RetryOrBury(i)
     \/ ~ShouldTreatAsHandled(i) /\ ~Exists(i) /\ RetryOfMissingRow(i)
  /\ UNCHANGED <<sessions, stamp, clock, job, handled, engine, boots, tick>>

-----------------------------------------------------------------------------
(* What other parts of the gateway do to the table. *)

(* createRun and enqueueQueueItem; a later available_at delays the start.  *)
Enqueue(i) ==
  /\ Up /\ Idle
  /\ status[i] = "absent" /\ SessionOf[i] \in sessions
  /\ status' = [status EXCEPT ![i] = "queued"]
  /\ due' = [due EXCEPT ![i] = i \notin RecoveryItems]
  /\ stamp' = [stamp EXCEPT ![i] = clock]
  /\ clock' = clock + 1
  /\ job' = [job EXCEPT ![i] = IF i \in RecoveryItems THEN "scheduled" ELSE @]
  /\ UNCHANGED <<sessions, lease, attempt, handled, engine, boots, slots, tick>>

(* Handler, API or watchdog write the status of the item's run.            *)
WriteRunStatus(i) ==
  /\ Up /\ Idle
  /\ status[i] \in {"queued", "processing"}
  /\ handled' = IF i \in handled THEN handled \ {i} ELSE handled \union {i}
  /\ UNCHANGED <<rows, engine, boots, slots, tick>>

(* cancelScheduledWatchdogRecoveryJobs: only a queued row is deleted.      *)
CancelRecovery(i) ==
  /\ Up /\ Idle
  /\ job[i] = "scheduled"
  /\ job' = [job EXCEPT ![i] = "cancelled"]
  /\ status' = [status EXCEPT ![i] = IF @ = "queued" THEN "deleted" ELSE @]
  /\ UNCHANGED <<sessions, due, lease, attempt, stamp, clock, handled, engine,
                 boots, slots, tick>>

(* executeDeadLetterCleanup *)
PurgeDeadLetter(i) ==
  /\ Up /\ Idle
  /\ status[i] = "dead_letter"
  /\ status' = [status EXCEPT ![i] = "deleted"]
  /\ UNCHANGED <<sessions, due, lease, attempt, stamp, clock, job, handled,
                 engine, boots, slots, tick>>

(* deleteSessionsByIds: runs, queue items and recovery jobs cascade.  The  *)
(* callers abort the adapter of an active run first, and do not wait for   *)
(* its handler to notice.                                                  *)
DeleteSession(s) ==
  /\ Up /\ Idle
  /\ s \in sessions
  /\ DeleteBusySessions \/ \A i \in Items : SessionOf[i] = s => exec[i] = 0
  /\ sessions' = sessions \ {s}
  /\ LET gone == {i \in Items : SessionOf[i] = s /\ Exists(i)}
     IN  /\ status' = [i \in Items |-> IF i \in gone THEN "deleted" ELSE status[i]]
         /\ lease' = [i \in Items |-> IF i \in gone THEN "none" ELSE lease[i]]
         /\ job' = [i \in Items |-> IF i \in gone THEN "none" ELSE job[i]]
  /\ UNCHANGED <<due, attempt, stamp, clock, handled, engine, boots, slots, tick>>

-----------------------------------------------------------------------------
(* The process. *)

(* queue.start(): the first tick runs at once.                             *)
Boot ==
  /\ engine = "down" /\ boots < MaxBoots
  /\ engine' = "running"
  /\ boots' = boots + 1
  /\ TickStarts

(* queue.stop(), called when the server closes: executions go on, the      *)
(* interval of the tick is cleared.                                        *)
Stop ==
  /\ engine = "running" /\ Idle /\ boots < MaxBoots
  /\ engine' = "stopped"
  /\ UNCHANGED <<rows, handled, boots, slots, tick>>

(* A crash at any point, or the end of the shutdown, drained or not.       *)
Exit ==
  /\ Up /\ boots < MaxBoots
  /\ engine' = "down"
  /\ exec' = [i \in Items |-> 0]
  /\ laneInFlight' = [l \in Lanes |-> 0]
  /\ sessionLocks' = {}
  /\ lanesLeft' = <<>>
  /\ batch' = {}
  /\ reserved' = {}
  /\ UNCHANGED <<rows, handled, boots>>

-----------------------------------------------------------------------------
Next ==
  \/ TickBegin \/ TickReserve \/ Boot \/ Stop \/ Exit
  \/ \E i \in Items :
       \/ BecomesDue(i) \/ LeaseLapses(i)
       \/ BounceItem(i) \/ SkipHandledItem(i) \/ StartItem(i)
       \/ Heartbeat(i) \/ HandlerReturns(i) \/ HandlerThrows(i)
       \/ Enqueue(i) \/ WriteRunStatus(i)
       \/ CancelRecovery(i) \/ PurgeDeadLetter(i)
  \/ \E s \in Sessions : DeleteSession(s)

Spec == Init /\ [][Next]_vars

(***************************************************************************)
(* Fairness: the process that goes down is started again and a shutdown    *)
(* ends (Boot, Exit); a started tick is run to completion (TickStep) and   *)
(* the interval fires again (TickBegin); time passes (BecomesDue, and      *)
(* LeaseLapses of a row nobody renews); every handler settles, since each  *)
(* runtime adapter is bounded by an execution timeout.  The last is strong *)
(* because the event loop serves a settled promise between two ticks.      *)
(***************************************************************************)
Fairness ==
  /\ WF_vars(Boot)
  /\ WF_vars(engine = "stopped" /\ Exit)
  /\ WF_vars(TickBegin)
  /\ WF_vars(TickStep)
  /\ \A i \in Items :
       /\ WF_vars(BecomesDue(i))
       /\ WF_vars(exec[i] = 0 /\ LeaseLapses(i))
       /\ SF_vars(HandlerReturns(i) \/ HandlerThrows(i))

FairSpec == Spec /\ Fairness

-----------------------------------------------------------------------------
(* Properties. *)

Executing(l) == {i \in Items : LaneOf[i] = l /\ exec[i] > 0}

(* No two handler executions of one session overlap, and no item is        *)
(* executed twice at once, whatever leases lapse, items are bounced,       *)
(* sessions deleted or processes restarted (queue-engine.test.ts:18        *)
(* "serializes same-session items").                                       *)
SessionSerialized ==
  /\ \A i \in Items : exec[i] <= 1
  /\ \A i, j \in Items :
       i # j /\ SessionOf[i] = SessionOf[j] => exec[i] = 0 \/ exec[j] = 0

(* A lane never has more executions in flight than its concurrency.        *)
LaneCapRespected == \A l \in Lanes : Cardinality(Executing(l)) <= Cap(l)

(* The lane counters never drift from the executions in flight, so that    *)
(* neither a leaked slot starves a lane nor a lost one overfills it.       *)
SlotsMatchExecutions == \A l \in Lanes : laneInFlight[l] = Cardinality(Executing(l))

(* A session is locked exactly while one of its items executes: no lock is *)
(* left behind by a bounced, skipped, failed or deleted item.              *)
LocksMatchExecutions == Idle => sessionLocks = {SessionOf[i] : i \in {j \in Items : exec[j] > 0}}

(* The row of an execution in flight cannot be settled, cancelled or       *)
(* purged under it; only the deletion of its whole session takes it away.  *)
ExecutingRowIsKept ==
  \A i \in Items : exec[i] > 0 /\ SessionOf[i] \in sessions
                     => status[i] \in {"queued", "processing"}

(* A done or buried item is never taken up again: not by a lapsed lease,   *)
(* a retry, a bounce or the restart of the process.                        *)
SettledIsFinal ==
  [][\A i \in Items : status[i] \in Settled => status'[i] \in {status[i], "deleted"}]_vars

(* docs/runbooks/queue-stall.md, "Ensure no run id disappears": work that  *)
(* was started and failed stays in the table until it settles, unless its  *)
(* session is deleted.  Cancelling a recovery job never removes it.        *)
StartedWorkIsKept ==
  [][\A i \in Items : attempt[i] > 0 /\ status[i] \in {"queued", "processing"}
        => status'[i] # "deleted" \/ SessionOf[i] \notin sessions']_vars

(* Every enqueued item on a lane the engine visits is eventually settled   *)
(* or removed: no lapsed lease, bounce or restart drops it silently        *)
(* (docs/chaos-drills.md "lease expiration requeues item").                *)
EveryItemSettles ==
  \A i \in Items : LaneOf[i] \in {LaneOrder[k] : k \in DOMAIN LaneOrder} =>
     (status[i] = "queued" ~> status[i] \in Settled \union {"deleted"})

(* The engine implements the work queue its callers rely on.               *)
AbstractPhase(i) ==
  IF exec[i] > 0 THEN IF status[i] = "deleted" THEN "orphan" ELSE "executing"
  ELSE IF status[i] = "absent" THEN "none"
  ELSE IF status[i] \in Settled THEN "settled"
  ELSE IF status[i] = "deleted" THEN "gone" ELSE "waiting"

WQ == INSTANCE WorkQueue WITH phase <- [i \in Items |-> AbstractPhase(i)]

ImplementsWorkQueue == WQ!Spec
=============================================================================
