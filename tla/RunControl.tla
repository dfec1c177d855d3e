------------------------------ MODULE RunControl ------------------------------
(***************************************************************************)
(* The life of the runs of one lineage: a run somebody queued and the      *)
(* runs the watchdog queued to replace it, all of one session.  Four       *)
(* parties write the status of a run, none of them looks at what the       *)
(* others wrote, and each awaits something between deciding and writing:   *)
(* - the handler of the queue (packages/gateway/src/server.ts:33669),      *)
(* - the operator's calls: abort, steer and resume (server.ts:51212),      *)
(* - the watchdog's recovery actions (server.ts:33112),                    *)
(* - the reconciliation of recovery jobs at boot (server.ts:32602).        *)
(* They share the runtime adapter, which keeps one handle per run          *)
(* (packages/runtime/src/adapters.ts).                                     *)
(*                                                                         *)
(* An action runs from one await to the next.  The queue is reduced to     *)
(* what QueueEngine proves of it: the items of a session are executed one  *)
(* at a time.  Run k + 1 is created after run k, so numbers are ages.      *)
(***************************************************************************)
EXTENDS Integers, FiniteSets, FiniteSetsExt

CONSTANTS
  MaxRuns,         (* bound: runs of the lineage *)
  Hosting,         (* where agents run: "child" process, "tmux", "api" call *)
  MaxAttempts,     (* config.queue.retry.maxAttempts *)
  MaxRecoveryAttempts, (* watchdogConfig.maxRecoveryAttempts *)
  RecoveryActions, (* the watchdog actions considered *)
  Controls,        (* steer, resume or approval calls in flight at once *)
  MaxPending,      (* bound: aborts awaiting tmux at once *)
  MayThrow,        (* may a step of a handler or call throw *)
  MaxBoots         (* bound: process starts *)

Runs == 1 .. MaxRuns
AllRecoveryActions == {"retry", "escalate", "pause", "wait", "approve"}

ASSUME RunControlAssumption ==
  /\ MaxRuns \in Nat \ {0}
  /\ Hosting \in {"child", "tmux", "api"}
  /\ MaxAttempts \in Nat \ {0}
  /\ MaxRecoveryAttempts \in Nat
  /\ RecoveryActions \subseteq AllRecoveryActions
  /\ Controls \cap {"none", "launch", "aborting"} = {}
  /\ MaxPending \in Nat
  /\ MayThrow \in BOOLEAN
  /\ MaxBoots \in Nat \ {0}

VARIABLES
  (* rows *)
  born,        (* the runs created so far are 1 .. born *)
  status,      (* runs.status, "absent" before creation *)
  parent,      (* runs.supersedes_run_id, 0 for none *)
  item,        (* queue_items.status of the run's item *)
  attempt,     (* queue_items.attempt *)
  job,         (* status of the recovery job that replaces with this run *)
  jobAttempt,  (* watchdog_recovery_jobs.attempt *)
  (* memory of the process *)
  boots, up,
  active, pc, result, host, (* the handler: its run, place, result, hosting *)
  handle,      (* the adapter's processes map: who registered last, or *)
               (* "aborting": the entry is flagged and tmux is killed *)
  watched,     (* runs registered with the RuntimeWatchdog *)
  paused,      (* watchdogOperatorPauseByRunId *)
  pending,     (* aborts that await tmux, with what they do next *)
  control      (* the calls of executeRunControlAction and the approvals *)

rows   == <<born, status, parent, item, attempt, job, jobAttempt>>
worker == <<active, pc, result, host>>
memory == <<worker, handle, watched, paused, pending, control>>
vars   == <<rows, boots, up, memory>>

Live          == {"queued", "accepted", "running"}
Active        == Live \union {"waiting_input"}
Terminal      == {"completed", "failed", "aborted"}
NonReplayable == Terminal \union {"waiting_input"}

(* What an execution may come to; "retryable" and "fatal" are both failed. *)
Natural  == {"completed", "retryable", "fatal", "waiting"}
Outcomes == Natural \union {"aborted"}
StatusOf(o) ==
  IF o \in {"retryable", "fatal"} THEN "failed"
  ELSE IF o = "waiting" THEN "waiting_input" ELSE o

Aborts == [run : Runs, by : (AllRecoveryActions \ {"approve"}) \union {"operator"},
           attempt : Nat, no : Nat]
Calls  == [run : Runs \union {0}, kind : {"steer", "resume", "approve"},
           at : {"idle", "opening", "assembling", "executing"},
           host : {"none", "child", "tmux", "api"}]
NoCall == [run |-> 0, kind |-> "steer", at |-> "idle", host |-> "none"]

TypeOK ==
  /\ born \in 0 .. MaxRuns
  /\ status \in [Runs -> Active \union Terminal \union {"absent"}]
  /\ parent \in [Runs -> Runs \union {0}]
  /\ item \in [Runs -> {"absent", "queued", "processing", "done", "dead_letter", "deleted"}]
  /\ attempt \in [Runs -> 0 .. MaxAttempts - 1]
  /\ job \in [Runs -> {"none", "scheduled", "dispatched", "cancelled", "superseded"}]
  /\ jobAttempt \in [Runs -> Nat]
  /\ boots \in 0 .. MaxBoots /\ up \in BOOLEAN
  /\ active \in Runs \union {0}
  /\ pc \in {"idle", "preparing", "assembling", "executing", "settling",
             "recording", "closing"}
  /\ result \in Outcomes \union {"none"}
  /\ host \in {"none", "child", "tmux", "api"}
  /\ handle \in [Runs -> {"none", "launch", "aborting"} \union Controls]
  /\ watched \subseteq Runs
  /\ paused \subseteq Runs
  /\ pending \subseteq Aborts
  /\ control \in [Controls -> Calls]

Init ==
  /\ born = 0
  /\ status = [r \in Runs |-> "absent"]
  /\ parent = [r \in Runs |-> 0]
  /\ item = [r \in Runs |-> "absent"]
  /\ attempt = [r \in Runs |-> 0]
  /\ job = [r \in Runs |-> "none"]
  /\ jobAttempt = [r \in Runs |-> 0]
  /\ boots = 1 /\ up = TRUE
  /\ active = 0 /\ pc = "idle" /\ result = "none" /\ host = "none"
  /\ handle = [r \in Runs |-> "none"]
  /\ watched = {} /\ paused = {} /\ pending = {}
  /\ control = [c \in Controls |-> NoCall]

-----------------------------------------------------------------------------
(* Mutants: each is a mistake somebody could make in the definition named  *)
(* in its comment, and breaks a property below.                            *)

RethrownUncounted(r, s) ==  (* Rethrown: the attempts are not counted *)
  IF s \in NonReplayable THEN "done" ELSE "queued"

RethrownAsDone(r, s) == "done"  (* Rethrown: every error ends the item *)

UnregisterNothing(r, h) == handle  (* Unregister: the entry is leaked *)

WithdrawItemsNone(i, S) == i  (* WithdrawItems: the queue item is left *)

ReconciledOffHead(n) ==  (* Reconciled: the head of the lineage is not asked *)
  IF status[n] \in Terminal \/ item[n] = "dead_letter" THEN "cancelled"
  ELSE IF item[n] \in {"processing", "done"} THEN "dispatched" ELSE "scheduled"

RestoredNever(n) == FALSE  (* Restored: the lost item is not enqueued *)

NextAttemptOfFirst == 1  (* NextAttempt: the earlier jobs are not counted *)

PauseFlagsNever(p) == paused  (* PauseFlags: the handler is not told *)

LeaseExpiresNever(r) ==  (* LeaseExpires: no lease is ever released *)
  /\ up /\ item[r] = "processing" /\ active # r
  /\ UNCHANGED vars

LeaseExpiresSettled(r) ==  (* LeaseExpires: the row's status is not asked for *)
  /\ up /\ item[r] \notin {"absent", "queued"} /\ active # r
  /\ item' = [item EXCEPT ![r] = "queued"]
  /\ UNCHANGED <<born, status, parent, attempt, job, jobAttempt, boots, up, memory>>

-----------------------------------------------------------------------------
(* Lineages and recovery jobs. *)

Replacements(r) == {n \in Runs : parent[n] = r}

(* resolveLineageHeadRun: follow the latest replacement from the root.     *)
HeadFrom[r \in Runs] ==
  IF Replacements(r) = {} THEN r ELSE HeadFrom[Max(Replacements(r))]
Head == HeadFrom[1]

Scheduled == {n \in Runs : job[n] = "scheduled"}

(* cancelScheduledWatchdogRecoveryJobs, for the jobs of S: an item still   *)
(* queued is deleted, the replacement run keeps its status.                *)
Withdraw(j, S, to) == [n \in Runs |-> IF n \in S THEN to ELSE j[n]]
WithdrawItems(i, S) ==
  [n \in Runs |-> IF n \in S /\ i[n] = "queued" THEN "deleted" ELSE i[n]]

(* cancelScheduledWatchdogRecoveryJobsIfLineageTerminal *)
Obsolete(r, s) == IF s \in Terminal /\ Head = r THEN Scheduled ELSE {}

(* updateRunStatus, and the check for a lineage that has come to its end.  *)
Conclude(r, s) ==
  /\ status' = [status EXCEPT ![r] = s]
  /\ job' = Withdraw(job, Obsolete(r, s), "cancelled")
  /\ item' = WithdrawItems(item, Obsolete(r, s))

-----------------------------------------------------------------------------
(* The queue. *)

(* The first run of the lineage is created and enqueued.                   *)
EnqueueRun ==
  /\ up /\ born = 0
  /\ born' = 1
  /\ status' = [status EXCEPT ![1] = "queued"]
  /\ item' = [item EXCEPT ![1] = "queued"]
  /\ UNCHANGED <<parent, attempt, job, jobAttempt, boots, up, memory>>

(* An item whose run is already settled is done without its handler.       *)
SkipItem(r) ==
  /\ up /\ active = 0
  /\ item[r] = "queued" /\ status[r] \in NonReplayable
  /\ item' = [item EXCEPT ![r] = "done"]
  /\ UNCHANGED <<born, status, parent, attempt, job, jobAttempt, boots, up, memory>>

(* The handler up to its first await.  The recovery job is found by the id *)
(* in the payload, whatever its status.                                    *)
StartItem(r) ==
  /\ up /\ active = 0
  /\ item[r] = "queued" /\ status[r] \notin NonReplayable
  /\ item' = [item EXCEPT ![r] = "processing"]
  /\ status' = [status EXCEPT ![r] = "accepted"]
  /\ job' = [job EXCEPT ![r] = IF @ = "none" THEN @ ELSE "dispatched"]
  /\ active' = r /\ pc' = "preparing"
  /\ result' = "none" /\ host' = "none"
  /\ UNCHANGED <<born, parent, attempt, jobAttempt, boots, up, handle, watched, paused,
                 pending, control>>

(* A row left in processing by a crash comes back when its lease expires.  *)
LeaseExpires(r) ==
  /\ up /\ item[r] = "processing" /\ active # r
  /\ item' = [item EXCEPT ![r] = "queued"]
  /\ UNCHANGED <<born, status, parent, attempt, job, jobAttempt, boots, up, memory>>

HandlerEnds ==
  /\ active' = 0 /\ pc' = "idle" /\ result' = "none" /\ host' = "none"

(* runItem's catch: a settled run is done, another is retried or buried.   *)
Rethrown(r, s) ==
  IF s \in NonReplayable THEN "done"
  ELSE IF attempt[r] + 1 >= MaxAttempts THEN "dead_letter" ELSE "queued"

Throw(s) ==
  /\ item' = [item EXCEPT ![active] = Rethrown(active, s)]
  /\ attempt' = [attempt EXCEPT ![active] = IF Rethrown(active, s) = "queued" THEN @ + 1 ELSE @]
  /\ HandlerEnds

-----------------------------------------------------------------------------
(* The rest of the handler. *)

At(p) == up /\ active # 0 /\ pc = p

(* No route: out of budget (the run waits) or against policy (it fails).   *)
BlockRun(o) ==
  /\ At("preparing")
  /\ status' = [status EXCEPT ![active] = StatusOf(o)]
  /\ result' = o /\ pc' = "closing"
  /\ UNCHANGED <<born, parent, item, attempt, job, jobAttempt, boots, up, active, host,
                 handle, watched, paused, pending, control>>

(* A route is chosen: the watchdog is told and the run is running, even if *)
(* it was aborted while the handler prepared.                              *)
BeginExecution ==
  /\ At("preparing")
  /\ watched' = watched \union {active}
  /\ status' = [status EXCEPT ![active] = "running"]
  /\ pc' = "assembling"
  /\ UNCHANGED <<born, parent, item, attempt, job, jobAttempt, boots, up, active, result,
                 host, handle, paused, pending, control>>

(* tmux refuses a second session of the name, and anything else it may not *)
(* be able to start; the adapter then falls back to a child process.       *)
Hosts(tmuxTaken) ==
  IF Hosting # "tmux" THEN {Hosting} ELSE IF tmuxTaken THEN {"child"} ELSE {"child", "tmux"}

(* An approval names its session otherwise than a launch, steer or resume  *)
(* of the run does: each kind of name is taken by its own kind only.       *)
TmuxTaken(r, approving) ==
  \/ \E c \in Controls : /\ control[c].run = r /\ control[c].at = "executing"
                         /\ control[c].host = "tmux"
                         /\ approving = (control[c].kind = "approve")
  \/ ~approving /\ active = r /\ pc = "executing" /\ host = "tmux"

Launch(h) ==
  /\ At("assembling")
  /\ h \in Hosts(TmuxTaken(active, FALSE))
  /\ host' = h /\ pc' = "executing"
  /\ handle' = IF h = "api" THEN handle ELSE [handle EXCEPT ![active] = "launch"]
  /\ UNCHANGED <<rows, boots, up, active, result, watched, paused, pending, control>>

(* The prompt cannot be assembled, or the attempt is answered without the  *)
(* runtime.                                                                *)
AnswerWithoutRuntime(o) ==
  /\ At("assembling")
  /\ result' = o /\ pc' = "settling"
  /\ UNCHANGED <<rows, boots, up, active, host, handle, watched, paused, pending,
                 control>>

Unregister(r, h) == IF h = "api" THEN handle ELSE [handle EXCEPT ![r] = "none"]

(* The tmux loop gives up when it finds its entry flagged or gone, and     *)
(* leaves the entry to whoever aborts it.                                  *)
Forsaken(r, h) == h = "tmux" /\ handle[r] \in {"none", "aborting"}

(* The execution ends by itself, by its timeout or because a signal killed *)
(* the child: the entry of the run is deleted, whoever registered it.      *)
ExecutionEnds(o) ==
  /\ At("executing")
  /\ o = "aborted" => Forsaken(active, host)
  /\ result' = o /\ pc' = "settling"
  /\ handle' = IF o = "aborted" THEN handle ELSE Unregister(active, host)
  /\ UNCHANGED <<rows, boots, up, active, host, watched, paused, pending, control>>

(* Skill calls and bounded retries of the attempt loop execute again, or   *)
(* correct the result.                                                     *)
FollowUp ==
  /\ At("settling")
  /\ result \in {"completed", "retryable", "fatal"}
  /\ pc' = "assembling"
  /\ UNCHANGED <<rows, boots, up, active, result, host, handle, watched, paused,
                 pending, control>>

(* The attempt loop is over: a pause the watchdog asked for is taken, and  *)
(* the watchdog is told to forget the run.  A failure whose output asks    *)
(* for an operator pauses the run as well.                                 *)
CloseTerminal(o) ==
  /\ At("settling")
  /\ \/ active \in paused /\ o = "waiting"
     \/ active \notin paused /\ o = result
     \/ active \notin paused /\ o = "waiting" /\ result \in {"retryable", "fatal"}
     \/ active \notin paused /\ result = "completed" /\ o = "retryable"
     \/ active \notin paused /\ result = "retryable" /\ o = "completed"
  /\ result' = o /\ pc' = "recording"
  /\ paused' = paused \ {active}
  /\ watched' = watched \ {active}
  /\ UNCHANGED <<rows, boots, up, active, host, handle, pending, control>>

(* Out of quota, or a delivery nobody can see: the last corrections before *)
(* the result is written.                                                  *)
Recorded == CASE result = "completed" -> {"completed", "fatal"}
              [] result \in {"retryable", "fatal"} -> {result, "waiting"}
              [] OTHER -> {result}

(* The result is written over whatever the status has become; a failure    *)
(* with attempts left puts the run back in the queue.                      *)
RequeueRun ==
  /\ At("recording")
  /\ result = "retryable" /\ attempt[active] + 1 < MaxAttempts
  /\ status' = [status EXCEPT ![active] = "queued"]
  /\ job' = Withdraw(job, Obsolete(active, "failed"), "cancelled")
  /\ item' = [WithdrawItems(item, Obsolete(active, "failed"))
                EXCEPT ![active] = Rethrown(active, "queued")]
  /\ attempt' = [attempt EXCEPT ![active] = @ + 1]
  /\ HandlerEnds
  /\ UNCHANGED <<born, parent, jobAttempt, boots, up, handle, watched, paused, pending,
                 control>>

RecordOutcome(o) ==
  /\ At("recording")
  /\ o \in Recorded
  /\ o = "retryable" => attempt[active] + 1 >= MaxAttempts
  /\ Conclude(active, StatusOf(o))
  /\ result' = o /\ pc' = "closing"
  /\ UNCHANGED <<born, parent, attempt, jobAttempt, boots, up, active, host, handle, watched,
                 paused, pending, control>>

(* A completed run is written again once its answer is known: rejected as  *)
(* mere narration, or completed with a better summary.                     *)
CorrectOutcome(o) ==
  /\ At("closing") /\ result = "completed"
  /\ o \in {"completed", "fatal"}
  /\ status' = [status EXCEPT ![active] = StatusOf(o)]
  /\ result' = o
  /\ UNCHANGED <<born, parent, item, attempt, job, jobAttempt, boots, up, active, pc, host,
                 handle, watched, paused, pending, control>>

(* The end of the handler; a failure that was retryable is thrown.         *)
FinishItem ==
  /\ At("closing")
  /\ IF result = "retryable" THEN Throw(status[active])
     ELSE /\ item' = [item EXCEPT ![active] = "done"]
          /\ UNCHANGED attempt
          /\ HandlerEnds
  /\ UNCHANGED <<born, status, parent, job, jobAttempt, boots, up, handle, watched, paused,
                 pending, control>>

(* Any other step throws: a database, file or message error.               *)
HandlerThrows ==
  /\ MayThrow
  /\ At("preparing") \/ At("assembling") \/ At("settling") \/ At("recording") \/ At("closing")
  /\ Throw(status[active])
  /\ UNCHANGED <<born, status, parent, job, jobAttempt, boots, up, handle, watched, paused,
                 pending, control>>

-----------------------------------------------------------------------------
(* Aborts: an adapter call followed by a write. *)

Promised == Cardinality({p \in pending : p.by = "retry"})

(* The statements of abort_and_retry between two awaits, the first k of    *)
(* them: the run is aborted, its replacement, the recovery job, the jobs   *)
(* it supersedes, and the queue item that will serve it.                   *)
Recover(r, a, k) ==
  LET n == born + 1
      others == IF k >= 4 THEN Scheduled ELSE {}
  IN  /\ born' = IF k >= 2 THEN n ELSE born
      /\ status' = [status EXCEPT ![r] = "aborted", ![n] = IF k >= 2 THEN "queued" ELSE @]
      /\ parent' = [parent EXCEPT ![n] = IF k >= 2 THEN r ELSE @]
      /\ job' = [Withdraw(job, others, "superseded")
                   EXCEPT ![n] = IF k >= 3 THEN "scheduled" ELSE @]
      /\ jobAttempt' = [jobAttempt EXCEPT ![n] = IF k >= 3 THEN a ELSE @]
      /\ item' = [WithdrawItems(item, others) EXCEPT ![n] = IF k >= 5 THEN "queued" ELSE @]
      /\ UNCHANGED attempt

(* Only a pause leaves the handler a note not to write its own result.     *)
PauseFlags(p) == IF p.by = "pause" THEN paused \union {p.run} ELSE paused

(* What follows the adapter's abort.                                       *)
AfterAbort(p) ==
  \/ /\ p.by = "operator"
     /\ Conclude(p.run, "aborted")
     /\ UNCHANGED <<born, parent, attempt, jobAttempt, paused>>
  \/ /\ p.by \in {"pause", "wait", "escalate"}
     /\ status' = [status EXCEPT ![p.run] = IF p.by = "escalate" THEN "failed" ELSE "waiting_input"]
     /\ paused' = PauseFlags(p)
     /\ UNCHANGED <<born, parent, item, attempt, job, jobAttempt>>
  \/ /\ p.by = "retry"
     /\ Recover(p.run, p.attempt, 5)
     /\ UNCHANGED paused

(* Only the death of a tmux session is awaited for long.                   *)
KillsTmux(r) ==
  \/ handle[r] = "aborting"
  \/ handle[r] = "launch" /\ host = "tmux"
  \/ handle[r] \in Controls /\ control[handle[r]].host = "tmux"

(* Aborts that wait are numbered, two of a kind may overlap.               *)
FreeNumber == Min((1 .. MaxPending) \ {p.no : p \in pending})

IssueAbort(p) ==
  IF KillsTmux(p.run)
  THEN /\ Cardinality(pending) < MaxPending
       /\ pending' = pending \union {[p EXCEPT !.no = FreeNumber]}
       /\ handle' = [handle EXCEPT ![p.run] = "aborting"]
       /\ UNCHANGED <<rows, paused>>
  ELSE /\ AfterAbort(p)
       /\ handle' = [handle EXCEPT ![p.run] = "none"]
       /\ UNCHANGED pending

(* POST /api/runs/:runId/abort: no status is refused.                      *)
OperatorAborts(r) ==
  /\ up /\ status[r] # "absent"
  /\ IssueAbort([run |-> r, by |-> "operator", attempt |-> 0, no |-> 0])
  /\ UNCHANGED <<boots, up, worker, watched, control>>

NextAttempt == Max({jobAttempt[n] : n \in Runs}) + 1

(* executeWatchdogRecoveryAction of a health event, up to its first await: *)
(* a lineage that used up its recovery attempts is not retried again.      *)
WatchdogActs(r, by) ==
  /\ up /\ r \in watched /\ status[r] \in Active
  /\ by \in RecoveryActions \ {"approve"}
  /\ by = "retry" => /\ NextAttempt <= MaxRecoveryAttempts
                     /\ born + Promised < MaxRuns
  /\ IssueAbort([run |-> r, by |-> by, no |-> 0,
                 attempt |-> IF by = "retry" THEN NextAttempt ELSE 0])
  /\ UNCHANGED <<boots, up, worker, watched, control>>

(* The tmux session is gone; the entry is deleted, even if it is a new one.*)
CompleteAbort(p) ==
  /\ up /\ p \in pending
  /\ pending' = pending \ {p}
  /\ handle' = [handle EXCEPT ![p.run] = "none"]
  /\ AfterAbort(p)
  /\ UNCHANGED <<boots, up, worker, watched, control>>

-----------------------------------------------------------------------------
(* Steer, resume and the watchdog's approval: a second execution of a run, *)
(* outside the lane slot and session lock of the queue.                    *)

(* The route checks the status, then awaits the workspace directory.       *)
ControlOpens(c, r, kind) ==
  /\ up /\ control[c].at = "idle"
  /\ \/ status[r] = "waiting_input" /\ kind \in {"steer", "resume"}
     \/ status[r] = "running" /\ kind = "steer"
  /\ control' = [control EXCEPT ![c] = [run |-> r, kind |-> kind, at |-> "opening", host |-> "none"]]
  /\ UNCHANGED <<rows, boots, up, worker, handle, watched, paused, pending>>

(* The run is running again, whatever happened to it meanwhile; resuming   *)
(* cancels the recoveries scheduled for the lineage.                       *)
ControlRuns(c) ==
  /\ up /\ control[c].at = "opening"
  /\ LET S == IF control[c].kind = "resume" THEN Scheduled ELSE {}
     IN  /\ job' = Withdraw(job, S, "cancelled")
         /\ item' = WithdrawItems(item, S)
  /\ status' = [status EXCEPT ![control[c].run] = "running"]
  /\ control' = [control EXCEPT ![c].at = "assembling"]
  /\ UNCHANGED <<born, parent, attempt, jobAttempt, boots, up, worker, handle, watched,
                 paused, pending>>

ApprovalOpens(c, r) ==
  /\ up /\ control[c].at = "idle"
  /\ "approve" \in RecoveryActions /\ r \in watched /\ status[r] \in Active
  /\ control' = [control EXCEPT ![c] = [run |-> r, kind |-> "approve", at |-> "assembling",
                                        host |-> "none"]]
  /\ UNCHANGED <<rows, boots, up, worker, handle, watched, paused, pending>>

ControlExecutes(c, h) ==
  /\ up /\ control[c].at = "assembling"
  /\ LET r == control[c].run
     IN  /\ h \in Hosts(TmuxTaken(r, control[c].kind = "approve"))
         /\ handle' = IF h = "api" THEN handle ELSE [handle EXCEPT ![r] = c]
  /\ control' = [control EXCEPT ![c].at = "executing", ![c].host = h]
  /\ UNCHANGED <<rows, boots, up, worker, watched, paused, pending>>

ControlEnds(c, o) ==
  /\ up /\ control[c].at = "executing"
  /\ LET r == control[c].run
     IN  /\ o = "aborted" => Forsaken(r, control[c].host)
         /\ handle' = IF o = "aborted" THEN handle ELSE Unregister(r, control[c].host)
         /\ IF control[c].kind = "approve" THEN UNCHANGED <<status, job, item>>
            ELSE Conclude(r, StatusOf(o))
  /\ control' = [control EXCEPT ![c] = NoCall]
  /\ UNCHANGED <<born, parent, attempt, jobAttempt, boots, up, worker, watched, paused, pending>>

(* The prompt is too long for the model: the call fails without executing. *)
ControlOverflows(c) ==
  /\ up /\ control[c].at = "assembling" /\ control[c].kind # "approve"
  /\ Conclude(control[c].run, "failed")
  /\ control' = [control EXCEPT ![c] = NoCall]
  /\ UNCHANGED <<born, parent, attempt, jobAttempt, boots, up, worker, handle, watched,
                 paused, pending>>

(* The prompt cannot be assembled: the request fails, nothing is undone.   *)
ControlThrows(c) ==
  /\ MayThrow /\ up /\ control[c].at = "assembling"
  /\ control' = [control EXCEPT ![c] = NoCall]
  /\ UNCHANGED <<rows, boots, up, worker, handle, watched, paused, pending>>

-----------------------------------------------------------------------------
(* The process. *)

Forget ==
  /\ up /\ boots < MaxBoots
  /\ up' = FALSE
  /\ HandlerEnds
  /\ handle' = [r \in Runs |-> "none"]
  /\ watched' = {} /\ paused' = {} /\ pending' = {}
  /\ control' = [c \in Controls |-> NoCall]
  /\ UNCHANGED boots

Crash == Forget /\ UNCHANGED rows

(* A crash after the reservation and before the handler's first statement. *)
CrashInReservation(r) ==
  /\ up /\ active = 0 /\ item[r] = "queued"
  /\ item' = [item EXCEPT ![r] = "processing"]
  /\ UNCHANGED <<born, status, parent, attempt, job, jobAttempt>>
  /\ Forget

(* A crash between two statements of a recovery.                           *)
CrashInRecovery(r, k) ==
  /\ "retry" \in RecoveryActions /\ born < MaxRuns
  /\ \/ /\ r \in watched /\ status[r] \in Active /\ ~KillsTmux(r)
        /\ NextAttempt <= MaxRecoveryAttempts
        /\ Recover(r, NextAttempt, k)
     \/ \E p \in pending : p.run = r /\ p.by = "retry" /\ Recover(r, p.attempt, k)
  /\ Forget

(* reconcileWatchdogRecoveryJobs: what becomes of a job found scheduled.   *)
Reconciled(n) ==
  IF n # Head THEN "superseded"
  ELSE IF status[n] \in Terminal \/ item[n] = "dead_letter" THEN "cancelled"
  ELSE IF item[n] \in {"processing", "done"} THEN "dispatched" ELSE "scheduled"

(* A job still due gets its queue item again, if that was lost.            *)
Restored(n) == n \in Scheduled /\ Reconciled(n) = "scheduled"

Boot ==
  /\ ~up /\ up' = TRUE /\ boots' = boots + 1
  /\ job' = [n \in Runs |-> IF n \in Scheduled THEN Reconciled(n) ELSE job[n]]
  /\ item' = [n \in Runs |-> IF Restored(n) THEN "queued" ELSE item[n]]
  /\ UNCHANGED <<born, status, parent, attempt, jobAttempt, memory>>

-----------------------------------------------------------------------------
Handler ==
  \/ \E o \in {"fatal", "waiting"} : BlockRun(o)
  \/ BeginExecution
  \/ \E h \in {"child", "tmux", "api"} : Launch(h)
  \/ \E o \in {"completed", "retryable", "fatal"} : AnswerWithoutRuntime(o)
  \/ \E o \in Outcomes : ExecutionEnds(o) \/ CloseTerminal(o) \/ RecordOutcome(o)
  \/ FollowUp \/ RequeueRun \/ FinishItem \/ HandlerThrows
  \/ \E o \in {"completed", "fatal"} : CorrectOutcome(o)

ControlStep(c) ==
  \/ ControlRuns(c) \/ ControlOverflows(c) \/ ControlThrows(c)
  \/ \E h \in {"child", "tmux", "api"} : ControlExecutes(c, h)
  \/ \E o \in Outcomes : ControlEnds(c, o)

Next ==
  \/ EnqueueRun \/ Handler \/ Crash \/ Boot
  \/ \E r \in Runs :
       \/ SkipItem(r) \/ StartItem(r) \/ LeaseExpires(r) \/ OperatorAborts(r)
       \/ CrashInReservation(r)
       \/ \E by \in RecoveryActions : WatchdogActs(r, by)
       \/ \E k \in 1 .. 4 : CrashInRecovery(r, k)
  \/ \E p \in pending : CompleteAbort(p)
  \/ \E c \in Controls :
       \/ ControlStep(c)
       \/ \E r \in Runs :
            ApprovalOpens(c, r) \/ \E kind \in {"steer", "resume"} : ControlOpens(c, r, kind)

Spec == Init /\ [][Next]_vars

(***************************************************************************)
(* Fairness: the process is started again after a crash, expired leases    *)
(* are released by every tick, a due item is taken up when the session is  *)
(* free, and the handler goes on: every await of it is bounded by a        *)
(* timeout.  It may execute follow-ups only a bounded number of times,     *)
(* hence the strong fairness of leaving its loop.  Nothing is assumed of   *)
(* the operator, of the watchdog or of errors.                             *)
(***************************************************************************)
HandlerProceeds ==
  \/ \E o \in {"fatal", "waiting"} : BlockRun(o)
  \/ BeginExecution
  \/ \E h \in {"child", "tmux", "api"} : Launch(h)
  \/ \E o \in Outcomes : ExecutionEnds(o) \/ RecordOutcome(o)
  \/ RequeueRun \/ FinishItem

FairSpec ==
  /\ Spec
  /\ WF_vars(Boot)
  /\ WF_vars(\E r \in Runs : SkipItem(r) \/ StartItem(r))
  /\ \A r \in Runs : WF_vars(LeaseExpires(r))
  /\ WF_vars(HandlerProceeds)
  /\ SF_vars(\E o \in Outcomes : CloseTerminal(o))
-----------------------------------------------------------------------------
(* Properties. *)

(* The adapter's entry of a run belongs to an execution that is still      *)
(* going on, or to an abort that is about to delete it: no entry outlives  *)
(* its process, to make a later abort kill or wait for nobody.             *)
HandleHasOwner ==
  \A r \in Runs :
    /\ handle[r] = "launch" => active = r /\ pc = "executing"
    /\ handle[r] \in Controls => LET call == control[handle[r]]
                                IN call.run = r /\ call.at = "executing"
    /\ handle[r] = "aborting" => \E p \in pending : p.run = r

Controlled(r) == \E c \in Controls : /\ control[c].run = r
                                     /\ control[c].kind # "approve"
                                     /\ control[c].at \in {"assembling", "executing"}

(* A run that looks alive to its operator has something that will end it:  *)
(* an item in the queue or under a handler, or a steer or resume call.     *)
(* The exception is a replacement whose recovery was cancelled.            *)
LiveRunHasWork ==
  \A r \in Runs : status[r] \in Live =>
    \/ item[r] \in {"queued", "processing"} \/ Controlled(r)
    \/ job[r] \in {"cancelled", "superseded"}

(* However recoveries, restarts and requeues interleave, the lineage never *)
(* has two recovery jobs waiting: the watchdog does not fork its work.     *)
OneRecoveryAtATime == up => \A m, n \in Scheduled : m = n

(* A recovery that is promised is served: while its run can still be       *)
(* replayed, its item is in the queue - or is put back there by the boot   *)
(* that follows a crash in the middle of the recovery.                     *)
ScheduledRecoveryIsServed ==
  up => \A n \in Scheduled : status[n] \notin NonReplayable => item[n] = "queued"

(* The watchdog gives up: it never creates more replacements of a lineage  *)
(* than maxRecoveryAttempts, restarts included.                            *)
RecoveriesAreBounded ==
  Cardinality({n \in Runs : job[n] # "none"}) <= MaxRecoveryAttempts

(* A recovery job that was dispatched, cancelled or superseded stays that  *)
(* way: what was withdrawn is never started after all.                     *)
JobOutcomeIsFinal ==
  [][\A n \in Runs : job[n] \in {"dispatched", "cancelled", "superseded"}
        => job'[n] = job[n]]_vars

(* A run the watchdog paused for its operator waits: only the operator (an *)
(* abort, a steer or a resume) or another decision of the watchdog takes   *)
(* it out of waiting_input, never the handler, wherever it was when the    *)
(* run was paused.                                                         *)
Decided ==
  \/ \E r \in Runs : OperatorAborts(r) \/ \E by \in RecoveryActions : WatchdogActs(r, by)
  \/ \E r \in Runs, k \in 1 .. 4 : CrashInRecovery(r, k)
  \/ \E p \in pending : CompleteAbort(p)
  \/ \E c \in Controls : ControlRuns(c)

PausedRunAwaitsOperator ==
  [][(\E r \in Runs : status[r] = "waiting_input" /\ status'[r] # "waiting_input")
        => Decided]_vars

(* A failure whose attempts are used up ends in the dead letters.          *)
ExhaustedIsBuried ==
  [][pc = "closing" /\ result = "retryable" /\ active' = 0 /\ up'
        => item'[active] = "dead_letter"]_vars

(* Whatever is queued is settled or withdrawn in the end, over crashes,    *)
(* aborts, requeues and recoveries of the same lineage.                    *)
EveryRunSettles ==
  \A r \in Runs : item[r] = "queued" ~> item[r] \in {"done", "dead_letter", "deleted"}

(* The queue as its clients see it, one session with an item for each run. *)
Phase(r) ==
  CASE item[r] = "absent"                  -> "none"
    [] item[r] = "queued"                  -> "waiting"
    [] item[r] = "processing"              -> IF active = r THEN "executing" ELSE "waiting"
    [] item[r] \in {"done", "dead_letter"} -> "settled"
    [] item[r] = "deleted"                 -> "gone"

WQ == INSTANCE WorkQueue WITH Items <- Runs, SessionOf <- [r \in Runs |-> 1],
                              phase <- [r \in Runs |-> Phase(r)]

(* What the handler, the operator, the watchdog and a boot do to the items *)
(* is what the queue offers to its clients: no run is taken up beside      *)
(* another or comes back after it was settled or deleted, and a recovery   *)
(* that a crash cuts short leaves nothing but what a shorter call leaves.  *)
UsesWorkQueue == WQ!CallSpec
=============================================================================
