-------------------------- MODULE ScheduleDispatcher --------------------------
(***************************************************************************)
(* Scheduled runs of the gateway: the dispatcher's tick and the "run now"  *)
(* route (packages/gateway/src/server.ts, queueTargetedScheduleRun and     *)
(* runScheduleDispatcherTick), the rows they keep                          *)
(* (packages/db/src/database.ts, schedule_jobs and schedule_run_history)   *)
(* and the part of the queue handler that reports a run's end to them      *)
(* (maybeFinalizeScheduledRun).                                            *)
(*                                                                         *)
(* A schedule targets a session of its own, so the handlers of its runs    *)
(* take turns.  Time is the flag "due": next_run_at has passed.  The       *)
(* history is kept per run: the status of the row its firing added, the    *)
(* status of the latest row a skip added in its name, and how many rows    *)
(* its schedule got after the latest row naming it, which is what the      *)
(* search for an active run depends on.                                    *)
(***************************************************************************)
EXTENDS Naturals, FiniteSets

CONSTANTS Schedules,   \* targeted schedules; the built-in ones are not dispatched
          Policy,      \* concurrencyPolicy of each
          Window,      \* history rows searched for an active run (20)
          ByHand,      \* schedules somebody also runs by hand
          MaxRuns,     \* bound: runs created by schedules
          MaxEvents    \* bound: these, crashes and changes together

ASSUME ScheduleAssumption ==
  /\ Schedules # {}
  /\ Policy \in [Schedules -> {"skip", "replace", "queue"}]
  /\ Window \in Nat \ {0}
  /\ MaxRuns \in Nat
  /\ MaxEvents \in Nat /\ MaxEvents <= MaxRuns
  /\ ByHand \subseteq Schedules

Runs     == 1..MaxRuns
Callers  == {"tick", "manual"}
Ends     == {"finished", "aborted"}   \* completed and failed are treated alike
Active   == {"queued", "running", "waiting"}
Statuses == {"none"} \cup Active \cup Ends
Rows     == {"none", "queued", "running", "skipped", "finished", "cancelled"}
Handling == {"taken", "running", "ended"}

VARIABLES exists, held,  \* schedule: the row, and paused_at set or enabled off
          agentOk,       \* schedule: its target agent is there and enabled
          due, ran,      \* schedule: next_run_at <= now; last_run_at is set
          created,       \* runs 1..created exist
          owner, status, \* run: its schedule and runs.status
          row, skip,     \* run: status of its dispatch row, of its latest skip row
          depth,         \* run: rows added after the latest one naming it
          item,          \* run: its queue item, and how far its handler is
          outcome,       \* run: the final status its handler holds
          batch, inFlight, \* the tick: due schedules read, and the guard flag
          replacing,     \* caller: the run whose abort it awaits (0: none)
          events,        \* crashes and changes so far
          revived,       \* history: runs that went from an end back to running
          instead        \* history: run whose place a run was created to take

sched  == <<exists, held, agentOk, due, ran>>
runs   == <<created, owner, status, row, skip, depth, item, outcome>>
tick   == <<batch, inFlight, replacing>>
hist   == <<revived, instead>>
vars   == <<exists, held, agentOk, due, ran, created, owner, status, row, skip,
            depth, item, outcome, batch, inFlight, replacing, events, revived, instead>>

Init ==
  /\ exists = [s \in Schedules |-> TRUE]
  /\ held = [s \in Schedules |-> FALSE]
  /\ agentOk = [s \in Schedules |-> TRUE]
  /\ due = [s \in Schedules |-> FALSE]
  /\ ran = [s \in Schedules |-> FALSE]
  /\ created = 0
  /\ owner = [r \in Runs |-> CHOOSE s \in Schedules : TRUE]
  /\ status = [r \in Runs |-> "none"]
  /\ row = [r \in Runs |-> "none"]
  /\ skip = [r \in Runs |-> "none"]
  /\ depth = [r \in Runs |-> Window]
  /\ item = [r \in Runs |-> "none"]
  /\ outcome = [r \in Runs |-> "none"]
  /\ batch = {}
  /\ inFlight = FALSE
  /\ replacing = [c \in Callers |-> 0]
  /\ events = 0
  /\ revived = {}
  /\ instead = [r \in Runs |-> 0]

-----------------------------------------------------------------------------
(* Mutants: each is a mistake the code could make, against a definition    *)
(* below.                                                                  *)

RowAddedUncapped(s, r) ==  (* RowAdded: the search has no limit to reach *)
  [q \in Runs |-> IF q = r THEN 0 ELSE IF owner[q] = s THEN depth[q] + 1 ELSE depth[q]]

VisibleWorking(s) ==  (* Visible: a run waiting for input is not active *)
  {r \in 1..created : owner[r] = s /\ status[r] \in {"queued", "running"} /\ depth[r] < Window}

ReportedAtFiring(r, f) ==  (* Reported: the row of the firing, not the latest *)
  /\ row' = IF row[r] # "none" THEN [row EXCEPT ![r] = f] ELSE row
  /\ UNCHANGED skip

UsableWhileHeld(s) == agentOk[s]  (* Usable: paused_at is not looked at again *)

ReturnsBusy(c, s) ==  (* Returns: the guard flag is never cleared *)
  /\ replacing' = [replacing EXCEPT ![c] = 0]
  /\ batch' = IF c = "tick" THEN batch \ {s} ELSE batch
  /\ UNCHANGED inFlight

-----------------------------------------------------------------------------
(* What the database and the handler are asked.                            *)

RunsOf(s) == {r \in 1..created : owner[r] = s}

\* resolveActiveScheduleRun: the newest of the last Window rows that names a
\* run still active.
Visible(s) == {r \in RunsOf(s) : status[r] \in Active /\ depth[r] < Window}
Found(s)   == {r \in Visible(s) : \A q \in Visible(s) : depth[r] <= depth[q]}

\* Another row of s, naming run r (0: none): the others are one deeper.
RowAdded(s, r) ==
  [q \in Runs |-> IF q = r THEN 0
                  ELSE IF owner[q] = s /\ depth[q] < Window THEN depth[q] + 1
                  ELSE depth[q]]

\* The status maybeFinalizeScheduledRun writes for a run's end.
Mapped(f) == IF f = "aborted" THEN "cancelled" ELSE f

\* The latest row that names r: a skip's row is newer than the firing's.
Latest(r) == IF skip[r] # "none" THEN skip[r] ELSE row[r]

\* The bound on what happens.
Room == created + events < MaxEvents

\* JavaScript runs one callback at a time: while the tick goes through its
\* batch and awaits no abort, nothing else runs (at the bound it stays there).
Idle == ~inFlight \/ replacing["tick"] # 0 \/ ~Room

-----------------------------------------------------------------------------
(* Firing: queueTargetedScheduleRun.                                       *)

\* The gateway's process ends and starts again: what only memory held is gone
\* and the queue takes back the items handlers had.
Restarted ==
  /\ batch' = {} /\ inFlight' = FALSE
  /\ replacing' = [c \in Callers |-> 0]
  /\ outcome' = [r \in Runs |-> IF item[r] \in Handling THEN "none" ELSE outcome[r]]

Reclaimed == [r \in Runs |-> IF item[r] \in Handling THEN "queued" ELSE item[r]]

\* The first k of the four writes of a firing of s - the run, the history row,
\* the queue item, the schedule's next due time - on top of the statuses, rows
\* and items given.  old is the run it replaces.
Written(s, k, old, statuses, rows, items) ==
  LET r == created + 1 IN
  /\ created < MaxRuns
  /\ created' = r
  /\ owner' = [owner EXCEPT ![r] = s]
  /\ instead' = [instead EXCEPT ![r] = old]
  /\ status' = [statuses EXCEPT ![r] = "queued"]
  /\ row' = IF k >= 2 THEN [rows EXCEPT ![r] = "queued"] ELSE rows
  /\ depth' = IF k >= 2 THEN RowAdded(s, r) ELSE depth
  /\ item' = IF k >= 3 THEN [items EXCEPT ![r] = "queued"] ELSE items
  /\ due' = IF k >= 4 THEN [due EXCEPT ![s] = FALSE] ELSE due
  /\ ran' = IF k >= 4 THEN [ran EXCEPT ![s] = TRUE] ELSE ran
  /\ UNCHANGED <<exists, held, agentOk, skip, revived>>

\* The call is over: the tick goes to its next schedule or ends.
Returns(c, s) ==
  /\ replacing' = [replacing EXCEPT ![c] = 0]
  /\ batch' = IF c = "tick" THEN batch \ {s} ELSE batch
  /\ inFlight' = IF c = "tick" THEN batch \ {s} # {} ELSE inFlight

\* The call's turn: the tick has s in its batch and awaits nothing; the route
\* has found the schedule.
Turn(c, s) ==
  /\ replacing[c] = 0
  /\ IF c = "tick" THEN s \in batch ELSE Idle /\ s \in ByHand /\ exists[s]

Usable(s) == ~held[s] /\ agentOk[s]

\* Paused or disabled, or no agent to run it: a row says so, and the schedule
\* stays due.
Blocked(c, s) ==
  /\ Turn(c, s) /\ exists[s] /\ ~Usable(s)
  /\ depth' = RowAdded(s, 0)
  /\ Returns(c, s)
  /\ UNCHANGED <<sched, hist, events, created, owner, status, row, skip, item, outcome>>

\* An active run and the policy "skip": the row names that run; the next due
\* time is counted from the last run, so a schedule that ran stays due.
Skipped(c, s) ==
  /\ Turn(c, s) /\ exists[s] /\ Usable(s) /\ Policy[s] = "skip"
  /\ \E r \in Found(s) : /\ skip' = [skip EXCEPT ![r] = "skipped"]
                         /\ depth' = RowAdded(s, r)
  /\ due' = [due EXCEPT ![s] = due[s] /\ ran[s]]
  /\ Returns(c, s)
  /\ UNCHANGED <<exists, held, agentOk, ran, hist, events,
                 created, owner, status, row, item, outcome>>

\* An active run and the policy "replace": its runtime is asked to abort it.
Replaces(c, s) ==
  /\ Turn(c, s) /\ exists[s] /\ Usable(s) /\ Policy[s] = "replace"
  /\ \E r \in Found(s) : replacing' = [replacing EXCEPT ![c] = r]
  /\ batch' = IF c = "tick" THEN batch \ {s} ELSE batch
  /\ UNCHANGED <<sched, runs, hist, events, inFlight>>

\* No active run, or one that does not matter.
MayFire(c, s) ==
  /\ Turn(c, s) /\ exists[s] /\ Usable(s)
  /\ Policy[s] = "queue" \/ Visible(s) = {}
  /\ Room

Fires(c, s) ==
  /\ MayFire(c, s)
  /\ Written(s, 4, 0, status, row, item)
  /\ Returns(c, s)
  /\ UNCHANGED <<outcome, events>>

\* The abort is over: the run is written as aborted whatever became of it, its
\* row as cancelled, and the firing goes on with the schedule as read before.
Overridden(r) == [status EXCEPT ![r] = "aborted"]
Cancelled(r)  == [row EXCEPT ![r] = "cancelled"]

Replaced(c) ==
  LET r == replacing[c]
      s == owner[r] IN
  /\ r # 0 /\ exists[s] /\ Room
  /\ c = "manual" => Idle
  /\ Written(s, 4, r, Overridden(r), Cancelled(r), item)
  /\ Returns(c, s)
  /\ UNCHANGED <<outcome, events>>

\* The rows were deleted with the schedule: closing one throws.  The route
\* answers with an error; nobody handles the tick's rejection, which ends the
\* process.
ReplacesDeleted(c) ==
  LET r == replacing[c] IN
  /\ r # 0 /\ ~exists[owner[r]]
  /\ c = "manual" => Idle
  /\ status' = Overridden(r)
  /\ IF c = "tick" THEN Restarted /\ item' = Reclaimed
     ELSE Returns(c, owner[r]) /\ UNCHANGED <<item, outcome>>
  /\ UNCHANGED <<sched, hist, events, created, owner, row, skip, depth>>

\* A schedule deleted after the tick read it is dispatched from the copy: the
\* run is created if its agent is there, and the history row has no schedule
\* to belong to, which throws.
DispatchesDeleted(s) ==
  /\ Turn("tick", s) /\ ~exists[s]
  /\ IF agentOk[s] THEN Written(s, 1, 0, status, row, Reclaimed)
     ELSE item' = Reclaimed /\ UNCHANGED <<sched, hist, created, owner, status, row, skip, depth>>
  /\ Restarted
  /\ UNCHANGED events

-----------------------------------------------------------------------------
(* The tick, and what else moves schedules: undoing a change is not counted *)
(* against the bound.                                                      *)

Change == Idle /\ Room /\ events' = events + 1

TickStarts ==
  /\ ~inFlight /\ Room
  /\ LET found == {s \in Schedules : exists[s] /\ due[s] /\ ~held[s]} IN
     /\ found # {}
     /\ batch' = found
  /\ inFlight' = TRUE
  /\ UNCHANGED <<sched, runs, hist, events, replacing>>

TimePasses(s) ==
  /\ Idle /\ exists[s] /\ ~due[s]
  /\ due' = [due EXCEPT ![s] = TRUE]
  /\ UNCHANGED <<exists, held, agentOk, ran, runs, tick, hist, events>>

Pauses(s) ==
  /\ Change /\ exists[s] /\ ~held[s]
  /\ held' = [held EXCEPT ![s] = TRUE]
  /\ UNCHANGED <<exists, agentOk, due, ran, runs, tick, hist>>

\* The next due time is counted from the last run again: what was due stays due.
Resumes(s) ==
  /\ Idle /\ exists[s] /\ held[s]
  /\ held' = [held EXCEPT ![s] = FALSE]
  /\ due' = [due EXCEPT ![s] = due[s] /\ ran[s]]
  /\ UNCHANGED <<exists, agentOk, ran, runs, tick, hist, events>>

\* The history rows go with the schedule.
Deletes(s) ==
  /\ Change /\ exists[s]
  /\ exists' = [exists EXCEPT ![s] = FALSE]
  /\ row' = [r \in Runs |-> IF owner[r] = s THEN "none" ELSE row[r]]
  /\ skip' = [r \in Runs |-> IF owner[r] = s THEN "none" ELSE skip[r]]
  /\ depth' = [r \in Runs |-> IF owner[r] = s THEN Window ELSE depth[r]]
  /\ UNCHANGED <<held, agentOk, due, ran, created, owner, status, item, outcome,
                 tick, hist>>

AgentToggles(s) ==
  /\ IF agentOk[s] THEN Change ELSE Idle /\ UNCHANGED events
  /\ agentOk' = [agentOk EXCEPT ![s] = ~agentOk[s]]
  /\ UNCHANGED <<exists, held, due, ran, runs, tick, hist>>

-----------------------------------------------------------------------------
(* The handler of a scheduled run's item, one at a time in a session; its  *)
(* retries are part of one execution.                                      *)

Step(r, from, to) ==
  /\ Idle /\ item[r] = from
  /\ item' = [item EXCEPT ![r] = to]

Untouched == UNCHANGED <<sched, created, owner, tick, events, instead>>

\* A run that has ended or waits for an operator is not executed.
Takes(r) ==
  /\ \A q \in Runs : owner[q] = owner[r] => item[q] \notin Handling
  /\ Step(r, "queued", IF status[r] \in Ends \cup {"waiting"} THEN "done" ELSE "taken")
  /\ UNCHANGED <<status, row, skip, depth, outcome, revived>>
  /\ Untouched

\* No route: the run fails, or waits for a budget; nothing is reported.
Refuses(r, f) ==
  /\ Step(r, "taken", "done")
  /\ status' = [status EXCEPT ![r] = f]
  /\ revived' = IF status[r] \in Ends /\ f = "waiting" THEN revived \cup {r} ELSE revived
  /\ UNCHANGED <<row, skip, depth, outcome>>
  /\ Untouched

\* The status is not read again after the awaits since the item was taken.
Executes(r) ==
  /\ Step(r, "taken", "running")
  /\ status' = [status EXCEPT ![r] = "running"]
  /\ revived' = IF status[r] \in Ends THEN revived \cup {r} ELSE revived
  /\ row' = IF row[r] # "none" THEN [row EXCEPT ![r] = "running"] ELSE row
  /\ UNCHANGED <<skip, depth, outcome>>
  /\ Untouched

Concludes(r, f) ==
  /\ Step(r, "running", IF f = "waiting" THEN "done" ELSE "ended")
  /\ status' = [status EXCEPT ![r] = f]
  /\ outcome' = [outcome EXCEPT ![r] = f]
  /\ revived' = IF status[r] \in Ends /\ f = "waiting" THEN revived \cup {r} ELSE revived
  /\ UNCHANGED <<row, skip, depth>>
  /\ Untouched

\* maybeFinalizeScheduledRun: into the latest row that names the run, if any.
Reported(r, f) ==
  IF skip[r] # "none" THEN skip' = [skip EXCEPT ![r] = f] /\ UNCHANGED row
  ELSE /\ row' = IF row[r] # "none" THEN [row EXCEPT ![r] = f] ELSE row
       /\ UNCHANGED skip

Reports(r) ==
  /\ Step(r, "ended", "done")
  /\ Reported(r, Mapped(outcome[r]))
  /\ UNCHANGED <<status, depth, outcome, revived>>
  /\ Untouched

\* POST /api/runs/:runId/abort writes over any status.
OperatorAborts(r) ==
  /\ Change /\ status[r] \notin {"none", "aborted"}
  /\ status' = Overridden(r)
  /\ UNCHANGED <<row, skip, depth, item, outcome, revived>>
  /\ UNCHANGED <<sched, created, owner, tick, instead>>

\* A run waiting for input is resumed over the API, to an end nobody reports.
OperatorResumes(r, f) ==
  /\ Change /\ status[r] = "waiting"
  /\ status' = [status EXCEPT ![r] = f]
  /\ UNCHANGED <<row, skip, depth, item, outcome, revived>>
  /\ UNCHANGED <<sched, created, owner, tick, instead>>

-----------------------------------------------------------------------------
(* Crashes, between two steps or between the writes of a firing.           *)

Crashes == Room /\ events' = events + 1 /\ Restarted

Crash ==
  /\ Crashes
  /\ item' = Reclaimed
  /\ UNCHANGED <<sched, created, owner, status, row, skip, depth, hist>>

CrashInFiring(c, s, k) ==
  /\ MayFire(c, s)
  /\ Written(s, k, 0, status, row, Reclaimed)
  /\ Crashes

CrashInReplacement(c, k) ==
  LET r == replacing[c] IN
  /\ r # 0 /\ exists[owner[r]]
  /\ c = "manual" => Idle
  /\ Written(owner[r], k, r, Overridden(r), Cancelled(r), Reclaimed)
  /\ Crashes

-----------------------------------------------------------------------------
Call(c) ==
  \/ \E s \in Schedules : \/ Blocked(c, s)
                          \/ Skipped(c, s)
                          \/ Replaces(c, s)
                          \/ Fires(c, s)
  \/ Replaced(c)
  \/ ReplacesDeleted(c)

Tick == TickStarts \/ Call("tick") \/ \E s \in Schedules : DispatchesDeleted(s)

Handler(r) ==
  \/ Takes(r) \/ Executes(r) \/ Reports(r)
  \/ \E f \in {"finished", "waiting"} : Refuses(r, f)
  \/ \E f \in Ends \cup {"waiting"} : Concludes(r, f)

Environment ==
  \/ Call("manual")
  \/ \E s \in Schedules : \/ TimePasses(s) \/ Pauses(s) \/ Resumes(s)
                          \/ Deletes(s) \/ AgentToggles(s)
  \/ \E r \in Runs : OperatorAborts(r) \/ \E f \in Ends : OperatorResumes(r, f)
  \/ Crash
  \/ \E c \in Callers, k \in 1..3 : \/ CrashInReplacement(c, k)
                                    \/ \E s \in Schedules : CrashInFiring(c, s, k)

Next == Tick \/ (\E r \in Runs : Handler(r)) \/ Environment

\* The dispatcher's interval runs for ever and an abort that is awaited ends;
\* the queue gives every item its turn however often the tick comes between.
Fairness == WF_vars(Tick) /\ \A r \in Runs : SF_vars(Handler(r))

Spec == Init /\ [][Next]_vars /\ Fairness

-----------------------------------------------------------------------------
TypeOK ==
  /\ exists \in [Schedules -> BOOLEAN]
  /\ held \in [Schedules -> BOOLEAN]
  /\ agentOk \in [Schedules -> BOOLEAN]
  /\ due \in [Schedules -> BOOLEAN]
  /\ ran \in [Schedules -> BOOLEAN]
  /\ created \in 0..MaxRuns
  /\ owner \in [Runs -> Schedules]
  /\ status \in [Runs -> Statuses]
  /\ row \in [Runs -> Rows]
  /\ skip \in [Runs -> Rows]
  /\ depth \in [Runs -> 0..Window]
  /\ item \in [Runs -> {"none", "queued", "done"} \cup Handling]
  /\ outcome \in [Runs -> {"none", "waiting"} \cup Ends]
  /\ batch \subseteq Schedules
  /\ inFlight \in BOOLEAN
  /\ replacing \in [Callers -> 0..MaxRuns]
  /\ events \in 0..MaxEvents
  /\ revived \subseteq Runs
  /\ instead \in [Runs -> 0..MaxRuns]

\* Some run fired after a took the place of one fired before it: a's caller
\* came in while that run's abort was awaited.
CameInBetween(a, upTo) ==
  \E d \in (a + 1)..upTo : owner[d] = owner[a] /\ instead[d] \in 1..(a - 1)

\* The concurrency policies "skip" and "replace" leave a schedule no active run
\* but its newest, except one that was lost from the rows searched, one its
\* handler wrote back to life, and one that was itself fired while another
\* caller waited for the abort of an earlier run.
OverlapHasACause ==
  \A b \in 1..created : \A a \in 1..(b - 1) :
    /\ owner[a] = owner[b] /\ Policy[owner[a]] # "queue" /\ exists[owner[a]]
    /\ status[a] \in Active
    => depth[a] = Window \/ a \in revived \/ CameInBetween(a, b)

\* What a handler wrote as the end of a run is what the latest history row
\* naming the run says once the item is done, unless the run was ended
\* differently since, or the schedule is gone with its rows.
EndIsReported ==
  \A r \in Runs :
    /\ item[r] = "done" /\ status[r] \in Ends /\ status[r] = outcome[r]
    /\ Latest(r) # "none"
    => Latest(r) = Mapped(outcome[r])

\* A schedule on hold, or deleted, gets no new run, except from a replacement
\* that was awaiting its abort or from the copy the tick had read.
HeldIsNotFired ==
  [][\A s \in Schedules :
       (\E r \in Runs : status[r] = "none" /\ status'[r] # "none" /\ owner'[r] = s)
       => \/ exists[s] /\ ~held[s]
          \/ \E c \in Callers : replacing[c] # 0 /\ owner[replacing[c]] = s
          \/ s \in batch /\ ~exists[s]]_vars

\* A run of s that the policy waits for and no handler will end: the crash
\* fell before its item was enqueued, or it waits for an operator.
Stuck(s) == \E r \in Visible(s) : item[r] = "none" \/ status[r] = "waiting"

\* A due schedule is fired: it does not stay due while it is enabled, unless a
\* run it must not overlap is stuck.
DueIsFired ==
  \A s \in Schedules :
    due[s] /\ exists[s] ~> \/ ~due[s] \/ ~exists[s] \/ ~Usable(s)
                          \/ (Policy[s] = "skip" /\ Stuck(s))
                          \/ ~Room
=============================================================================
