--------------------------- MODULE RunControlProofs ---------------------------
(***************************************************************************)
(* Proofs about RunControl for every value of its constants: handles,      *)
(* recoveries and their bound, outcomes, live runs, types, pauses, the use *)
(* made of the queue, and the head of a lineage.                           *)
(***************************************************************************)
EXTENDS RunControl, TLAPS, WellFoundedInduction, FiniteSetTheorems

JobStates == {"none", "scheduled", "dispatched", "cancelled", "superseded"}
ItemStates == {"absent", "queued", "processing", "done", "dead_letter", "deleted"}
RunStates == Active \union Terminal \union {"absent"}

(* The part of the types that the arguments below rest on.                 *)
Shape ==
  /\ born \in Nat
  /\ status \in [Runs -> RunStates]
  /\ item \in [Runs -> ItemStates]
  /\ job \in [Runs -> JobStates]
  /\ handle \in [Runs -> {"none", "launch", "aborting"} \union Controls]
  /\ control \in [Controls -> Calls]

(* Nobody works on run n but an operator who aborts it.                    *)
Untouched(n) ==
  /\ active # n /\ n \notin watched
  /\ \A c \in Controls : control[c].run # n
  /\ \A p \in pending : p.run = n => p.by = "operator"

(* Runs to come have no rows yet.                                          *)
UnbornIsAbsent ==
  \A n \in Runs : n > born => status[n] = "absent" /\ item[n] = "absent" /\ job[n] = "none"

WaitingIsUntouched ==
  \A n \in Runs : n > born \/ job[n] = "scheduled" => Untouched(n)

PendingIsBorn == \A p \in pending : p.run \in Runs => p.run <= born

ScheduledIsQueuedOrAborted ==
  \A n \in Runs : job[n] = "scheduled" => status[n] \in {"queued", "aborted"}

RecoveryInv ==
  /\ Shape
  /\ UnbornIsAbsent
  /\ WaitingIsUntouched
  /\ PendingIsBorn
  /\ ScheduledIsQueuedOrAborted
  /\ OneRecoveryAtATime
  /\ ScheduledRecoveryIsServed

-----------------------------------------------------------------------------
(* Withdrawing recoveries leaves only jobs that were scheduled before, and *)
(* touches no item of one that still is.                                   *)
LEMMA WithdrawTypes ==
  ASSUME Shape, NEW S, NEW to \in JobStates
  PROVE  /\ Withdraw(job, S, to) \in [Runs -> JobStates]
         /\ WithdrawItems(item, S) \in [Runs -> ItemStates]
  BY DEF Shape, Withdraw, WithdrawItems, JobStates, ItemStates

LEMMA ConcludeTypes ==
  ASSUME Shape, NEW r, NEW s \in Terminal \union {"waiting_input"}, Conclude(r, s)
  PROVE  /\ status' \in [Runs -> RunStates]
         /\ job' \in [Runs -> JobStates]
         /\ item' \in [Runs -> ItemStates]
  BY WithdrawTypes DEF Conclude, Shape, RunStates, Active, Terminal, Live, JobStates

LEMMA StatusOfTypes ==
  \A o \in Outcomes : StatusOf(o) \in Terminal \union {"waiting_input"}
  BY DEF Outcomes, Natural, StatusOf, Terminal

LEMMA RecoverTypes ==
  ASSUME Shape, NEW r, NEW a, NEW k \in Nat, Recover(r, a, k)
  PROVE  /\ born' \in Nat
         /\ status' \in [Runs -> RunStates]
         /\ job' \in [Runs -> JobStates]
         /\ item' \in [Runs -> ItemStates]
<1> DEFINE others == IF k >= 4 THEN Scheduled ELSE {}
<1>1. born' \in Nat
  BY DEF Recover, Shape
<1>2. status' \in [Runs -> RunStates]
  BY DEF Recover, Shape, RunStates, Active, Terminal, Live
<1>3. /\ Withdraw(job, others, "superseded") \in [Runs -> JobStates]
      /\ WithdrawItems(item, others) \in [Runs -> ItemStates]
  BY WithdrawTypes DEF JobStates
<1>4. job' = [Withdraw(job, others, "superseded")
                EXCEPT ![born + 1] = IF k >= 3 THEN "scheduled" ELSE @]
  BY DEF Recover
<1>5. item' = [WithdrawItems(item, others) EXCEPT ![born + 1] = IF k >= 5 THEN "queued" ELSE @]
  BY DEF Recover
<1> HIDE DEF others
<1>6. job' \in [Runs -> JobStates]
  BY <1>3, <1>4 DEF JobStates
<1>7. item' \in [Runs -> ItemStates]
  BY <1>3, <1>5 DEF ItemStates
<1>8. QED
  BY <1>1, <1>2, <1>6, <1>7

LEMMA AfterAbortTypes ==
  ASSUME Shape, NEW p, AfterAbort(p)
  PROVE  /\ born' \in Nat
         /\ status' \in [Runs -> RunStates]
         /\ job' \in [Runs -> JobStates]
         /\ item' \in [Runs -> ItemStates]
<1>1. CASE p.by = "operator" /\ Conclude(p.run, "aborted") /\ UNCHANGED born
  BY <1>1, ConcludeTypes DEF Shape, Terminal
<1>2. CASE /\ status' = [status EXCEPT ![p.run] = IF p.by = "escalate" THEN "failed"
                                                  ELSE "waiting_input"]
           /\ UNCHANGED <<born, item, job>>
  BY <1>2 DEF Shape, RunStates, Active, Terminal
<1>3. CASE Recover(p.run, p.attempt, 5)
  BY <1>3, RecoverTypes
<1>4. QED
  BY <1>1, <1>2, <1>3 DEF AfterAbort

LEMMA ThrowTypes ==
  ASSUME Shape, NEW s, Throw(s)
  PROVE  item' \in [Runs -> ItemStates]
  BY DEF Shape, Throw, Rethrown, ItemStates

LEMMA IssueAbortTypes ==
  ASSUME Shape, NEW p, IssueAbort(p), UNCHANGED control
  PROVE  Shape'
<1>1. handle' \in [Runs -> {"none", "launch", "aborting"} \union Controls]
  BY DEF IssueAbort, Shape
<1>2. CASE UNCHANGED rows
  BY <1>1, <1>2 DEF Shape, rows
<1>3. CASE AfterAbort(p)
  BY <1>1, <1>3, AfterAbortTypes DEF Shape
<1>4. QED
  BY <1>2, <1>3 DEF IssueAbort

(* Every step of the system keeps the shape, one case per action.          *)
LEMMA ShapeStep == Shape /\ [Next]_vars => Shape'
<1> SUFFICES ASSUME Shape, [Next]_vars PROVE Shape'
  OBVIOUS
<1> USE DEF rows, memory, worker, HandlerEnds
<1>1. CASE EnqueueRun
  BY <1>1 DEF EnqueueRun, Shape, RunStates, Active, Live, ItemStates
<1>2. CASE Handler
  <2>1. ASSUME NEW o \in {"fatal", "waiting"}, BlockRun(o) PROVE Shape'
    <3>1. StatusOf(o) \in RunStates
      BY <2>1 DEF StatusOf, RunStates, Active, Terminal
    <3>2. QED
      BY <2>1, <3>1 DEF BlockRun, Shape
  <2>2. CASE BeginExecution
    BY <2>2 DEF BeginExecution, Shape, RunStates, Active, Live
  <2>3. ASSUME NEW h \in {"child", "tmux", "api"}, Launch(h) PROVE Shape'
    BY <2>3 DEF Launch, Shape
  <2>4. ASSUME NEW o \in {"completed", "retryable", "fatal"}, AnswerWithoutRuntime(o)
        PROVE  Shape'
    BY <2>4 DEF AnswerWithoutRuntime, Shape
  <2>5. ASSUME NEW o \in Outcomes, ExecutionEnds(o) PROVE Shape'
    BY <2>5 DEF ExecutionEnds, Unregister, Shape
  <2>6. ASSUME NEW o \in Outcomes, CloseTerminal(o) PROVE Shape'
    BY <2>6 DEF CloseTerminal, Shape
  <2>7. ASSUME NEW o \in Outcomes, RecordOutcome(o) PROVE Shape'
    BY <2>7, StatusOfTypes, ConcludeTypes DEF RecordOutcome, Shape
  <2>8. CASE FollowUp
    BY <2>8 DEF FollowUp, Shape
  <2>9. CASE RequeueRun
    <3>1. status' \in [Runs -> RunStates]
      BY <2>9 DEF RequeueRun, Shape, RunStates, Active, Live
    <3>2. job' \in [Runs -> JobStates]
      BY <2>9, WithdrawTypes DEF RequeueRun, JobStates
    <3>3. item' \in [Runs -> ItemStates]
      <4>1. WithdrawItems(item, Obsolete(active, "failed")) \in [Runs -> ItemStates]
        BY WithdrawTypes DEF JobStates
      <4>2. Rethrown(active, "queued") \in ItemStates
        BY DEF Rethrown, ItemStates
      <4>3. QED
        BY <2>9, <4>1, <4>2 DEF RequeueRun
    <3>4. QED
      BY <2>9, <3>1, <3>2, <3>3 DEF RequeueRun, Shape
  <2>10. CASE FinishItem
    <3>1. item' \in [Runs -> ItemStates]
      BY <2>10, ThrowTypes DEF FinishItem, Shape, ItemStates
    <3>2. QED
      BY <2>10, <3>1 DEF FinishItem, Shape
  <2>11. CASE HandlerThrows
    BY <2>11, ThrowTypes DEF HandlerThrows, Shape
  <2>12. ASSUME NEW o \in {"completed", "fatal"}, CorrectOutcome(o) PROVE Shape'
    <3>1. StatusOf(o) \in RunStates
      BY <2>12 DEF StatusOf, RunStates, Terminal
    <3>2. QED
      BY <2>12, <3>1 DEF CorrectOutcome, Shape
  <2>13. QED
    BY <1>2, <2>1, <2>2, <2>3, <2>4, <2>5, <2>6, <2>7, <2>8, <2>9, <2>10, <2>11, <2>12
       DEF Handler
<1>3. ASSUME Forget PROVE /\ handle' \in [Runs -> {"none", "launch", "aborting"} \union Controls]
                          /\ control' \in [Controls -> Calls]
  BY <1>3 DEF Forget, NoCall, Calls
<1>4. CASE Crash
  BY <1>4, <1>3 DEF Crash, Shape
<1>5. CASE Boot
  BY <1>5 DEF Boot, Shape, Reconciled, JobStates, ItemStates
<1>6. ASSUME NEW r \in Runs, SkipItem(r) PROVE Shape'
  BY <1>6 DEF SkipItem, Shape, ItemStates
<1>7. ASSUME NEW r \in Runs, StartItem(r) PROVE Shape'
  BY <1>7 DEF StartItem, Shape, ItemStates, JobStates, RunStates, Active, Live
<1>8. ASSUME NEW r \in Runs, LeaseExpires(r) PROVE Shape'
  BY <1>8 DEF LeaseExpires, Shape, ItemStates
<1>9. ASSUME NEW r \in Runs, OperatorAborts(r) PROVE Shape'
  BY <1>9, IssueAbortTypes DEF OperatorAborts
<1>10. ASSUME NEW r \in Runs, CrashInReservation(r) PROVE Shape'
  BY <1>10, <1>3 DEF CrashInReservation, Shape, ItemStates
<1>11. ASSUME NEW r \in Runs, NEW by \in RecoveryActions, WatchdogActs(r, by) PROVE Shape'
  BY <1>11, IssueAbortTypes DEF WatchdogActs
<1>12. ASSUME NEW r \in Runs, NEW k \in 1 .. 4, CrashInRecovery(r, k) PROVE Shape'
  <2>1. \E a : Recover(r, a, k)
    BY <1>12 DEF CrashInRecovery
  <2>2. Forget
    BY <1>12 DEF CrashInRecovery
  <2>3. QED
    BY <2>1, <2>2, <1>3, RecoverTypes DEF Shape
<1>13. ASSUME NEW p \in pending, CompleteAbort(p) PROVE Shape'
  BY <1>13, AfterAbortTypes DEF CompleteAbort, Shape
<1>14. ASSUME NEW c \in Controls, ControlStep(c) PROVE Shape'
  <2>1. control[c] \in Calls
    BY DEF Shape
  <2>2. CASE ControlRuns(c)
    <3>1. /\ job' \in [Runs -> JobStates]
          /\ item' \in [Runs -> ItemStates]
      BY <2>2, WithdrawTypes DEF ControlRuns, JobStates
    <3>2. control' \in [Controls -> Calls]
      BY <2>2, <2>1 DEF ControlRuns, Shape, Calls
    <3>3. QED
      BY <2>2, <3>1, <3>2 DEF ControlRuns, Shape, RunStates, Active, Live
  <2>3. CASE ControlOverflows(c)
    BY <2>3, ConcludeTypes DEF ControlOverflows, Shape, NoCall, Calls, Terminal
  <2>4. CASE ControlThrows(c)
    BY <2>4 DEF ControlThrows, Shape, NoCall, Calls
  <2>5. ASSUME NEW h \in {"child", "tmux", "api"}, ControlExecutes(c, h) PROVE Shape'
    <3>1. control' \in [Controls -> Calls]
      BY <2>5, <2>1 DEF ControlExecutes, Shape, Calls
    <3>2. handle' \in [Runs -> {"none", "launch", "aborting"} \union Controls]
      BY <2>5 DEF ControlExecutes, Shape
    <3>3. QED
      BY <2>5, <3>1, <3>2 DEF ControlExecutes, Shape
  <2>6. ASSUME NEW o \in Outcomes, ControlEnds(c, o) PROVE Shape'
    <3>1. control' \in [Controls -> Calls]
      BY <2>6 DEF ControlEnds, Shape, NoCall, Calls
    <3>2. handle' \in [Runs -> {"none", "launch", "aborting"} \union Controls]
      BY <2>6 DEF ControlEnds, Unregister, Shape
    <3>3. /\ status' \in [Runs -> RunStates]
          /\ job' \in [Runs -> JobStates]
          /\ item' \in [Runs -> ItemStates]
      <4>1. CASE UNCHANGED <<status, job, item>>
        BY <4>1 DEF Shape
      <4>2. CASE Conclude(control[c].run, StatusOf(o))
        BY <4>2, ConcludeTypes, StatusOfTypes
      <4>3. QED
        BY <2>6, <4>1, <4>2 DEF ControlEnds
    <3>4. QED
      BY <2>6, <3>1, <3>2, <3>3 DEF ControlEnds, Shape
  <2>7. QED
    BY <1>14, <2>2, <2>3, <2>4, <2>5, <2>6 DEF ControlStep
<1>15. ASSUME NEW c \in Controls, NEW r \in Runs, ApprovalOpens(c, r) PROVE Shape'
  BY <1>15 DEF ApprovalOpens, Shape, Calls
<1>16. ASSUME NEW c \in Controls, NEW r \in Runs, NEW kind \in {"steer", "resume"},
              ControlOpens(c, r, kind)
       PROVE  Shape'
  BY <1>16 DEF ControlOpens, Shape, Calls
<1>17. CASE UNCHANGED vars
  BY <1>17 DEF vars, Shape
<1>18. QED
  BY <1>1, <1>2, <1>4, <1>5, <1>6, <1>7, <1>8, <1>9, <1>10, <1>11, <1>12, <1>13, <1>14,
     <1>15, <1>16, <1>17 DEF Next

-----------------------------------------------------------------------------
(* An abort that is issued, and the number it gets when it has to wait.    *)
IsRequest(p) == \E run, by, n : p = [run |-> run, by |-> by, attempt |-> n, no |-> 0]

LEMMA Renumbered ==
  ASSUME NEW p, IsRequest(p), NEW n
  PROVE  [p EXCEPT !.no = n].run = p.run /\ [p EXCEPT !.no = n].by = p.by
  BY DEF IsRequest

-----------------------------------------------------------------------------
(* Handles. *)

(* An entry is only made by an execution with a process of its own, which  *)
(* is what obliges that execution to delete it.                            *)
HandleIsHosted ==
  \A r \in Runs :
    /\ handle[r] = "launch" => host # "api"
    /\ handle[r] \in Controls => control[handle[r]].host # "api"

HandleInv == Shape /\ HandleHasOwner /\ HandleIsHosted

LEMMA NamesDiffer == /\ {"none", "launch", "aborting"} \cap Controls = {}
                     /\ 0 \notin Runs
  BY RunControlAssumption DEF Runs

(* A step that starts no execution and ends none, and registers nobody.    *)
LEMMA HandleKept ==
  ASSUME HandleInv, Shape', UNCHANGED <<active, pc, host, control, pending>>,
         \A r \in Runs : handle'[r] \in {handle[r], "none"}
  PROVE  HandleInv'
  BY NamesDiffer DEF HandleInv, HandleHasOwner, HandleIsHosted

(* A step that flags or deletes entries for the aborts in flight.          *)
LEMMA HandleAborted ==
  ASSUME HandleInv, Shape', UNCHANGED <<active, pc, host, control>>,
         \A r \in Runs : handle'[r] \in {handle[r], "none", "aborting"},
         \A r \in Runs : handle'[r] = "aborting" => \E p \in pending' : p.run = r
  PROVE  HandleInv'
  BY NamesDiffer DEF HandleInv, HandleHasOwner, HandleIsHosted

(* A step of the handler outside of its execution.                         *)
LEMMA HandlerMoves ==
  ASSUME HandleInv, Shape', pc # "executing" \/ active = 0, UNCHANGED <<handle, control, pending>>
  PROVE  HandleInv'
  BY NamesDiffer DEF HandleInv, HandleHasOwner, HandleIsHosted

(* A step of one control call that is not executing, before or after.      *)
LEMMA ControlMoves ==
  ASSUME HandleInv, Shape', NEW c \in Controls, control[c].at # "executing",
         \A d \in Controls \ {c} : control'[d] = control[d],
         UNCHANGED <<active, pc, host, handle, pending>>
  PROVE  HandleInv'
  BY NamesDiffer DEF HandleInv, HandleHasOwner, HandleIsHosted

LEMMA HandleStep == HandleInv /\ [Next]_vars => HandleInv'
<1> SUFFICES ASSUME HandleInv, [Next]_vars PROVE HandleInv'
  OBVIOUS
<1>0. Shape /\ Shape'
  BY ShapeStep DEF HandleInv
<1> USE DEF rows, memory, worker
<1>1. CASE EnqueueRun
  BY <1>0, <1>1, HandleKept DEF EnqueueRun
<1>2. CASE Handler
  <2>1. ASSUME NEW o \in {"fatal", "waiting"}, BlockRun(o) PROVE HandleInv'
    BY <1>0, <2>1, HandlerMoves DEF BlockRun, At
  <2>2. CASE BeginExecution
    BY <1>0, <2>2, HandlerMoves DEF BeginExecution, At
  <2>3. ASSUME NEW h \in {"child", "tmux", "api"}, Launch(h) PROVE HandleInv'
    <3>1. \A r \in Runs : handle[r] # "launch"
      BY <2>3 DEF HandleInv, HandleHasOwner, Launch, At
    <3>2. CASE h = "api"
      BY <1>0, <2>3, <3>1, <3>2 DEF HandleInv, HandleHasOwner, HandleIsHosted, Launch
    <3>3. CASE h # "api"
      <4>1. \A r \in Runs : handle'[r] = IF r = active THEN "launch" ELSE handle[r]
        BY <1>0, <2>3, <3>3 DEF Launch, Shape
      <4>2. active' = active /\ pc' = "executing" /\ host' = h /\ UNCHANGED <<control, pending>>
        BY <2>3 DEF Launch
      <4>3. QED
        BY <1>0, <3>1, <3>3, <4>1, <4>2, NamesDiffer
           DEF HandleInv, HandleHasOwner, HandleIsHosted
    <3>4. QED
      BY <3>2, <3>3
  <2>4. ASSUME NEW o \in {"completed", "retryable", "fatal"}, AnswerWithoutRuntime(o)
        PROVE  HandleInv'
    BY <1>0, <2>4, HandlerMoves DEF AnswerWithoutRuntime, At
  <2>5. ASSUME NEW o \in Outcomes, ExecutionEnds(o) PROVE HandleInv'
    <3>1. UNCHANGED <<active, host, control, pending>>
      BY <2>5 DEF ExecutionEnds
    <3>2. \A r \in Runs : /\ handle'[r] # "launch"
                          /\ handle'[r] \in {handle[r], "none"}
      <4>0. CASE o = "aborted"
        <5>1. handle' = handle /\ handle[active] # "launch"
          BY <2>5, <4>0 DEF ExecutionEnds, Forsaken
        <5>2. QED
          BY <5>1 DEF HandleInv, HandleHasOwner
      <4>1. CASE host = "api" /\ o # "aborted"
        BY <2>5, <4>1 DEF ExecutionEnds, Unregister, HandleInv, HandleIsHosted
      <4>2. CASE host # "api" /\ o # "aborted"
        <5>1. \A r \in Runs : handle'[r] = IF r = active THEN "none" ELSE handle[r]
          BY <1>0, <2>5, <4>2 DEF ExecutionEnds, Unregister, Shape
        <5>2. QED
          BY <5>1 DEF HandleInv, HandleHasOwner
      <4>3. QED
        BY <4>0, <4>1, <4>2
    <3>3. QED
      BY <1>0, <3>1, <3>2, NamesDiffer DEF HandleInv, HandleHasOwner, HandleIsHosted
  <2>6. ASSUME NEW o \in Outcomes, CloseTerminal(o) PROVE HandleInv'
    BY <1>0, <2>6, HandlerMoves DEF CloseTerminal, At
  <2>7. ASSUME NEW o \in Outcomes, RecordOutcome(o) PROVE HandleInv'
    BY <1>0, <2>7, HandlerMoves DEF RecordOutcome, At
  <2>8. CASE FollowUp
    BY <1>0, <2>8, HandlerMoves DEF FollowUp, At
  <2>9. CASE RequeueRun
    BY <1>0, <2>9, HandlerMoves DEF RequeueRun, At
  <2>10. CASE FinishItem
    BY <1>0, <2>10, HandlerMoves DEF FinishItem, At
  <2>11. CASE HandlerThrows
    BY <1>0, <2>11, HandlerMoves DEF HandlerThrows, At
  <2>12. ASSUME NEW o \in {"completed", "fatal"}, CorrectOutcome(o) PROVE HandleInv'
    BY <1>0, <2>12, HandlerMoves DEF CorrectOutcome, At
  <2>13. QED
    BY <1>2, <2>1, <2>2, <2>3, <2>4, <2>5, <2>6, <2>7, <2>8, <2>9, <2>10, <2>11, <2>12
       DEF Handler
<1>3. ASSUME Forget PROVE HandleInv'
  <2>1. \A r \in Runs : handle'[r] = "none"
    BY <1>3 DEF Forget
  <2>2. QED
    BY <1>0, <2>1, NamesDiffer DEF HandleInv, HandleHasOwner, HandleIsHosted
<1>4. CASE Crash
  BY <1>3, <1>4 DEF Crash
<1>5. CASE Boot
  BY <1>0, <1>5, HandleKept DEF Boot
<1>6. ASSUME NEW r \in Runs, SkipItem(r) PROVE HandleInv'
  BY <1>0, <1>6, HandleKept DEF SkipItem
<1>7. ASSUME NEW r \in Runs, StartItem(r) PROVE HandleInv'
  BY <1>0, <1>7, HandlerMoves DEF StartItem
<1>8. ASSUME NEW r \in Runs, LeaseExpires(r) PROVE HandleInv'
  BY <1>0, <1>8, HandleKept DEF LeaseExpires
<1>9. ASSUME NEW p, IsRequest(p), IssueAbort(p), UNCHANGED <<worker, control>>
      PROVE  HandleInv'
  <2>1. CASE KillsTmux(p.run)
    <3>1. \A r \in Runs : handle'[r] = IF r = p.run THEN "aborting" ELSE handle[r]
      BY <1>0, <1>9, <2>1 DEF IssueAbort, Shape
    <3>2. pending \subseteq pending' /\ \E q \in pending' : q.run = p.run
      BY <1>9, <2>1, Renumbered DEF IssueAbort
    <3>3. QED
      BY <1>0, <1>9, <3>1, <3>2, HandleAborted DEF HandleInv, HandleHasOwner
  <2>2. CASE ~KillsTmux(p.run)
    <3>1. pending' = pending /\ \A r \in Runs : handle'[r] \in {handle[r], "none"}
      BY <1>0, <1>9, <2>2 DEF IssueAbort, Shape
    <3>2. QED
      BY <1>0, <1>9, <3>1, HandleKept
  <2>3. QED
    BY <2>1, <2>2
<1>10. ASSUME NEW r \in Runs, OperatorAborts(r) PROVE HandleInv'
  BY <1>9, <1>10 DEF OperatorAborts, IsRequest
<1>11. ASSUME NEW r \in Runs, NEW by \in RecoveryActions, WatchdogActs(r, by) PROVE HandleInv'
  BY <1>9, <1>11 DEF WatchdogActs, IsRequest
<1>12. ASSUME NEW r \in Runs, CrashInReservation(r) PROVE HandleInv'
  BY <1>3, <1>12 DEF CrashInReservation
<1>13. ASSUME NEW r \in Runs, NEW k \in 1 .. 4, CrashInRecovery(r, k) PROVE HandleInv'
  BY <1>3, <1>13 DEF CrashInRecovery
<1>14. ASSUME NEW p \in pending, CompleteAbort(p) PROVE HandleInv'
  <2>1. \A r \in Runs : handle'[r] = IF r = p.run THEN "none" ELSE handle[r]
    BY <1>0, <1>14 DEF CompleteAbort, Shape
  <2>2. pending' = pending \ {p}
    BY <1>14 DEF CompleteAbort
  <2>3. \A r \in Runs : handle'[r] = "aborting" => \E q \in pending' : q.run = r
    BY <2>1, <2>2 DEF HandleInv, HandleHasOwner
  <2>4. QED
    BY <1>0, <1>14, <2>1, <2>3, HandleAborted DEF CompleteAbort
<1>15. ASSUME NEW c \in Controls, ControlStep(c) PROVE HandleInv'
  <2>1. CASE ControlRuns(c)
    BY <1>0, <2>1, ControlMoves DEF ControlRuns, Shape
  <2>2. CASE ControlOverflows(c)
    BY <1>0, <2>2, ControlMoves DEF ControlOverflows, Shape
  <2>3. CASE ControlThrows(c)
    BY <1>0, <2>3, ControlMoves DEF ControlThrows, Shape
  <2>4. ASSUME NEW h \in {"child", "tmux", "api"}, ControlExecutes(c, h) PROVE HandleInv'
    <3>1. UNCHANGED <<worker, pending>> /\ control[c].at = "assembling"
      BY <2>4 DEF ControlExecutes
    <3>2. /\ control'[c].run = control[c].run
          /\ control'[c].at = "executing"
          /\ control'[c].host = h
          /\ \A d \in Controls \ {c} : control'[d] = control[d]
      <4>1. control[c] \in Calls
        BY <1>0 DEF Shape
      <4>2. QED
        BY <1>0, <2>4, <4>1 DEF ControlExecutes, Shape, Calls
    <3>3. \A r \in Runs : handle[r] # c
      BY <3>1, NamesDiffer DEF HandleInv, HandleHasOwner
    <3>4. \A r \in Runs : \/ handle'[r] = handle[r]
                          \/ handle'[r] = c /\ r = control[c].run /\ h # "api"
      BY <1>0, <2>4 DEF ControlExecutes, Shape
    <3>5. QED
      BY <1>0, <3>1, <3>2, <3>3, <3>4, NamesDiffer
         DEF HandleInv, HandleHasOwner, HandleIsHosted
  <2>5. ASSUME NEW o \in Outcomes, ControlEnds(c, o) PROVE HandleInv'
    <3>1. /\ UNCHANGED <<worker, pending>>
          /\ \A d \in Controls \ {c} : control'[d] = control[d]
      BY <1>0, <2>5 DEF ControlEnds, Shape
    <3>2. \A r \in Runs : handle'[r] # c /\ handle'[r] \in {handle[r], "none"}
      <4>0. CASE o = "aborted"
        <5>1. handle' = handle /\ handle[control[c].run] # c
          BY <2>5, <4>0, NamesDiffer DEF ControlEnds, Forsaken
        <5>2. QED
          BY <5>1 DEF HandleInv, HandleHasOwner
      <4>1. CASE control[c].host = "api" /\ o # "aborted"
        BY <2>5, <4>1, NamesDiffer DEF ControlEnds, Unregister, HandleInv, HandleIsHosted
      <4>2. CASE control[c].host # "api" /\ o # "aborted"
        <5>1. \A r \in Runs : handle'[r] = IF r = control[c].run THEN "none" ELSE handle[r]
          BY <1>0, <2>5, <4>2 DEF ControlEnds, Unregister, Shape
        <5>2. QED
          BY <5>1, NamesDiffer DEF HandleInv, HandleHasOwner
      <4>3. QED
        BY <4>0, <4>1, <4>2
    <3>3. QED
      BY <1>0, <3>1, <3>2, NamesDiffer DEF HandleInv, HandleHasOwner, HandleIsHosted
  <2>6. QED
    BY <1>15, <2>1, <2>2, <2>3, <2>4, <2>5 DEF ControlStep
<1>16. ASSUME NEW c \in Controls, NEW r \in Runs, ApprovalOpens(c, r) PROVE HandleInv'
  BY <1>0, <1>16, ControlMoves DEF ApprovalOpens, Shape
<1>17. ASSUME NEW c \in Controls, NEW r \in Runs, NEW kind \in {"steer", "resume"},
              ControlOpens(c, r, kind)
       PROVE  HandleInv'
  BY <1>0, <1>17, ControlMoves DEF ControlOpens, Shape
<1>18. CASE UNCHANGED vars
  BY <1>0, <1>18, HandleKept DEF vars
<1>19. QED
  BY <1>1, <1>2, <1>4, <1>5, <1>6, <1>7, <1>8, <1>10, <1>11, <1>12, <1>13, <1>14, <1>15,
     <1>16, <1>17, <1>18 DEF Next

LEMMA ShapeInit == Init => Shape
  BY DEF Init, Shape, RunStates, ItemStates, JobStates, NoCall, Calls

(* Whatever aborts, steers, approvals, recoveries and crashes interleave,  *)
(* an entry of the adapter's processes map belongs to an execution that is *)
(* still going on or to an abort about to delete it: none is left behind.  *)
THEOREM HandlesAreOwned == Spec => []HandleHasOwner
<1>1. Init => HandleInv
  <2>1. Init => HandleHasOwner /\ HandleIsHosted
    BY NamesDiffer DEF Init, HandleHasOwner, HandleIsHosted
  <2>2. QED
    BY <2>1, ShapeInit DEF HandleInv
<1>2. HandleInv /\ [Next]_vars => HandleInv'
  BY HandleStep
<1>3. HandleInv => HandleHasOwner
  BY DEF HandleInv
<1>4. QED
  BY <1>1, <1>2, <1>3, PTL DEF Spec

-----------------------------------------------------------------------------
(* Recoveries. *)

(* A run to come, or one that waits for its recovery to be dispatched.     *)
Waits(n) == n > born \/ job[n] = "scheduled"

(* Nobody new works on a run: the callers go on or leave.                  *)
CallersKept ==
  /\ active' \in {active, 0}
  /\ watched' \subseteq watched \union {active}
  /\ \A c \in Controls : control'[c].run \in {control[c].run, 0}
  /\ pending' \subseteq pending

LEMMA CallersLeave ==
  ASSUME RecoveryInv, CallersKept, born' = born
  PROVE  /\ \A n \in Runs : Waits(n) => Untouched(n)'
         /\ PendingIsBorn'
<1>1. \A n \in Runs : Waits(n) => Untouched(n)
  BY DEF RecoveryInv, WaitingIsUntouched, Waits
<1>2. \A n \in Runs : Waits(n) => Untouched(n)'
  BY <1>1, NamesDiffer DEF Untouched, CallersKept
<1>3. PendingIsBorn'
  BY DEF RecoveryInv, PendingIsBorn, CallersKept
<1>4. QED
  BY <1>2, <1>3

(* What a step must do to the runs that wait: leave them alone, or abort   *)
(* them, or put their items in the queue.                                  *)
LEMMA RecoveryKept ==
  ASSUME RecoveryInv, Shape', up' => up, born' = born,
         \A n \in Runs : job'[n] = "scheduled" => job[n] = "scheduled",
         \A n \in Runs : n > born => /\ status'[n] = status[n]
                                     /\ item'[n] = item[n]
                                     /\ job'[n] = job[n],
         \A n \in Runs : Waits(n)' => Untouched(n)',
         PendingIsBorn',
         \A n \in Runs : job'[n] = "scheduled" =>
            /\ status'[n] \in {status[n], "aborted"}
            /\ \/ item'[n] \in {item[n], "queued"}
               \/ status'[n] \in NonReplayable
               \/ ~up'
  PROVE  RecoveryInv'
<1>1. UnbornIsAbsent'
  BY DEF RecoveryInv, UnbornIsAbsent
<1>2. WaitingIsUntouched'
  BY DEF WaitingIsUntouched, Waits
<1>3. ScheduledIsQueuedOrAborted'
  BY DEF RecoveryInv, ScheduledIsQueuedOrAborted
<1>4. OneRecoveryAtATime'
  BY DEF RecoveryInv, OneRecoveryAtATime, Scheduled
<1>5. ScheduledRecoveryIsServed'
  BY DEF RecoveryInv, ScheduledRecoveryIsServed, Scheduled, NonReplayable, Terminal
<1>6. QED
  BY <1>1, <1>2, <1>3, <1>4, <1>5 DEF RecoveryInv

(* Most steps write the rows of runs that do not wait, and nobody comes.   *)
LEMMA OthersWritten ==
  ASSUME RecoveryInv, Shape', up' = up, born' = born, CallersKept,
         \A n \in Runs : job'[n] = "scheduled" => job[n] = "scheduled",
         \A n \in Runs : n > born => job'[n] = job[n],
         \A n \in Runs : n > born \/ job'[n] = "scheduled" =>
            status'[n] = status[n] /\ item'[n] = item[n]
  PROVE  RecoveryInv'
<1>1. \A n \in Runs : Waits(n)' => Waits(n)
  BY DEF Waits
<1>2. (\A n \in Runs : Waits(n)' => Untouched(n)') /\ PendingIsBorn'
  BY <1>1, CallersLeave
<1>3. QED
  BY <1>2, RecoveryKept

LEMMA WithdrawKeeps ==
  ASSUME RecoveryInv, NEW S \in SUBSET Scheduled, NEW to \in {"cancelled", "superseded"},
         NEW n \in Runs
  PROVE  /\ Withdraw(job, S, to)[n] = "scheduled" =>
              job[n] = "scheduled" /\ WithdrawItems(item, S)[n] = item[n]
         /\ n > born => /\ Withdraw(job, S, to)[n] = job[n]
                        /\ WithdrawItems(item, S)[n] = item[n]
<1>1. n > born => n \notin S
  BY DEF RecoveryInv, UnbornIsAbsent, Scheduled
<1>2. QED
  BY <1>1 DEF Withdraw, WithdrawItems

LEMMA ObsoleteIsScheduled == \A r, s : Obsolete(r, s) \in SUBSET Scheduled
  BY DEF Obsolete

(* The conclusion of run r disturbs nobody who waits, except r itself.     *)
LEMMA ConcludeKeeps ==
  ASSUME RecoveryInv, NEW r, NEW s, Conclude(r, s), NEW n \in Runs
  PROVE  /\ job'[n] = "scheduled" => job[n] = "scheduled" /\ item'[n] = item[n]
         /\ n > born => job'[n] = job[n] /\ item'[n] = item[n]
         /\ n # r => status'[n] = status[n]
         /\ n = r => status'[n] = s
  BY WithdrawKeeps, ObsoleteIsScheduled DEF Conclude, RecoveryInv, Shape

(* A recovery, complete or cut off by a crash.                             *)
LEMMA RecoverKeeps ==
  ASSUME RecoveryInv, Shape', NEW r, NEW a, NEW k \in 1 .. 5, Recover(r, a, k),
         up' => up /\ k = 5,
         r \in Runs => ~Waits(r),
         \A n \in Runs : Waits(n) => Untouched(n)',
         \A p \in pending' : p \in pending \/ p.run = r
  PROVE  RecoveryInv'
<1> DEFINE n0 == born + 1
           others == IF k >= 4 THEN Scheduled ELSE {}
<1>1. /\ born \in Nat
      /\ born' = IF k >= 2 THEN n0 ELSE born
  BY DEF Recover, RecoveryInv, Shape
<1>2. n0 > born /\ (\A n \in Runs : n \in Nat /\ (n > n0 => n > born))
  BY <1>1 DEF Runs
<1>3. \A n \in Runs : status'[n] = IF n = n0 /\ k >= 2 THEN "queued"
                                   ELSE IF n = r THEN "aborted" ELSE status[n]
  <2>1. r \in Runs => r # n0
    BY <1>2 DEF Waits
  <2>2. QED
    BY <2>1 DEF Recover, RecoveryInv, Shape
<1>4. \A n \in Runs :
        /\ job'[n] = IF n = n0 /\ k >= 3 THEN "scheduled"
                     ELSE Withdraw(job, others, "superseded")[n]
        /\ item'[n] = IF n = n0 /\ k >= 5 THEN "queued" ELSE WithdrawItems(item, others)[n]
  BY DEF Recover, Withdraw, WithdrawItems
<1>5. others \in SUBSET Scheduled
  OBVIOUS
<1>6. \A n \in Runs :
        /\ Withdraw(job, others, "superseded")[n] = "scheduled" =>
             /\ job[n] = "scheduled"
             /\ WithdrawItems(item, others)[n] = item[n]
             /\ n \notin others
        /\ n > born => /\ Withdraw(job, others, "superseded")[n] = job[n]
                       /\ WithdrawItems(item, others)[n] = item[n]
  BY <1>5, WithdrawKeeps DEF Withdraw
<1>7. k = 5 => others = Scheduled
  OBVIOUS
<1> HIDE DEF n0, others
<1>8. UnbornIsAbsent'
  <2> SUFFICES ASSUME NEW n \in Runs, n > born'
               PROVE  status'[n] = "absent" /\ item'[n] = "absent" /\ job'[n] = "none"
    BY DEF UnbornIsAbsent
  <2>1. n > born /\ (k >= 2 => n # n0)
    BY <1>1, <1>2 DEF n0
  <2>2. n # r
    BY <2>1 DEF Waits
  <2>3. QED
    BY <1>3, <1>4, <1>6, <2>1, <2>2 DEF RecoveryInv, UnbornIsAbsent
<1>9. \A n \in Runs : Waits(n)' => Waits(n)
  BY <1>1, <1>2, <1>4, <1>6 DEF Waits
<1>10. WaitingIsUntouched'
  BY <1>9 DEF WaitingIsUntouched, Waits
<1>11. PendingIsBorn'
  <2> SUFFICES ASSUME NEW p \in pending', p.run \in Runs PROVE p.run <= born'
    BY DEF PendingIsBorn
  <2>1. p.run <= born
    <3>1. CASE p \in pending
      BY <3>1 DEF RecoveryInv, PendingIsBorn
    <3>2. CASE p.run = r
      BY <1>1, <1>2, <3>2 DEF Waits
    <3>3. QED
      BY <3>1, <3>2
  <2>2. QED
    BY <1>1, <1>2, <2>1 DEF n0
<1>12. ScheduledIsQueuedOrAborted'
  BY <1>3, <1>4, <1>6 DEF RecoveryInv, ScheduledIsQueuedOrAborted
<1>13. up' => \A n \in Runs : job'[n] = "scheduled" => n = n0
  BY <1>4, <1>6, <1>7 DEF Scheduled
<1>14. OneRecoveryAtATime'
  BY <1>13 DEF OneRecoveryAtATime, Scheduled
<1>15. ScheduledRecoveryIsServed'
  BY <1>4, <1>13 DEF ScheduledRecoveryIsServed, Scheduled
<1>16. QED
  BY <1>8, <1>10, <1>11, <1>12, <1>14, <1>15 DEF RecoveryInv

LEMMA UntouchedStays ==
  ASSUME RecoveryInv, CallersKept, NEW n \in Runs, Waits(n)
  PROVE  Untouched(n)'
  BY NamesDiffer DEF RecoveryInv, WaitingIsUntouched, Waits, Untouched, CallersKept

(* The writes that follow an abort of the operator, who may abort a run    *)
(* that waits, or of the watchdog, who only acts on runs it watches.       *)
LEMMA AfterAbortKeeps ==
  ASSUME RecoveryInv, Shape', NEW p, AfterAbort(p), up, up',
         p.run \in Runs => p.run <= born /\ (Waits(p.run) => p.by = "operator"),
         UNCHANGED <<active, watched, control>>, pending' \subseteq pending
  PROVE  RecoveryInv'
<1>1. CallersKept
  BY DEF CallersKept
<1>2. p.run \in Runs => ~(p.run > born)
  BY RunControlAssumption DEF Runs, RecoveryInv, Shape
<1>3. CASE p.by = "operator" /\ Conclude(p.run, "aborted") /\ UNCHANGED born
  <2>1. \A n \in Runs :
          /\ job'[n] = "scheduled" => job[n] = "scheduled" /\ item'[n] = item[n]
          /\ n > born => job'[n] = job[n] /\ item'[n] = item[n]
          /\ n # p.run => status'[n] = status[n]
          /\ n = p.run => status'[n] = "aborted"
    BY <1>3, ConcludeKeeps
  <2>2. (\A n \in Runs : Waits(n)' => Untouched(n)') /\ PendingIsBorn'
    BY <1>1, <1>3, <2>1, CallersLeave DEF Waits
  <2>3. QED
    BY <1>2, <1>3, <2>1, <2>2, RecoveryKept
<1>4. CASE /\ p.by \in {"pause", "wait", "escalate"}
           /\ \E s : status' = [status EXCEPT ![p.run] = s]
           /\ UNCHANGED <<born, item, job>>
  <2>1. \A n \in Runs : n # p.run => status'[n] = status[n]
    BY <1>4 DEF RecoveryInv, Shape
  <2>2. \A n \in Runs : Waits(n) => n # p.run
    BY <1>4
  <2>3. QED
    BY <1>1, <1>4, <2>1, <2>2, OthersWritten DEF Waits
<1>5. CASE p.by = "retry" /\ Recover(p.run, p.attempt, 5)
  <2>1. \A n \in Runs : Waits(n) => Untouched(n)'
    BY <1>1, UntouchedStays
  <2>2. p.run \in Runs => ~Waits(p.run)
    BY <1>5
  <2>3. QED
    BY <1>5, <2>1, <2>2, RecoverKeeps
<1>6. QED
  BY <1>3, <1>4, <1>5 DEF AfterAbort

LEMMA IssueAbortKeeps ==
  ASSUME RecoveryInv, NEW p, IsRequest(p), IssueAbort(p), up, up',
         p.run \in Runs => p.run <= born /\ (Waits(p.run) => p.by = "operator"),
         UNCHANGED <<active, watched, control>>
  PROVE  RecoveryInv'
<1>1. Shape'
  BY IssueAbortTypes DEF RecoveryInv
<1>2. CASE UNCHANGED rows /\ pending' = pending \union {[p EXCEPT !.no = FreeNumber]}
  <2>0. \A q \in pending' : q \in pending \/ (q.run = p.run /\ q.by = p.by)
    <3> DEFINE numbered == [p EXCEPT !.no = FreeNumber]
    <3>1. numbered.run = p.run /\ numbered.by = p.by
      BY Renumbered
    <3> HIDE DEF numbered
    <3>2. pending' = pending \union {numbered}
      BY <1>2 DEF numbered
    <3>3. QED
      BY <3>1, <3>2
  <2>1. UNCHANGED <<born, status, item, job>>
    BY <1>2 DEF rows
  <2>2. \A n \in Runs : Waits(n)' => Untouched(n)'
    BY <2>0, <2>1 DEF RecoveryInv, WaitingIsUntouched, Waits, Untouched
  <2>3. PendingIsBorn'
    BY <2>0, <2>1 DEF RecoveryInv, PendingIsBorn
  <2>4. QED
    BY <1>1, <2>1, <2>2, <2>3, RecoveryKept
<1>3. CASE AfterAbort(p) /\ UNCHANGED pending
  BY <1>1, <1>3, AfterAbortKeeps
<1>4. QED
  BY <1>2, <1>3 DEF IssueAbort

LEMMA ForgetUntouches ==
  ASSUME Forget
  PROVE  /\ up /\ ~up' /\ pending' = {}
         /\ \A n \in Runs : Untouched(n)'
  BY NamesDiffer DEF Forget, HandlerEnds, Untouched, NoCall

(* The handler works on a run that does not wait, and calls nobody else.   *)
LEMMA HandlerKeeps == RecoveryInv /\ Handler => RecoveryInv'
<1> SUFFICES ASSUME RecoveryInv, Handler PROVE RecoveryInv'
  OBVIOUS
<1>1. Shape /\ Shape'
  BY ShapeStep DEF RecoveryInv, Next
<1>2. /\ \A n \in Runs : Waits(n) => n # active
      /\ \A n \in Runs : \A s : n # active => [status EXCEPT ![active] = s][n] = status[n]
      /\ \A n \in Runs : \A s : n # active => [item EXCEPT ![active] = s][n] = item[n]
  BY <1>1 DEF Shape, RecoveryInv, WaitingIsUntouched, Waits, Untouched
<1> DEFINE Quiet ==
      /\ up' = up /\ born' = born /\ CallersKept
      /\ \A n \in Runs : job'[n] = "scheduled" => job[n] = "scheduled"
      /\ \A n \in Runs : n > born => job'[n] = job[n]
      /\ \A n \in Runs : n > born \/ job'[n] = "scheduled" =>
           status'[n] = status[n] /\ item'[n] = item[n]
<1>3. Quiet => RecoveryInv'
  BY <1>1, OthersWritten
<1> USE DEF rows, memory, worker, HandlerEnds, CallersKept
<1>4. ASSUME NEW o \in {"fatal", "waiting"}, BlockRun(o) PROVE Quiet
  BY <1>2, <1>4 DEF BlockRun, Waits
<1>5. CASE BeginExecution
  <2>1. Quiet
    BY <1>2, <1>5 DEF BeginExecution, Waits
  <2>2. QED
    BY <1>3, <2>1
<1>6. ASSUME NEW h \in {"child", "tmux", "api"}, Launch(h) PROVE Quiet
  BY <1>6 DEF Launch
<1>7. ASSUME NEW o \in {"completed", "retryable", "fatal"}, AnswerWithoutRuntime(o) PROVE Quiet
  BY <1>7 DEF AnswerWithoutRuntime
<1>8. ASSUME NEW o \in Outcomes, ExecutionEnds(o) PROVE Quiet
  BY <1>8 DEF ExecutionEnds
<1>9. ASSUME NEW o \in Outcomes, CloseTerminal(o) PROVE Quiet
  BY <1>9 DEF CloseTerminal
<1>10. ASSUME NEW o \in Outcomes, RecordOutcome(o) PROVE Quiet
  <2>1. /\ Conclude(active, StatusOf(o))
        /\ UNCHANGED <<born, up, active, watched, pending, control>>
    BY <1>10 DEF RecordOutcome
  <2>2. \A n \in Runs :
          /\ job'[n] = "scheduled" => job[n] = "scheduled" /\ item'[n] = item[n]
          /\ n > born => job'[n] = job[n] /\ item'[n] = item[n]
          /\ n # active => status'[n] = status[n]
    BY <2>1, ConcludeKeeps
  <2>3. QED
    BY <1>2, <2>1, <2>2 DEF Waits
<1>11. CASE FollowUp
  <2>1. Quiet
    BY <1>11 DEF FollowUp
  <2>2. QED
    BY <1>3, <2>1
<1>12. CASE RequeueRun
  <2> DEFINE S == Obsolete(active, "failed")
  <2>1. /\ status' = [status EXCEPT ![active] = "queued"]
        /\ job' = Withdraw(job, S, "cancelled")
        /\ item' = [WithdrawItems(item, S) EXCEPT ![active] = Rethrown(active, "queued")]
        /\ UNCHANGED <<born, up, watched, pending, control>> /\ active' = 0
    BY <1>12 DEF RequeueRun
  <2>2. S \in SUBSET Scheduled
    BY ObsoleteIsScheduled
  <2> HIDE DEF S
  <2>3. \A n \in Runs :
          /\ job'[n] = "scheduled" => job[n] = "scheduled" /\ WithdrawItems(item, S)[n] = item[n]
          /\ n > born => job'[n] = job[n] /\ WithdrawItems(item, S)[n] = item[n]
    BY <2>1, <2>2, WithdrawKeeps
  <2>4. \A n \in Runs : n # active => item'[n] = WithdrawItems(item, S)[n]
    BY <2>1 DEF WithdrawItems
  <2>5. Quiet
    BY <1>2, <2>1, <2>3, <2>4 DEF Waits
  <2>6. QED
    BY <1>3, <2>5
<1>13. CASE FinishItem
  <2>1. /\ \E i : item' = [item EXCEPT ![active] = i]
        /\ active' = 0
        /\ UNCHANGED <<born, status, job, up, watched, pending, control>>
    <3>1. CASE result = "retryable"
      BY <1>13, <3>1 DEF FinishItem, Throw
    <3>2. CASE result # "retryable"
      BY <1>13, <3>2 DEF FinishItem
    <3>3. QED
      BY <3>1, <3>2
  <2>2. Quiet
    BY <1>2, <2>1 DEF Waits
  <2>3. QED
    BY <1>3, <2>2
<1>14. CASE HandlerThrows
  <2>1. /\ item' = [item EXCEPT ![active] = Rethrown(active, status[active])]
        /\ active' = 0
        /\ UNCHANGED <<born, status, job, up, watched, pending, control>>
    BY <1>14 DEF HandlerThrows, Throw
  <2>2. Quiet
    BY <1>2, <2>1 DEF Waits
  <2>3. QED
    BY <1>3, <2>2
<1>15. ASSUME NEW o \in {"completed", "fatal"}, CorrectOutcome(o) PROVE Quiet
  BY <1>2, <1>15 DEF CorrectOutcome, Waits
<1> HIDE DEF Quiet
<1>16. QED
  BY <1>3, <1>4, <1>5, <1>6, <1>7, <1>8, <1>9, <1>10, <1>11, <1>12, <1>13, <1>14, <1>15
     DEF Handler

(* Nobody may steer, resume or approve a run that waits.                   *)
LEMMA ControlKeeps ==
  ASSUME RecoveryInv, NEW c \in Controls, ControlStep(c)
  PROVE  RecoveryInv'
<1> DEFINE r == control[c].run
<1>1. Shape /\ Shape'
  BY ShapeStep DEF RecoveryInv, Next
<1>2. \A n \in Runs : Waits(n) => n # r
  BY DEF RecoveryInv, WaitingIsUntouched, Waits, Untouched
<1>3. \A n \in Runs : \A s : n # r => [status EXCEPT ![r] = s][n] = status[n]
  BY <1>1 DEF Shape
<1>4. ASSUME \/ \E s : Conclude(r, s)
             \/ UNCHANGED <<status, job, item>>,
             UNCHANGED <<born, up, worker, watched, pending>>,
             \A d \in Controls \ {c} : control'[d] = control[d],
             control'[c].run \in {r, 0}
      PROVE  RecoveryInv'
  <2>1. CallersKept
    BY <1>1, <1>4 DEF CallersKept, Shape, worker
  <2>2. \A n \in Runs :
          /\ job'[n] = "scheduled" => job[n] = "scheduled" /\ item'[n] = item[n]
          /\ n > born => job'[n] = job[n] /\ item'[n] = item[n]
          /\ n # r => status'[n] = status[n]
    BY <1>4, ConcludeKeeps
  <2> HIDE DEF r
  <2>3. QED
    BY <1>1, <1>2, <1>4, <2>1, <2>2, OthersWritten DEF Waits
<1>5. CASE ControlRuns(c)
  <2> DEFINE S == IF control[c].kind = "resume" THEN Scheduled ELSE {}
  <2>1. /\ job' = Withdraw(job, S, "cancelled")
        /\ item' = WithdrawItems(item, S)
        /\ status' = [status EXCEPT ![r] = "running"]
        /\ UNCHANGED <<born, up, worker, watched, pending>>
    BY <1>5 DEF ControlRuns
  <2>2. S \in SUBSET Scheduled
    OBVIOUS
  <2>3. CallersKept
    BY <1>1, <1>5, <2>1 DEF CallersKept, ControlRuns, Shape, Calls, worker
  <2> HIDE DEF S, r
  <2>4. \A n \in Runs :
          /\ job'[n] = "scheduled" => job[n] = "scheduled" /\ item'[n] = item[n]
          /\ n > born => job'[n] = job[n] /\ item'[n] = item[n]
    BY <2>1, <2>2, WithdrawKeeps
  <2>5. QED
    BY <1>1, <1>2, <1>3, <2>1, <2>3, <2>4, OthersWritten DEF Waits
<1>6. ASSUME control' = [control EXCEPT ![c] = NoCall]
      PROVE  /\ \A d \in Controls \ {c} : control'[d] = control[d]
             /\ control'[c].run \in {r, 0}
  BY <1>1, <1>6 DEF Shape, NoCall
<1>7. CASE ControlOverflows(c)
  BY <1>4, <1>6, <1>7, Zenon DEF ControlOverflows
<1>8. CASE ControlThrows(c)
  BY <1>4, <1>6, <1>8 DEF ControlThrows, rows
<1>9. ASSUME NEW h \in {"child", "tmux", "api"}, ControlExecutes(c, h) PROVE RecoveryInv'
  <2>1. /\ \A d \in Controls \ {c} : control'[d] = control[d]
        /\ control'[c].run \in {r, 0}
    BY <1>1, <1>9 DEF ControlExecutes, Shape, Calls
  <2>2. UNCHANGED rows /\ UNCHANGED <<up, worker, watched, pending>>
    BY <1>9 DEF ControlExecutes
  <2>3. QED
    BY <1>4, <2>1, <2>2 DEF rows
<1>10. ASSUME NEW o \in Outcomes, ControlEnds(c, o) PROVE RecoveryInv'
  <2>1. \/ UNCHANGED <<status, job, item>>
        \/ Conclude(r, StatusOf(o))
    BY <1>10 DEF ControlEnds
  <2>2. /\ UNCHANGED <<born, up, worker, watched, pending>>
        /\ control' = [control EXCEPT ![c] = NoCall]
    BY <1>10 DEF ControlEnds
  <2>3. QED
    BY <1>4, <1>6, <2>1, <2>2
<1>11. QED
  BY <1>5, <1>7, <1>8, <1>9, <1>10 DEF ControlStep

(* Every step keeps the invariant of recoveries, one case per action.      *)
LEMMA RecoveryStep == RecoveryInv /\ [Next]_vars => RecoveryInv'
<1> SUFFICES ASSUME RecoveryInv, [Next]_vars PROVE RecoveryInv'
  OBVIOUS
<1>1. Shape /\ Shape'
  BY ShapeStep DEF RecoveryInv
<1>2. \A r \in Runs : r \in Int /\ (item[r] # "absent" \/ status[r] # "absent" => r <= born)
  BY <1>1, RunControlAssumption DEF RecoveryInv, UnbornIsAbsent, Runs, Shape
<1>3. \A n \in Runs : Waits(n) => Untouched(n)
  BY DEF RecoveryInv, WaitingIsUntouched, Waits
<1>4. born \in Nat
  BY <1>1 DEF Shape
<1> USE DEF rows, memory, worker
<1>5. CASE EnqueueRun
  <2>1. \A n \in Runs : n > born /\ job'[n] = "none" /\ (n > born' => n # 1)
    BY <1>5, RunControlAssumption DEF EnqueueRun, RecoveryInv, UnbornIsAbsent, Runs
  <2>2. \A n \in Runs : n # 1 => status'[n] = status[n] /\ item'[n] = item[n]
    BY <1>1, <1>5 DEF EnqueueRun, Shape
  <2>3. UnbornIsAbsent'
    BY <2>1, <2>2 DEF UnbornIsAbsent, RecoveryInv
  <2>4. WaitingIsUntouched'
    BY <1>3, <1>5, <2>1 DEF WaitingIsUntouched, Waits, Untouched, EnqueueRun
  <2>5. PendingIsBorn'
    <3>1. pending' = pending /\ born' = 1 /\ born = 0
      BY <1>5 DEF EnqueueRun
    <3>2. \A p \in pending : p.run \notin Runs
      BY <1>2, <2>1, <3>1 DEF PendingIsBorn, RecoveryInv
    <3>3. QED
      BY <3>1, <3>2 DEF PendingIsBorn
  <2>6. ScheduledIsQueuedOrAborted' /\ OneRecoveryAtATime' /\ ScheduledRecoveryIsServed'
    <3>1. \A n \in Runs : job'[n] # "scheduled"
      BY <2>1
    <3>2. Scheduled' = {}
      BY <3>1 DEF Scheduled
    <3>3. QED
      BY <3>1, <3>2
         DEF ScheduledIsQueuedOrAborted, OneRecoveryAtATime, ScheduledRecoveryIsServed
  <2>7. QED
    BY <1>1, <2>3, <2>4, <2>5, <2>6 DEF RecoveryInv
<1>6. CASE Handler
  BY <1>6, HandlerKeeps
<1>7. CASE Crash
  <2>1. UNCHANGED <<born, status, item, job>>
    BY <1>7 DEF Crash
  <2>2. up' => up
    BY <1>7 DEF Crash, Forget
  <2>3. (\A n \in Runs : Untouched(n)') /\ PendingIsBorn'
    BY <1>7, ForgetUntouches DEF Crash, PendingIsBorn
  <2>4. QED
    BY <1>1, <2>1, <2>2, <2>3, RecoveryKept
<1>8. CASE Boot
  <2>1. /\ ~up /\ up'
        /\ UNCHANGED <<born, status, active, watched, pending, control>>
    BY <1>8 DEF Boot
  <2>2. \A n \in Runs :
          /\ job'[n] = "scheduled" => n \in Scheduled /\ n = Head /\ item'[n] = "queued"
          /\ n \notin Scheduled => job'[n] = job[n] /\ item'[n] = item[n]
    <3>1. \A n \in Runs :
            /\ job'[n] = IF n \in Scheduled THEN Reconciled(n) ELSE job[n]
            /\ item'[n] = IF Restored(n) THEN "queued" ELSE item[n]
      BY <1>8 DEF Boot
    <3>2. \A n \in Runs : Reconciled(n) = "scheduled" => n = Head
      BY DEF Reconciled
    <3>3. QED
      BY <3>1, <3>2 DEF Restored, Scheduled
  <2>3. \A n \in Runs : n > born => n \notin Scheduled
    BY DEF RecoveryInv, UnbornIsAbsent, Scheduled
  <2>4. UnbornIsAbsent'
    BY <2>1, <2>2, <2>3 DEF RecoveryInv, UnbornIsAbsent
  <2>5. WaitingIsUntouched'
    BY <1>3, <2>1, <2>2 DEF WaitingIsUntouched, Waits, Untouched, Scheduled
  <2>6. PendingIsBorn'
    BY <2>1 DEF RecoveryInv, PendingIsBorn
  <2>7. ScheduledIsQueuedOrAborted'
    BY <2>1, <2>2 DEF RecoveryInv, ScheduledIsQueuedOrAborted, Scheduled
  <2>8. OneRecoveryAtATime' /\ ScheduledRecoveryIsServed'
    BY <2>2 DEF OneRecoveryAtATime, ScheduledRecoveryIsServed, Scheduled
  <2>9. QED
    BY <1>1, <2>4, <2>5, <2>6, <2>7, <2>8 DEF RecoveryInv
<1>9. ASSUME NEW r \in Runs, SkipItem(r) PROVE RecoveryInv'
  <2>1. /\ UNCHANGED <<born, status, job, up, active, watched, pending, control>>
        /\ r <= born /\ status'[r] \in NonReplayable
    BY <1>2, <1>9 DEF SkipItem
  <2>2. \A n \in Runs : n # r => item'[n] = item[n]
    BY <1>1, <1>9 DEF SkipItem, Shape
  <2>3. (\A n \in Runs : Waits(n)' => Untouched(n)') /\ PendingIsBorn'
    BY <2>1, CallersLeave DEF CallersKept, Waits
  <2>4. QED
    BY <1>1, <1>2, <1>4, <2>1, <2>2, <2>3, RecoveryKept
<1>10. ASSUME NEW r \in Runs, StartItem(r) PROVE RecoveryInv'
  <2>1. /\ UNCHANGED <<born, up, watched, pending, control>>
        /\ active' = r /\ r <= born /\ job'[r] # "scheduled"
    BY <1>1, <1>2, <1>10 DEF StartItem, Shape
  <2>2. \A n \in Runs : n # r => /\ item'[n] = item[n]
                                 /\ status'[n] = status[n]
                                 /\ job'[n] = job[n]
    BY <1>1, <1>10 DEF StartItem, Shape
  <2>3. \A n \in Runs : Waits(n)' => n # r /\ Waits(n)
    BY <1>2, <1>4, <2>1, <2>2 DEF Waits
  <2>4. \A n \in Runs : Waits(n)' => Untouched(n)'
    BY <1>3, <2>1, <2>3 DEF Untouched
  <2>5. PendingIsBorn'
    BY <2>1 DEF RecoveryInv, PendingIsBorn
  <2>6. QED
    BY <1>1, <1>2, <1>4, <2>1, <2>2, <2>3, <2>4, <2>5, RecoveryKept DEF Waits
<1>11. ASSUME NEW r \in Runs, LeaseExpires(r) PROVE RecoveryInv'
  <2>1. /\ UNCHANGED <<born, status, job, up, active, watched, pending, control>>
        /\ r <= born
    BY <1>2, <1>11 DEF LeaseExpires
  <2>2. \A n \in Runs : item'[n] = IF n = r THEN "queued" ELSE item[n]
    BY <1>1, <1>11 DEF LeaseExpires, Shape
  <2>3. (\A n \in Runs : Waits(n)' => Untouched(n)') /\ PendingIsBorn'
    BY <2>1, CallersLeave DEF CallersKept, Waits
  <2>4. QED
    BY <1>1, <1>2, <1>4, <2>1, <2>2, <2>3, RecoveryKept
<1>12. ASSUME NEW r \in Runs, OperatorAborts(r) PROVE RecoveryInv'
  BY <1>2, <1>12, IssueAbortKeeps DEF OperatorAborts, IsRequest
<1>13. ASSUME NEW r \in Runs, CrashInReservation(r) PROVE RecoveryInv'
  <2>1. /\ UNCHANGED <<born, status, job>> /\ r <= born /\ ~up'
        /\ (\A n \in Runs : Untouched(n)') /\ PendingIsBorn'
    BY <1>2, <1>13, ForgetUntouches DEF CrashInReservation, PendingIsBorn
  <2>2. \A n \in Runs : n # r => item'[n] = item[n]
    BY <1>1, <1>13 DEF CrashInReservation, Shape
  <2>3. QED
    BY <1>1, <1>2, <1>4, <2>1, <2>2, RecoveryKept
<1>14. ASSUME NEW r \in Runs, NEW by \in RecoveryActions, WatchdogActs(r, by)
       PROVE  RecoveryInv'
  <2>1. ~Waits(r) /\ r <= born
    BY <1>2, <1>3, <1>4, <1>14 DEF WatchdogActs, Untouched, Waits
  <2>2. QED
    BY <1>14, <2>1, IssueAbortKeeps DEF WatchdogActs, IsRequest
<1>15. ASSUME NEW r \in Runs, NEW k \in 1 .. 4, CrashInRecovery(r, k) PROVE RecoveryInv'
  <2>1. ~up' /\ pending' = {} /\ \A n \in Runs : Untouched(n)'
    BY <1>15, ForgetUntouches DEF CrashInRecovery
  <2>2. ~Waits(r) /\ \E a : Recover(r, a, k)
    BY <1>3, <1>15 DEF CrashInRecovery, Untouched
  <2>3. QED
    BY <1>1, <2>1, <2>2, RecoverKeeps
<1>16. ASSUME NEW p \in pending, CompleteAbort(p) PROVE RecoveryInv'
  <2>1. p.run \in Runs => p.run <= born /\ (Waits(p.run) => p.by = "operator")
    BY <1>3 DEF RecoveryInv, PendingIsBorn, Untouched
  <2>2. QED
    BY <1>1, <1>16, <2>1, AfterAbortKeeps DEF CompleteAbort
<1>17. ASSUME NEW c \in Controls, ControlStep(c) PROVE RecoveryInv'
  BY <1>17, ControlKeeps
<1>18. ASSUME NEW c \in Controls, NEW r \in Runs, ~Waits(r),
              \A d \in Controls : control'[d].run \in {control[d].run, r},
              UNCHANGED <<rows, up, worker, watched, pending>>
       PROVE  RecoveryInv'
  <2>1. \A n \in Runs : Waits(n)' => Untouched(n)'
    BY <1>3, <1>18 DEF Waits, Untouched
  <2>2. PendingIsBorn'
    BY <1>18 DEF RecoveryInv, PendingIsBorn
  <2>3. QED
    BY <1>1, <1>18, <2>1, <2>2, RecoveryKept
<1>19. ASSUME NEW c \in Controls, NEW r \in Runs, ApprovalOpens(c, r) PROVE RecoveryInv'
  <2>1. ~Waits(r)
    BY <1>3, <1>19 DEF ApprovalOpens, Untouched
  <2>2. \A d \in Controls : control'[d].run \in {control[d].run, r}
    BY <1>1, <1>19 DEF ApprovalOpens, Shape
  <2>3. QED
    BY <1>18, <1>19, <2>1, <2>2 DEF ApprovalOpens
<1>20. ASSUME NEW c \in Controls, NEW r \in Runs, NEW kind \in {"steer", "resume"},
              ControlOpens(c, r, kind)
       PROVE  RecoveryInv'
  <2>1. ~Waits(r)
    BY <1>20 DEF ControlOpens, RecoveryInv, UnbornIsAbsent, ScheduledIsQueuedOrAborted, Waits
  <2>2. \A d \in Controls : control'[d].run \in {control[d].run, r}
    BY <1>1, <1>20 DEF ControlOpens, Shape
  <2>3. QED
    BY <1>18, <1>20, <2>1, <2>2 DEF ControlOpens
<1>21. CASE UNCHANGED vars
  <2>1. CallersKept
    BY <1>21 DEF vars, CallersKept
  <2>2. QED
    BY <1>1, <1>21, <2>1, OthersWritten DEF vars
<1>22. QED
  BY <1>5, <1>6, <1>7, <1>8, <1>9, <1>10, <1>11, <1>12, <1>13, <1>14, <1>15, <1>16, <1>17,
     <1>19, <1>20, <1>21 DEF Next

LEMMA RecoveryInit == Init => RecoveryInv
<1> SUFFICES ASSUME Init PROVE RecoveryInv
  OBVIOUS
<1>1. UnbornIsAbsent /\ PendingIsBorn
  BY DEF Init, UnbornIsAbsent, PendingIsBorn
<1>2. WaitingIsUntouched
  BY NamesDiffer DEF Init, WaitingIsUntouched, Untouched, NoCall
<1>3. Scheduled = {} /\ ScheduledIsQueuedOrAborted
  BY DEF Init, Scheduled, ScheduledIsQueuedOrAborted
<1>4. QED
  BY <1>1, <1>2, <1>3, ShapeInit
     DEF RecoveryInv, OneRecoveryAtATime, ScheduledRecoveryIsServed

(* However recoveries, aborts, requeues and crashes interleave, in every   *)
(* hosting, a lineage never has two recovery jobs that wait for dispatch.  *)
THEOREM RecoveriesDoNotFork == Spec => []OneRecoveryAtATime
<1>1. RecoveryInv => OneRecoveryAtATime
  BY DEF RecoveryInv
<1>2. QED
  BY <1>1, RecoveryInit, RecoveryStep, PTL DEF Spec

(* A recovery job that waits while the process is up has its item in the   *)
(* queue, unless somebody aborted the run it would start, wherever a crash *)
(* cut the statements that scheduled it.                                   *)
THEOREM PromisedRecoveriesAreServed == Spec => []ScheduledRecoveryIsServed
<1>1. RecoveryInv => ScheduledRecoveryIsServed
  BY DEF RecoveryInv
<1>2. QED
  BY <1>1, RecoveryInit, RecoveryStep, PTL DEF Spec

-----------------------------------------------------------------------------
(* What was withdrawn stays withdrawn, in a process that does not crash.   *)
(* The reason is in the queue: nobody puts the item of a withdrawn job     *)
(* back, so that the handler never finds that job again.                   *)

Withdrawn == {"cancelled", "superseded"}

WithdrawnIsUnqueued ==
  \A n \in Runs :
    /\ job[n] \in Withdrawn => item[n] \notin {"queued", "processing"} /\ active # n
    /\ job[n] = "scheduled" => item[n] # "processing"

OutcomeInv == RecoveryInv /\ WithdrawnIsUnqueued /\ up /\ boots = 1

(* What a step may do to the job and the item of run n.                    *)
HandledRow(n)   == n = active /\ job'[n] = job[n]
KeptRow(n)      == job'[n] = job[n] /\ item'[n] = item[n]
SkippedRow(n)   == job'[n] = job[n] /\ item'[n] = "done" /\ status'[n] \in NonReplayable
ReleasedRow(n)  == job'[n] = job[n] /\ item[n] = "processing" /\ item'[n] = "queued"
WithdrawnRow(n) == /\ job[n] = "scheduled" /\ job'[n] \in Withdrawn
                   /\ item'[n] = IF item[n] = "queued" THEN "deleted" ELSE item[n]
NewRow(n)       == job[n] = "none" /\ job'[n] \in {"none", "scheduled"} /\ item'[n] = "queued"

RowStep(n) ==
  \/ HandledRow(n) \/ KeptRow(n) \/ SkippedRow(n)
  \/ ReleasedRow(n) \/ WithdrawnRow(n) \/ NewRow(n)

RowsStep == up' /\ boots' = boots /\ active' \in {active, 0} /\ \A n \in Runs : RowStep(n)

OutcomesKept ==
  \A n \in Runs : job[n] \in {"dispatched", "cancelled", "superseded"} => job'[n] = job[n]

(* A step that starts no run.                                              *)
LEMMA OutcomeKept ==
  ASSUME OutcomeInv, RecoveryInv', RowsStep
  PROVE  OutcomeInv' /\ OutcomesKept
<1> USE DEF RowsStep
<1>1. \A n \in Runs : /\ n # 0
                      /\ job[n] \in Withdrawn => n # active
                      /\ job[n] = "scheduled" => n # active
  BY NamesDiffer DEF OutcomeInv, WithdrawnIsUnqueued, RecoveryInv, WaitingIsUntouched, Untouched
<1>2. OutcomesKept
  BY DEF OutcomesKept, RowStep, HandledRow, KeptRow, SkippedRow, ReleasedRow, WithdrawnRow,
     NewRow
<1>3. WithdrawnIsUnqueued'
  <2> SUFFICES ASSUME NEW n \in Runs
               PROVE  /\ job'[n] \in Withdrawn =>
                           item'[n] \notin {"queued", "processing"} /\ active' # n
                      /\ job'[n] = "scheduled" => item'[n] # "processing"
    BY DEF WithdrawnIsUnqueued
  <2> USE <1>1 DEF OutcomeInv, WithdrawnIsUnqueued
  <2>1. CASE HandledRow(n)
    BY <2>1 DEF HandledRow
  <2>2. CASE KeptRow(n) \/ SkippedRow(n)
    BY <2>2 DEF KeptRow, SkippedRow
  <2>3. CASE ReleasedRow(n)
    BY <2>3 DEF ReleasedRow
  <2>4. CASE WithdrawnRow(n)
    BY <2>4 DEF WithdrawnRow
  <2>5. CASE NewRow(n)
    BY <2>5 DEF NewRow, Withdrawn
  <2>6. QED
    BY <2>1, <2>2, <2>3, <2>4, <2>5 DEF RowStep
<1>4. QED
  BY <1>2, <1>3 DEF OutcomeInv

(* Withdrawing some of the recoveries that wait.                           *)
LEMMA WithdrawRows ==
  ASSUME Shape, NEW S \in SUBSET Scheduled, NEW to \in Withdrawn, NEW n \in Runs,
         job'[n] = Withdraw(job, S, to)[n], item'[n] = WithdrawItems(item, S)[n]
  PROVE  KeptRow(n) \/ WithdrawnRow(n)
  BY DEF Shape, Withdraw, WithdrawItems, Scheduled, KeptRow, WithdrawnRow

LEMMA ConcludeRows ==
  ASSUME Shape, NEW r, NEW s, Conclude(r, s), NEW n \in Runs
  PROVE  RowStep(n)
  BY WithdrawRows, ObsoleteIsScheduled DEF Conclude, RowStep, Withdrawn

(* The writes that follow an abort, a complete recovery among them.        *)
LEMMA AfterAbortRows ==
  ASSUME RecoveryInv, NEW p, AfterAbort(p), NEW n \in Runs
  PROVE  RowStep(n)
<1>0. Shape
  BY DEF RecoveryInv
<1>1. CASE Conclude(p.run, "aborted")
  BY <1>0, <1>1, ConcludeRows
<1>2. CASE UNCHANGED <<item, job>>
  BY <1>2 DEF RowStep, KeptRow
<1>3. CASE Recover(p.run, p.attempt, 5)
  <2>1. /\ job' = [Withdraw(job, Scheduled, "superseded") EXCEPT ![born + 1] = "scheduled"]
        /\ item' = [WithdrawItems(item, Scheduled) EXCEPT ![born + 1] = "queued"]
    BY <1>3 DEF Recover
  <2>2. CASE n = born + 1
    <3>1. job[n] = "none"
      BY <1>0, <2>2 DEF RecoveryInv, UnbornIsAbsent, Shape
    <3>2. job'[n] = "scheduled" /\ item'[n] = "queued"
      BY <2>1, <2>2 DEF Withdraw, WithdrawItems
    <3>3. QED
      BY <3>1, <3>2 DEF RowStep, NewRow
  <2>3. CASE n # born + 1
    <3>1. /\ job'[n] = Withdraw(job, Scheduled, "superseded")[n]
          /\ item'[n] = WithdrawItems(item, Scheduled)[n]
      BY <2>1, <2>3 DEF Withdraw, WithdrawItems
    <3>2. QED
      BY <1>0, <3>1, WithdrawRows DEF RowStep, Withdrawn
  <2>4. QED
    BY <2>2, <2>3
<1>4. QED
  BY <1>1, <1>2, <1>3 DEF AfterAbort

(* What every step does to the rows, one case per action; a crash and a    *)
(* boot are excluded.                                                      *)
LEMMA RowsStepped ==
  ASSUME MaxBoots = 1
  PROVE  OutcomeInv /\ [Next]_vars => RowsStep \/ \E r \in Runs : StartItem(r)
<1> SUFFICES ASSUME OutcomeInv, [Next]_vars, ~\E r \in Runs : StartItem(r) PROVE RowsStep
  OBVIOUS
<1>1. RecoveryInv /\ Shape /\ up /\ boots = 1
  BY DEF OutcomeInv, RecoveryInv
<1>2. ~Forget
  BY <1>1 DEF Forget
<1> USE DEF rows, memory, worker, HandlerEnds
<1>3. ASSUME UNCHANGED <<job, item, boots, up>>, active' \in {active, 0} PROVE RowsStep
  BY <1>1, <1>3 DEF RowsStep, RowStep, KeptRow
<1>4. ASSUME \E i : item' = [item EXCEPT ![active] = i], UNCHANGED <<job, boots, up>>,
             active' \in {active, 0}
      PROVE  RowsStep
  BY <1>1, <1>4 DEF Shape, RowsStep, RowStep, HandledRow, KeptRow
<1>5. ASSUME \A n \in Runs : RowStep(n), UNCHANGED <<boots, up, active>> PROVE RowsStep
  BY <1>1, <1>5 DEF RowsStep
<1>6. CASE EnqueueRun
  <2>1. \A n \in Runs : job[n] = "none" /\ job'[n] = "none"
    BY <1>1, <1>6, RunControlAssumption DEF EnqueueRun, RecoveryInv, UnbornIsAbsent, Runs
  <2>2. \A n \in Runs : item'[n] \in {item[n], "queued"}
    BY <1>1, <1>6 DEF EnqueueRun, Shape
  <2>3. UNCHANGED <<boots, up, active>>
    BY <1>6 DEF EnqueueRun
  <2>4. QED
    BY <1>5, <2>1, <2>2, <2>3 DEF RowStep, NewRow, KeptRow
<1>7. CASE Handler
  <2>1. ASSUME NEW o \in {"fatal", "waiting"}, BlockRun(o) PROVE RowsStep
    BY <1>3, <2>1 DEF BlockRun
  <2>2. CASE BeginExecution
    BY <1>3, <2>2 DEF BeginExecution
  <2>3. ASSUME NEW h \in {"child", "tmux", "api"}, Launch(h) PROVE RowsStep
    BY <1>3, <2>3 DEF Launch
  <2>4. ASSUME NEW o \in {"completed", "retryable", "fatal"}, AnswerWithoutRuntime(o) PROVE RowsStep
    BY <1>3, <2>4 DEF AnswerWithoutRuntime
  <2>5. ASSUME NEW o \in Outcomes, ExecutionEnds(o) \/ CloseTerminal(o) PROVE RowsStep
    BY <1>3, <2>5 DEF ExecutionEnds, CloseTerminal
  <2>6. ASSUME NEW o \in Outcomes, RecordOutcome(o) PROVE RowsStep
    BY <1>1, <1>5, <2>6, ConcludeRows DEF RecordOutcome
  <2>7. CASE FollowUp
    BY <1>3, <2>7 DEF FollowUp
  <2>8. CASE RequeueRun
    <3> DEFINE S == Obsolete(active, "failed")
    <3>1. /\ job' = Withdraw(job, S, "cancelled")
          /\ item' = [WithdrawItems(item, S) EXCEPT ![active] = Rethrown(active, "queued")]
          /\ UNCHANGED <<boots, up>> /\ active' = 0
      BY <2>8 DEF RequeueRun
    <3>2. S \in SUBSET Scheduled
      BY ObsoleteIsScheduled
    <3> HIDE DEF S
    <3>3. ASSUME NEW n \in Runs PROVE RowStep(n)
      <4>1. CASE n = active
        <5>1. job[n] # "scheduled"
          BY <1>1, <4>1 DEF RecoveryInv, WaitingIsUntouched, Untouched
        <5>2. job'[n] = job[n]
          BY <3>1, <3>2, <5>1 DEF Withdraw, Scheduled
        <5>3. QED
          BY <4>1, <5>2 DEF RowStep, HandledRow
      <4>2. CASE n # active
        <5>1. /\ job'[n] = Withdraw(job, S, "cancelled")[n]
              /\ item'[n] = WithdrawItems(item, S)[n]
          BY <3>1, <4>2 DEF WithdrawItems
        <5>2. QED
          BY <1>1, <3>2, <5>1, WithdrawRows DEF RowStep, Withdrawn
      <4>3. QED
        BY <4>1, <4>2
    <3>4. QED
      BY <1>1, <3>1, <3>3 DEF RowsStep
  <2>9. CASE FinishItem
    <3>1. CASE result = "retryable"
      BY <1>4, <2>9, <3>1 DEF FinishItem, Throw
    <3>2. CASE result # "retryable"
      BY <1>4, <2>9, <3>2 DEF FinishItem
    <3>3. QED
      BY <3>1, <3>2
  <2>10. CASE HandlerThrows
    BY <1>4, <2>10 DEF HandlerThrows, Throw
  <2>11. ASSUME NEW o \in {"completed", "fatal"}, CorrectOutcome(o) PROVE RowsStep
    BY <1>3, <2>11 DEF CorrectOutcome
  <2>12. QED
    BY <1>7, <2>1, <2>2, <2>3, <2>4, <2>5, <2>6, <2>7, <2>8, <2>9, <2>10, <2>11
       DEF Handler
<1>8. ASSUME NEW r \in Runs, SkipItem(r) PROVE RowsStep
  <2>1. \A n \in Runs : KeptRow(n) \/ SkippedRow(n)
    BY <1>1, <1>8 DEF SkipItem, Shape, KeptRow, SkippedRow
  <2>2. QED
    BY <1>5, <1>8, <2>1 DEF SkipItem, RowStep
<1>9. ASSUME NEW r \in Runs, LeaseExpires(r) PROVE RowsStep
  <2>1. \A n \in Runs : KeptRow(n) \/ ReleasedRow(n)
    BY <1>1, <1>9 DEF LeaseExpires, Shape, KeptRow, ReleasedRow
  <2>2. QED
    BY <1>5, <1>9, <2>1 DEF LeaseExpires, RowStep
<1>10. ASSUME NEW p, IssueAbort(p), UNCHANGED <<boots, up, active>> PROVE RowsStep
  <2>1. CASE AfterAbort(p)
    BY <1>1, <1>5, <1>10, <2>1, AfterAbortRows
  <2>2. CASE UNCHANGED rows
    BY <1>3, <1>10, <2>2
  <2>3. QED
    BY <1>10, <2>1, <2>2 DEF IssueAbort
<1>11. ASSUME NEW r \in Runs, OperatorAborts(r) PROVE RowsStep
  BY <1>10, <1>11 DEF OperatorAborts
<1>12. ASSUME NEW r \in Runs, NEW by \in RecoveryActions, WatchdogActs(r, by) PROVE RowsStep
  BY <1>10, <1>12 DEF WatchdogActs
<1>13. ASSUME NEW p \in pending, CompleteAbort(p) PROVE RowsStep
  BY <1>1, <1>5, <1>13, AfterAbortRows DEF CompleteAbort
<1>14. ASSUME NEW c \in Controls, ControlStep(c) PROVE RowsStep
  <2>1. CASE ControlRuns(c)
    <3> DEFINE S == IF control[c].kind = "resume" THEN Scheduled ELSE {}
    <3>1. /\ job' = Withdraw(job, S, "cancelled")
          /\ item' = WithdrawItems(item, S)
          /\ UNCHANGED <<boots, up, active>>
      BY <2>1 DEF ControlRuns
    <3>2. S \in SUBSET Scheduled
      OBVIOUS
    <3> HIDE DEF S
    <3>3. \A n \in Runs : RowStep(n)
      BY <1>1, <3>1, <3>2, WithdrawRows DEF RowStep, Withdrawn
    <3>4. QED
      BY <1>5, <3>1, <3>3
  <2>2. CASE ControlOverflows(c)
    BY <1>1, <1>5, <2>2, ConcludeRows DEF ControlOverflows
  <2>3. CASE ControlThrows(c)
    BY <1>3, <2>3 DEF ControlThrows
  <2>4. ASSUME NEW h \in {"child", "tmux", "api"}, ControlExecutes(c, h) PROVE RowsStep
    BY <1>3, <2>4 DEF ControlExecutes
  <2>5. ASSUME NEW o \in Outcomes, ControlEnds(c, o) PROVE RowsStep
    <3>1. UNCHANGED <<boots, up, active>>
      BY <2>5 DEF ControlEnds
    <3>2. CASE UNCHANGED <<status, job, item>>
      BY <1>3, <3>1, <3>2
    <3>3. CASE Conclude(control[c].run, StatusOf(o))
      BY <1>1, <1>5, <3>1, <3>3, ConcludeRows
    <3>4. QED
      BY <2>5, <3>2, <3>3 DEF ControlEnds
  <2>6. QED
    BY <1>14, <2>1, <2>2, <2>3, <2>4, <2>5 DEF ControlStep
<1>15. ASSUME NEW c \in Controls, NEW r \in Runs,
              ApprovalOpens(c, r) \/ \E kind \in {"steer", "resume"} : ControlOpens(c, r, kind)
       PROVE  RowsStep
  BY <1>3, <1>15 DEF ApprovalOpens, ControlOpens
<1>16. CASE UNCHANGED vars
  BY <1>3, <1>16 DEF vars
<1>17. ~Crash /\ ~Boot /\ \A r \in Runs : ~CrashInReservation(r) /\ \A k : ~CrashInRecovery(r, k)
  BY <1>1, <1>2 DEF Crash, Boot, CrashInReservation, CrashInRecovery
<1>18. QED
  BY <1>6, <1>7, <1>8, <1>9, <1>11, <1>12, <1>13, <1>14, <1>15, <1>16, <1>17
     DEF Next

(* Every step keeps the invariant, and the outcomes.                       *)
LEMMA OutcomeStep ==
  ASSUME MaxBoots = 1
  PROVE  OutcomeInv /\ [Next]_vars => OutcomeInv' /\ OutcomesKept
<1> SUFFICES ASSUME OutcomeInv, [Next]_vars PROVE OutcomeInv' /\ OutcomesKept
  OBVIOUS
<1>1. RecoveryInv' /\ Shape /\ up /\ boots = 1
  BY RecoveryStep DEF OutcomeInv, RecoveryInv
<1>2. CASE RowsStep
  BY <1>1, <1>2, OutcomeKept
<1>3. ASSUME NEW r \in Runs, StartItem(r) PROVE OutcomeInv' /\ OutcomesKept
  <2>1. /\ item[r] = "queued" /\ active' = r /\ UNCHANGED <<boots, up>>
        /\ \A n \in Runs : n # r => job'[n] = job[n] /\ item'[n] = item[n]
        /\ job'[r] = IF job[r] = "none" THEN "none" ELSE "dispatched"
    BY <1>1, <1>3 DEF StartItem, Shape
  <2>2. job[r] \notin Withdrawn
    BY <2>1 DEF OutcomeInv, WithdrawnIsUnqueued
  <2>3. OutcomesKept
    BY <2>1, <2>2 DEF OutcomesKept, Withdrawn
  <2>4. WithdrawnIsUnqueued'
    BY <2>1, <2>2 DEF OutcomeInv, WithdrawnIsUnqueued, Withdrawn
  <2>5. QED
    BY <1>1, <2>1, <2>3, <2>4 DEF OutcomeInv
<1>4. QED
  BY <1>2, <1>3, RowsStepped

(* Until the process crashes, a recovery job that was dispatched, withdrawn*)
(* by an operator or superseded by a later recovery keeps that outcome: it *)
(* is never started after all, whatever aborts and requeues interleave.    *)
THEOREM OutcomesAreFinal ==
  ASSUME MaxBoots = 1
  PROVE  Spec => JobOutcomeIsFinal
<1>1. Init => OutcomeInv
  BY RecoveryInit DEF Init, OutcomeInv, WithdrawnIsUnqueued, Withdrawn
<1>2. OutcomeInv /\ [Next]_vars => OutcomeInv'
  BY OutcomeStep
<1>3. OutcomeInv /\ [Next]_vars => [OutcomesKept]_vars
  BY OutcomeStep
<1>4. QED
  BY <1>1, <1>2, <1>3, PTL DEF Spec, JobOutcomeIsFinal, OutcomesKept

-----------------------------------------------------------------------------
(* Live runs, in a process that does not crash and whose steps do not      *)
(* throw.                                                                  *)

ActiveHasItem == active # 0 => active \in Runs /\ item[active] = "processing"
ClosedIsSettled == active # 0 /\ pc = "closing" => status[active] \notin Live \/ Controlled(active)
ApprovalsDoNotOpen == \A c \in Controls : control[c].at = "opening" => control[c].kind # "approve"

WorkInv ==
  OutcomeInv /\ LiveRunHasWork /\ ActiveHasItem /\ ClosedIsSettled /\ ApprovalsDoNotOpen

(* How a step may make run n look alive: it is new, or somebody works on   *)
(* it.  And what it may do to a run that a call works on.                  *)
LiveStep(n) ==
  /\ status'[n] \in Live =>
       status[n] \in Live \/ Controlled(n)' \/ NewRow(n) \/ (n = active /\ pc' # "closing")
  /\ Controlled(n) => Controlled(n)' \/ status'[n] \notin Live

LEMMA WorkKept ==
  ASSUME WorkInv, OutcomeInv', ApprovalsDoNotOpen', RowsStep,
         \A n \in Runs : LiveStep(n),
         active' # 0 => item'[active] = "processing",
         \A n \in Runs : n = active /\ active # 0 /\ active' = 0 =>
           status'[n] \notin Live \/ item'[n] = "queued" \/ Controlled(n)',
         active' # 0 /\ pc' = "closing" => pc = "closing" \/ status'[active] \notin Live
  PROVE  WorkInv'
<1>1. active' \in {active, 0} /\ \A n \in Runs : RowStep(n) /\ n # 0
  BY NamesDiffer DEF RowsStep
<1>2. ActiveHasItem'
  BY <1>1 DEF WorkInv, ActiveHasItem
<1>3. LiveRunHasWork'
  <2> SUFFICES ASSUME NEW n \in Runs, status'[n] \in Live
               PROVE  \/ item'[n] \in {"queued", "processing"} \/ Controlled(n)'
                      \/ job'[n] \in {"cancelled", "superseded"}
    BY DEF LiveRunHasWork
  <2>1. CASE n = active
    BY <1>1, <2>1
  <2>2. CASE n # active /\ KeptRow(n)
    BY <1>1, <2>2 DEF KeptRow, NewRow, LiveStep, WorkInv, LiveRunHasWork
  <2>3. CASE SkippedRow(n)
    BY <2>3 DEF SkippedRow, NonReplayable, Terminal, Live
  <2>4. CASE ReleasedRow(n) \/ WithdrawnRow(n) \/ NewRow(n)
    BY <2>4 DEF ReleasedRow, WithdrawnRow, NewRow, Withdrawn
  <2>5. QED
    BY <1>1, <2>1, <2>2, <2>3, <2>4 DEF RowStep, HandledRow
<1>4. ClosedIsSettled'
  <2> SUFFICES ASSUME NEW n \in Runs, n = active, active' = active, pc' = "closing",
                      status'[n] \in Live
               PROVE  Controlled(n)'
    BY <1>1 DEF WorkInv, ActiveHasItem, ClosedIsSettled
  <2>1. n # 0
    BY <1>1
  <2>2. ~NewRow(n)
    BY <2>1 DEF NewRow
  <2>3. status[n] \in Live => Controlled(n)
    BY <2>1 DEF WorkInv, ClosedIsSettled
  <2>4. QED
    BY <2>1, <2>2, <2>3 DEF LiveStep
<1>5. QED
  BY <1>2, <1>3, <1>4 DEF WorkInv

(* A step of somebody else than the handler.                               *)
LEMMA WorkAside ==
  ASSUME WorkInv, OutcomeInv', ApprovalsDoNotOpen', RowsStep,
         \A n \in Runs : LiveStep(n),
         UNCHANGED <<active, pc>>, active # 0 => item'[active] = item[active]
  PROVE  WorkInv'
  BY WorkKept DEF WorkInv, ActiveHasItem

(* The calls in flight are the same ones.                                  *)
LEMMA CallsKept ==
  ASSUME WorkInv, UNCHANGED control
  PROVE  ApprovalsDoNotOpen' /\ \A n : Controlled(n)' = Controlled(n)
  BY DEF WorkInv, ApprovalsDoNotOpen, Controlled

LEMMA ConcludeLives ==
  ASSUME WorkInv, NEW r, NEW s, s \notin Live, Conclude(r, s)
  PROVE  /\ \A n \in Runs : status'[n] \in Live => status[n] \in Live /\ n # r
         /\ active # 0 => item'[active] = item[active]
<1>1. Shape
  BY DEF WorkInv, OutcomeInv, RecoveryInv
<1>2. \A n \in Runs : status'[n] \in Live => status[n] \in Live /\ n # r
  BY <1>1 DEF Conclude, Shape
<1>3. active # 0 => item'[active] = item[active]
  BY DEF Conclude, WithdrawItems, WorkInv, ActiveHasItem
<1>4. QED
  BY <1>2, <1>3

(* What follows an abort kills the run, and may queue its replacement.     *)
LEMMA AfterAbortLives ==
  ASSUME WorkInv, NEW p, AfterAbort(p)
  PROVE  /\ \A n \in Runs : status'[n] \in Live => status[n] \in Live \/ NewRow(n)
         /\ active # 0 => item'[active] = item[active]
<1>1. Shape /\ RecoveryInv
  BY DEF WorkInv, OutcomeInv, RecoveryInv
<1>2. CASE Conclude(p.run, "aborted")
  BY <1>2, ConcludeLives DEF Live
<1>3. CASE /\ status' = [status EXCEPT ![p.run] = IF p.by = "escalate" THEN "failed"
                                                  ELSE "waiting_input"]
           /\ UNCHANGED item
  BY <1>1, <1>3 DEF Live, Shape
<1>4. CASE Recover(p.run, p.attempt, 5)
  <2>1. /\ status' = [status EXCEPT ![p.run] = "aborted", ![born + 1] = "queued"]
        /\ job' = [Withdraw(job, Scheduled, "superseded") EXCEPT ![born + 1] = "scheduled"]
        /\ item' = [WithdrawItems(item, Scheduled) EXCEPT ![born + 1] = "queued"]
    BY <1>4 DEF Recover
  <2>2. \A n \in Runs : n = born + 1 => NewRow(n) /\ item[n] = "absent"
    <3> SUFFICES ASSUME NEW n \in Runs, n = born + 1 PROVE NewRow(n) /\ item[n] = "absent"
      OBVIOUS
    <3>1. n > born
      BY <1>1 DEF Shape
    <3>2. job[n] = "none" /\ item[n] = "absent"
      BY <1>1, <3>1 DEF RecoveryInv, UnbornIsAbsent
    <3>3. job'[n] = "scheduled" /\ item'[n] = "queued"
      BY <2>1 DEF Withdraw, WithdrawItems
    <3>4. QED
      BY <3>2, <3>3 DEF NewRow
  <2>3. \A n \in Runs : n # born + 1 => status'[n] \in {status[n], "aborted"}
    BY <1>1, <2>1 DEF Shape
  <2>4. active # 0 => item'[active] = item[active]
    <3>1. active # 0 => active \in Runs /\ item[active] = "processing" /\ active # born + 1
      BY <2>2 DEF WorkInv, ActiveHasItem
    <3>2. QED
      BY <2>1, <3>1 DEF WithdrawItems
  <2>5. QED
    BY <2>2, <2>3, <2>4 DEF Live
<1>5. QED
  BY <1>2, <1>3, <1>4 DEF AfterAbort

(* Attempts are counted up from 0.                                         *)
LEMMA AttemptStep == attempt \in [Runs -> Nat] /\ [Next]_vars => attempt' \in [Runs -> Nat]
<1> SUFFICES ASSUME attempt \in [Runs -> Nat], [Next]_vars PROVE attempt' \in [Runs -> Nat]
  OBVIOUS
<1> USE DEF rows
<1>0. \A n \in Runs : attempt[n] \in Nat /\ attempt[n] + 1 \in Nat
  OBVIOUS
<1>1. ASSUME NEW s, Throw(s) PROVE attempt' \in [Runs -> Nat]
  <2>1. attempt' = attempt \/ attempt' = [attempt EXCEPT ![active] = @ + 1]
    BY <1>1 DEF Throw
  <2>2. QED
    BY <1>0, <2>1
<1>2. CASE Handler
  <2>1. CASE RequeueRun
    BY <1>0, <2>1 DEF RequeueRun
  <2>2. CASE FinishItem \/ HandlerThrows
    BY <1>1, <2>2 DEF FinishItem, HandlerThrows
  <2>3. QED
    BY <1>2, <2>1, <2>2 DEF Handler, BlockRun, BeginExecution, Launch, AnswerWithoutRuntime,
       ExecutionEnds, CloseTerminal, RecordOutcome, FollowUp, CorrectOutcome
<1>3. ASSUME NEW p, AfterAbort(p) \/ IssueAbort(p) PROVE UNCHANGED attempt
  BY <1>3 DEF AfterAbort, IssueAbort, Recover
<1>4. ASSUME NEW c \in Controls, ControlStep(c) PROVE UNCHANGED attempt
  BY <1>4 DEF ControlStep, ControlRuns, ControlOverflows, ControlThrows, ControlExecutes,
     ControlEnds
<1>5. ASSUME NEW r \in Runs, NEW k \in 1 .. 4, CrashInRecovery(r, k) PROVE UNCHANGED attempt
  BY <1>5 DEF CrashInRecovery, Recover
<1>6. QED
  BY <1>2, <1>3, <1>4, <1>5 DEF Next, vars, EnqueueRun, Crash, Boot, SkipItem, StartItem,
     LeaseExpires, OperatorAborts, CrashInReservation, WatchdogActs, CompleteAbort,
     ApprovalOpens, ControlOpens

LEMMA HandlerWorks ==
  ASSUME WorkInv, OutcomeInv', RowsStep, Handler, MayThrow = FALSE, attempt \in [Runs -> Nat]
  PROVE  WorkInv'
<1> USE DEF rows, HandlerEnds, At
<1>1. Shape /\ ActiveHasItem /\ ClosedIsSettled
  BY DEF WorkInv, OutcomeInv, RecoveryInv
<1>2. UNCHANGED control
  BY DEF Handler, BlockRun, BeginExecution, Launch, AnswerWithoutRuntime, ExecutionEnds,
     CloseTerminal, RecordOutcome, FollowUp, RequeueRun, FinishItem, HandlerThrows, CorrectOutcome
<1>3. ApprovalsDoNotOpen' /\ \A n \in Runs : Controlled(n)' = Controlled(n)
  BY <1>2, CallsKept
<1>4. ASSUME UNCHANGED <<status, item, active>>, pc' # "closing" PROVE WorkInv'
  <2>1. \A n \in Runs : LiveStep(n)
    BY <1>3, <1>4 DEF LiveStep
  <2>2. QED
    BY <1>1, <1>3, <1>4, <2>1, WorkKept DEF ActiveHasItem
<1>5. ASSUME UNCHANGED <<item, active>>, \E s : s \notin Live /\ status' = [status EXCEPT ![active] = s]
      PROVE  WorkInv'
  <2>1. \A n \in Runs : status'[n] \in Live => status[n] \in Live /\ n # active
    BY <1>1, <1>5 DEF Shape
  <2>2. \A n \in Runs : LiveStep(n)
    BY <1>3, <2>1 DEF LiveStep
  <2>3. active # 0 => status'[active] \notin Live
    BY <1>1, <2>1 DEF ActiveHasItem
  <2>4. QED
    BY <1>1, <1>3, <1>5, <2>2, <2>3, WorkKept DEF ActiveHasItem
<1>6. ASSUME NEW o \in {"fatal", "waiting"}, BlockRun(o) PROVE WorkInv'
  BY <1>5, <1>6 DEF BlockRun, StatusOf, Live
<1>7. CASE BeginExecution
  <2>1. /\ UNCHANGED <<item, active>> /\ pc' # "closing"
        /\ status' = [status EXCEPT ![active] = "running"]
    BY <1>7 DEF BeginExecution
  <2>2. \A n \in Runs : LiveStep(n)
    BY <1>1, <1>3, <2>1 DEF LiveStep, Shape
  <2>3. QED
    BY <1>1, <1>3, <2>1, <2>2, WorkKept DEF ActiveHasItem
<1>8. ASSUME NEW h \in {"child", "tmux", "api"}, Launch(h) PROVE WorkInv'
  BY <1>4, <1>8 DEF Launch
<1>9. ASSUME NEW o \in {"completed", "retryable", "fatal"}, AnswerWithoutRuntime(o) PROVE WorkInv'
  BY <1>4, <1>9 DEF AnswerWithoutRuntime
<1>10. ASSUME NEW o \in Outcomes, ExecutionEnds(o) \/ CloseTerminal(o) PROVE WorkInv'
  BY <1>4, <1>10 DEF ExecutionEnds, CloseTerminal
<1>11. ASSUME NEW o \in Outcomes, RecordOutcome(o) PROVE WorkInv'
  <2>1. Conclude(active, StatusOf(o)) /\ active' = active /\ active # 0
    BY <1>11 DEF RecordOutcome
  <2>2. StatusOf(o) \notin Live
    BY StatusOfTypes DEF Live, Terminal
  <2>3. /\ \A n \in Runs : status'[n] \in Live => status[n] \in Live /\ n # active
        /\ item'[active] = item[active]
    BY <2>1, <2>2, ConcludeLives
  <2>4. \A n \in Runs : LiveStep(n)
    BY <1>3, <2>3 DEF LiveStep
  <2>5. status'[active] \notin Live
    BY <1>1, <2>1, <2>3 DEF ActiveHasItem
  <2>6. QED
    BY <1>1, <1>3, <2>1, <2>3, <2>4, <2>5, WorkKept DEF ActiveHasItem
<1>12. CASE FollowUp
  BY <1>4, <1>12 DEF FollowUp
<1>13. CASE RequeueRun
  <2>1. /\ status' = [status EXCEPT ![active] = "queued"] /\ active \in Runs
        /\ active' = 0 /\ pc' # "closing"
        /\ item' = [WithdrawItems(item, Obsolete(active, "failed"))
                     EXCEPT ![active] = Rethrown(active, "queued")]
        /\ attempt[active] + 1 < MaxAttempts
    BY <1>1, <1>13 DEF RequeueRun, ActiveHasItem
  <2>2. \A n \in Runs : LiveStep(n)
    BY <1>1, <1>3, <2>1 DEF LiveStep, Shape
  <2>3. ~(attempt[active] + 1 >= MaxAttempts)
    BY <2>1, RunControlAssumption
  <2>4. Rethrown(active, "queued") = "queued"
    BY <2>3 DEF Rethrown, NonReplayable, Terminal
  <2>5. \A n \in Runs : n = active => item'[n] = "queued"
    BY <2>1, <2>4 DEF WithdrawItems
  <2>6. QED
    BY <1>3, <2>1, <2>2, <2>5, WorkKept
<1>14. CASE FinishItem
  <2>1. UNCHANGED status /\ active' = 0 /\ active \in Runs /\ pc = "closing"
    <3>1. CASE result = "retryable"
      BY <1>1, <1>14, <3>1 DEF FinishItem, Throw, ActiveHasItem
    <3>2. CASE result # "retryable"
      BY <1>1, <1>14, <3>2 DEF FinishItem, ActiveHasItem
    <3>3. QED
      BY <3>1, <3>2
  <2>2. \A n \in Runs : LiveStep(n)
    BY <1>3, <2>1 DEF LiveStep
  <2>3. \A n \in Runs : n = active => status'[n] \notin Live \/ Controlled(n)'
    BY <1>1, <1>3, <2>1, NamesDiffer DEF ClosedIsSettled
  <2>4. QED
    BY <1>3, <2>1, <2>2, <2>3, WorkKept
<1>15. ASSUME NEW o \in {"completed", "fatal"}, CorrectOutcome(o) PROVE WorkInv'
  BY <1>5, <1>15 DEF CorrectOutcome, StatusOf, Live
<1>16. ~HandlerThrows
  BY DEF HandlerThrows
<1>17. QED
  BY <1>6, <1>7, <1>8, <1>9, <1>10, <1>11, <1>12, <1>13, <1>14, <1>15, <1>16 DEF Handler

(* A call works on its run until it settles it.                            *)
LEMMA ControlWorks ==
  ASSUME WorkInv, OutcomeInv', RowsStep, MayThrow = FALSE,
         NEW c \in Controls, ControlStep(c)
  PROVE  WorkInv'
<1> DEFINE r == control[c].run
<1>1. Shape /\ control \in [Controls -> Calls] /\ ApprovalsDoNotOpen
  BY DEF WorkInv, OutcomeInv, RecoveryInv, Shape
<1>2. ASSUME \A d \in Controls \ {c} : control'[d] = control[d],
             NEW n \in Runs, Controlled(n), ~Controlled(n)'
      PROVE  n = r /\ control[c].kind # "approve"
  BY <1>2 DEF Controlled
<1>3. ASSUME control' = [control EXCEPT ![c] = NoCall]
      PROVE  (\A d \in Controls \ {c} : control'[d] = control[d]) /\ ApprovalsDoNotOpen'
  BY <1>1, <1>3 DEF NoCall, ApprovalsDoNotOpen
<1>4. ASSUME control' = [control EXCEPT ![c] = NoCall], UNCHANGED <<active, pc>>,
             \E s : s \notin Live /\ Conclude(r, s)
      PROVE  WorkInv'
  <2>1. /\ \A n \in Runs : status'[n] \in Live => status[n] \in Live /\ n # r
        /\ active # 0 => item'[active] = item[active]
    BY <1>4, ConcludeLives
  <2>2. \A n \in Runs : LiveStep(n)
    BY <1>2, <1>3, <1>4, <2>1 DEF LiveStep
  <2>3. QED
    BY <1>3, <1>4, <2>1, <2>2, WorkAside
<1>5. CASE ControlRuns(c)
  <2>1. /\ UNCHANGED <<active, pc>> /\ status' = [status EXCEPT ![r] = "running"]
        /\ \E S : item' = WithdrawItems(item, S)
        /\ control[c].at = "opening" /\ control' = [control EXCEPT ![c].at = "assembling"]
    BY <1>5 DEF ControlRuns, worker
  <2>2. /\ \A d \in Controls \ {c} : control'[d] = control[d]
        /\ control'[c].run = r /\ control'[c].kind = control[c].kind
        /\ control'[c].at = "assembling" /\ control[c].kind # "approve"
    BY <1>1, <2>1 DEF ApprovalsDoNotOpen, Calls
  <2>3. /\ ApprovalsDoNotOpen'
        /\ \A n \in Runs : Controlled(n) \/ n = r => Controlled(n)'
    BY <1>1, <2>2 DEF ApprovalsDoNotOpen, Controlled
  <2>4. \A n \in Runs : n # r => status'[n] = status[n]
    BY <1>1, <2>1 DEF Shape
  <2>5. \A n \in Runs : LiveStep(n)
    BY <2>3, <2>4 DEF LiveStep
  <2>6. active # 0 => item'[active] = item[active]
    BY <2>1 DEF WithdrawItems, WorkInv, ActiveHasItem
  <2>7. QED
    BY <2>1, <2>3, <2>5, <2>6, WorkAside
<1>6. CASE ControlOverflows(c)
  BY <1>4, <1>6 DEF ControlOverflows, Live, worker
<1>7. ASSUME NEW h \in {"child", "tmux", "api"}, ControlExecutes(c, h) PROVE WorkInv'
  <2>1. /\ UNCHANGED <<active, pc, status, item>> /\ control[c].at = "assembling"
        /\ control' = [control EXCEPT ![c].at = "executing", ![c].host = h]
    BY <1>7 DEF ControlExecutes, worker, rows
  <2>2. /\ \A d \in Controls \ {c} : control'[d] = control[d]
        /\ control'[c].run = r /\ control'[c].kind = control[c].kind
        /\ control'[c].at = "executing"
    BY <1>1, <2>1 DEF Calls
  <2>3. ApprovalsDoNotOpen' /\ \A n \in Runs : Controlled(n) => Controlled(n)'
    BY <1>1, <2>2 DEF ApprovalsDoNotOpen, Controlled
  <2>4. \A n \in Runs : LiveStep(n)
    BY <2>1, <2>3 DEF LiveStep
  <2>5. QED
    BY <2>1, <2>3, <2>4, WorkAside
<1>8. ASSUME NEW o \in Outcomes, ControlEnds(c, o) PROVE WorkInv'
  <2>1. UNCHANGED <<active, pc>> /\ control' = [control EXCEPT ![c] = NoCall]
    BY <1>8 DEF ControlEnds, worker
  <2>2. CASE control[c].kind = "approve"
    <3>1. UNCHANGED <<status, job, item>>
      BY <1>8, <2>2 DEF ControlEnds
    <3>2. \A n \in Runs : LiveStep(n)
      BY <1>2, <1>3, <2>1, <2>2, <3>1 DEF LiveStep
    <3>3. QED
      BY <1>3, <2>1, <3>1, <3>2, WorkAside
  <2>3. CASE control[c].kind # "approve"
    <3>1. Conclude(r, StatusOf(o))
      BY <1>8, <2>3 DEF ControlEnds
    <3>2. StatusOf(o) \notin Live
      BY StatusOfTypes DEF Live, Terminal
    <3>3. QED
      BY <1>4, <2>1, <3>1, <3>2
  <2>4. QED
    BY <2>2, <2>3
<1>9. ~ControlThrows(c)
  BY DEF ControlThrows
<1>10. QED
  BY <1>5, <1>6, <1>7, <1>8, <1>9 DEF ControlStep

(* Every step keeps the invariant, one case per action.                    *)
LEMMA WorkStep ==
  ASSUME MaxBoots = 1, MayThrow = FALSE
  PROVE  WorkInv /\ attempt \in [Runs -> Nat] /\ [Next]_vars => WorkInv'
<1> SUFFICES ASSUME WorkInv, attempt \in [Runs -> Nat], [Next]_vars PROVE WorkInv'
  OBVIOUS
<1>1. OutcomeInv /\ OutcomeInv' /\ Shape /\ up /\ boots = 1
  BY OutcomeStep DEF WorkInv, OutcomeInv, RecoveryInv
<1> USE DEF rows, worker, memory
<1>2. ASSUME NEW r \in Runs, StartItem(r) PROVE WorkInv'
  <2>1. /\ active' = r /\ active = 0 /\ pc' # "closing" /\ UNCHANGED control
        /\ \A n \in Runs : n # r => /\ job'[n] = job[n] /\ item'[n] = item[n]
                                    /\ status'[n] = status[n]
        /\ item'[r] = "processing"
    BY <1>1, <1>2 DEF StartItem, Shape
  <2>2. ApprovalsDoNotOpen' /\ \A n \in Runs : Controlled(n)' = Controlled(n)
    BY <2>1, CallsKept
  <2>3. LiveRunHasWork'
    BY <2>1, <2>2 DEF WorkInv, LiveRunHasWork
  <2>4. ActiveHasItem' /\ ClosedIsSettled'
    BY <2>1 DEF ActiveHasItem, ClosedIsSettled
  <2>5. QED
    BY <1>1, <2>2, <2>3, <2>4 DEF WorkInv
<1>3. ASSUME ~\E r \in Runs : StartItem(r) PROVE WorkInv'
  <2>1. RowsStep
    BY <1>1, <1>3, RowsStepped
  <2>2. ASSUME UNCHANGED <<active, pc, control>>, active # 0 => item'[active] = item[active],
               \A n \in Runs : status'[n] \in Live => status[n] \in Live \/ NewRow(n)
        PROVE  WorkInv'
    <3>1. ApprovalsDoNotOpen' /\ \A n \in Runs : Controlled(n)' = Controlled(n)
      BY <2>2, CallsKept
    <3>2. \A n \in Runs : LiveStep(n)
      BY <2>2, <3>1 DEF LiveStep
    <3>3. QED
      BY <1>1, <2>1, <2>2, <3>1, <3>2, WorkAside
  <2>3. ASSUME UNCHANGED <<active, pc, status, item>>, ApprovalsDoNotOpen',
               \A n \in Runs : Controlled(n) => Controlled(n)'
        PROVE  WorkInv'
    <3>1. \A n \in Runs : LiveStep(n)
      BY <2>3 DEF LiveStep
    <3>2. QED
      BY <1>1, <2>1, <2>3, <3>1, WorkAside
  <2>4. CASE EnqueueRun
    <3>1. \A n \in Runs : item[n] = "absent" /\ job[n] = "none" /\ job'[n] = "none"
      BY <1>1, <2>4, RunControlAssumption
         DEF EnqueueRun, OutcomeInv, RecoveryInv, UnbornIsAbsent, Runs
    <3>2. active = 0
      BY <3>1 DEF WorkInv, ActiveHasItem
    <3>3. \A n \in Runs : \/ status'[n] = status[n]
                          \/ item'[n] = "queued"
      BY <1>1, <2>4 DEF EnqueueRun, Shape
    <3>4. UNCHANGED <<active, pc, control>>
      BY <2>4 DEF EnqueueRun
    <3>5. QED
      BY <2>2, <3>1, <3>2, <3>3, <3>4 DEF NewRow
  <2>5. CASE Handler
    BY <1>1, <2>1, <2>5, HandlerWorks
  <2>6. ASSUME NEW r \in Runs, SkipItem(r) PROVE WorkInv'
    BY <2>2, <2>6 DEF SkipItem
  <2>7. ASSUME NEW r \in Runs, LeaseExpires(r) PROVE WorkInv'
    <3>1. UNCHANGED <<active, pc, control, status>> /\ item' = [item EXCEPT ![r] = "queued"]
          /\ active # r
      BY <2>7 DEF LeaseExpires
    <3>2. active # 0 => item'[active] = item[active]
      BY <1>1, <3>1 DEF WorkInv, ActiveHasItem, Shape
    <3>3. QED
      BY <2>2, <3>1, <3>2
  <2>8. ASSUME NEW p, IssueAbort(p), UNCHANGED <<active, pc, control>> PROVE WorkInv'
    <3>1. CASE AfterAbort(p)
      BY <2>2, <2>8, <3>1, AfterAbortLives
    <3>2. CASE UNCHANGED rows
      BY <2>2, <2>8, <3>2
    <3>3. QED
      BY <2>8, <3>1, <3>2 DEF IssueAbort
  <2>9. ASSUME NEW r \in Runs, OperatorAborts(r) PROVE WorkInv'
    BY <2>8, <2>9 DEF OperatorAborts
  <2>10. ASSUME NEW r \in Runs, NEW by \in RecoveryActions, WatchdogActs(r, by) PROVE WorkInv'
    BY <2>8, <2>10 DEF WatchdogActs
  <2>11. ASSUME NEW p \in pending, CompleteAbort(p) PROVE WorkInv'
    BY <2>2, <2>11, AfterAbortLives DEF CompleteAbort
  <2>12. ASSUME NEW c \in Controls, ControlStep(c) PROVE WorkInv'
    BY <1>1, <2>1, <2>12, ControlWorks
  <2>13. ASSUME NEW c \in Controls, NEW r \in Runs,
                ApprovalOpens(c, r) \/ \E kind \in {"steer", "resume"} : ControlOpens(c, r, kind)
         PROVE  WorkInv'
    <3>1. /\ UNCHANGED <<active, pc, status, item>> /\ control[c].at = "idle"
          /\ \E call : /\ control' = [control EXCEPT ![c] = call]
                       /\ call.at = "opening" => call.kind # "approve"
      BY <2>13 DEF ApprovalOpens, ControlOpens
    <3>2. ApprovalsDoNotOpen' /\ \A n \in Runs : Controlled(n) => Controlled(n)'
      BY <1>1, <3>1 DEF WorkInv, ApprovalsDoNotOpen, Controlled, Shape
    <3>3. QED
      BY <2>3, <3>1, <3>2
  <2>14. CASE UNCHANGED vars
    BY <2>2, <2>14 DEF vars
  <2>15. ~Crash /\ ~Boot /\ \A r \in Runs : ~CrashInReservation(r) /\ \A k : ~CrashInRecovery(r, k)
    BY <1>1 DEF Crash, Boot, CrashInReservation, CrashInRecovery, Forget
  <2>16. QED
    BY <1>3, <2>4, <2>5, <2>6, <2>7, <2>9, <2>10, <2>11, <2>12, <2>13, <2>14, <2>15 DEF Next
<1>4. QED
  BY <1>2, <1>3

(* While the process neither crashes nor fails to assemble a prompt, a run *)
(* that looks alive has an item that is queued or executed or a call that  *)
(* will end it, in every hosting and for any number of calls: no order of  *)
(* aborts, steers, recoveries and requeues leaves it alone.                *)
THEOREM LiveRunsHaveWork ==
  ASSUME MaxBoots = 1, MayThrow = FALSE
  PROVE  Spec => []LiveRunHasWork
<1> DEFINE Counted == attempt \in [Runs -> Nat]
<1>1. Init => WorkInv /\ Counted
  <2>1. Init => OutcomeInv
    BY RecoveryInit DEF Init, OutcomeInv, WithdrawnIsUnqueued, Withdrawn
  <2>2. Init => LiveRunHasWork /\ ActiveHasItem /\ ClosedIsSettled /\ ApprovalsDoNotOpen
    BY DEF Init, LiveRunHasWork, ActiveHasItem, ClosedIsSettled, ApprovalsDoNotOpen, NoCall, Live
  <2>3. Init => Counted
    BY DEF Init
  <2>4. QED
    BY <2>1, <2>2, <2>3 DEF WorkInv
<1>2. WorkInv /\ Counted /\ [Next]_vars => WorkInv' /\ Counted'
  BY WorkStep, AttemptStep
<1>3. WorkInv => LiveRunHasWork
  BY DEF WorkInv
<1>4. QED
  BY <1>1, <1>2, <1>3, PTL DEF Spec

-----------------------------------------------------------------------------
(* The maximum of the recovery attempts and the least free number.         *)

LEMMA SmallestOf ==
  ASSUME NEW T \in SUBSET Nat, T # {}
  PROVE  \E x \in T : \A y \in T : x <= y
<1> DEFINE R == OpToRel(<, Nat)
<1>1. IsWellFoundedOn(R, Nat)
  BY NatLessThanWellFounded
<1>2. \A x, y \in Nat : x < y => <<x, y>> \in R
  BY DEF OpToRel
<1> HIDE DEF R
<1>3. \E x \in T : \A y \in T : ~(<<y, x>> \in R)
  BY <1>1, WFMin
<1>4. PICK x \in T : \A y \in T : ~(<<y, x>> \in R)
  BY <1>3
<1>5. ASSUME NEW y \in T PROVE x <= y
  <2>1. x \in Nat /\ y \in Nat
    OBVIOUS
  <2>2. ~(y < x)
    BY <1>2, <1>4, <2>1
  <2>3. QED
    BY <2>1, <2>2
<1>6. QED
  BY <1>5

LEMMA MaxIs ==
  ASSUME NEW S \in SUBSET Nat, S # {}, NEW m \in Nat, \A x \in S : x <= m
  PROVE  Max(S) \in S /\ \A x \in S : x <= Max(S)
<1> DEFINE U == {b \in Nat : \A x \in S : x <= b}
<1>1. PICK b \in U : \A c \in U : b <= c
  BY SmallestOf
<1>2. b \in S
  <2> SUFFICES ASSUME b \notin S PROVE FALSE
    OBVIOUS
  <2>1. \A x \in S : x <= b /\ x # b /\ x \in Nat
    OBVIOUS
  <2>2. \A x \in S : x <= b - 1
    BY <2>1
  <2>3. b - 1 \in Nat
    <3>1. PICK x \in S : TRUE
      OBVIOUS
    <3>2. x \in Nat /\ x <= b /\ x # b
      BY <2>1
    <3>3. QED
      BY <3>2
  <2>4. b - 1 \in U
    BY <2>2, <2>3
  <2>5. QED
    BY <1>1, <2>4
<1>3. \E x \in S : \A y \in S : x >= y
  BY <1>2
<1>4. QED
  BY <1>3 DEF Max

(* A new recovery is numbered beyond all there are.                        *)
LEMMA NextIsNew ==
  ASSUME jobAttempt \in [Runs -> 0 .. MaxRecoveryAttempts]
  PROVE  NextAttempt \in Nat \ {0} /\ \A n \in Runs : jobAttempt[n] < NextAttempt
<1> DEFINE S == {jobAttempt[n] : n \in Runs}
<1>1. 1 \in Runs /\ MaxRecoveryAttempts \in Nat
  BY RunControlAssumption DEF Runs
<1>2. S \in SUBSET Nat /\ S # {} /\ \A x \in S : x <= MaxRecoveryAttempts
  BY <1>1
<1>3. Max(S) \in S /\ \A x \in S : x <= Max(S)
  BY <1>1, <1>2, MaxIs
<1>4. \A n \in Runs : jobAttempt[n] \in S
  OBVIOUS
<1> HIDE DEF S
<1>5. Max(S) \in Nat /\ \A n \in Runs : jobAttempt[n] \in Nat /\ jobAttempt[n] <= Max(S)
  BY <1>2, <1>3, <1>4
<1>6. NextAttempt = Max(S) + 1
  BY DEF NextAttempt, S
<1>7. QED
  BY <1>5, <1>6

(* While fewer aborts wait than may, one of their numbers is free.         *)
LEMMA NumberIsFree ==
  ASSUME IsFiniteSet(pending), Cardinality(pending) < MaxPending
  PROVE  FreeNumber \in Nat /\ \A p \in pending : p.no # FreeNumber
<1> DEFINE N == 1 .. MaxPending
           Free == N \ {p.no : p \in pending}
           f == [n \in N |-> CHOOSE p \in pending : p.no = n]
<1>1. MaxPending \in Nat /\ Cardinality(pending) \in Nat
  BY RunControlAssumption, FS_CardinalityType
<1>2. Free # {}
  <2> SUFFICES ASSUME Free = {} PROVE FALSE
    OBVIOUS
  <2>1. \A n \in N : \E p \in pending : p.no = n
    OBVIOUS
  <2>2. \A n \in N : f[n] \in pending /\ f[n].no = n
    BY <2>1
  <2>3. f \in [N -> pending]
    BY <2>2
  <2> HIDE DEF f, N
  <2>4. \A m, n \in N : f[m] = f[n] => m = n
    BY <2>2
  <2>5. f \in Injection(N, pending)
    BY <2>3, <2>4 DEF Injection, IsInjective
  <2>6. Cardinality(N) <= Cardinality(pending)
    BY <2>5, FS_Injection
  <2>7. Cardinality(N) = MaxPending
    <3>1. 1 \in Int /\ MaxPending \in Int
      BY <1>1
    <3>2. Cardinality(1 .. MaxPending) = IF 1 > MaxPending THEN 0 ELSE MaxPending - 1 + 1
      BY <3>1, FS_Interval, Zenon
    <3>3. QED
      BY <1>1, <3>2 DEF N
  <2>8. QED
    BY <1>1, <2>6, <2>7
<1>3. Free \in SUBSET Nat
  BY <1>1
<1>4. PICK x \in Free : \A y \in Free : x <= y
  BY <1>2, <1>3, SmallestOf
<1>5. FreeNumber \in Free
  <2>1. Min(Free) = CHOOSE z \in Free : \A y \in Free : z <= y
    BY DEF Min
  <2> HIDE DEF Free
  <2>2. Min(Free) \in Free
    BY <1>4, <2>1
  <2>3. QED
    BY <2>2 DEF FreeNumber, Free
<1>6. QED
  BY <1>3, <1>5

-----------------------------------------------------------------------------
(* Types.  The aborts that wait are finitely many, and the lineage has     *)
(* room for the replacements they promise.                                 *)

Books ==
  /\ born \in 0 .. MaxRuns
  /\ pending \subseteq Aborts /\ IsFiniteSet(pending)
  /\ born + Promised <= MaxRuns
  /\ \A p \in pending : p.attempt <= MaxRecoveryAttempts
  /\ jobAttempt \in [Runs -> 0 .. MaxRecoveryAttempts]
  /\ parent \in [Runs -> Runs \union {0}]

LEMMA PromisedIsNat ==
  ASSUME IsFiniteSet(pending)
  PROVE  Promised \in Nat
<1> DEFINE R == {p \in pending : p.by = "retry"}
<1>1. IsFiniteSet(R)
  BY FS_Subset
<1>2. QED
  BY <1>1, FS_CardinalityType DEF Promised

LEMMA PromisedAdded ==
  ASSUME IsFiniteSet(pending), NEW q, pending' = pending \union {q}
  PROVE  /\ IsFiniteSet(pending')
         /\ Promised' \in Nat
         /\ Promised' <= Promised + 1
         /\ q.by # "retry" => Promised' = Promised
<1> DEFINE R == {p \in pending : p.by = "retry"}
           S == {p \in pending' : p.by = "retry"}
<1>1. IsFiniteSet(pending') /\ IsFiniteSet(R) /\ Cardinality(R) \in Nat
  BY FS_AddElement, FS_Subset, FS_CardinalityType
<1>2. S = IF q.by = "retry" THEN R \union {q} ELSE R
  OBVIOUS
<1>3. Promised = Cardinality(R) /\ Promised' = Cardinality(S)
  BY DEF Promised
<1> HIDE DEF R, S
<1>4. Cardinality(R \union {q}) = IF q \in R THEN Cardinality(R) ELSE Cardinality(R) + 1
  BY <1>1, FS_AddElement
<1>5. QED
  BY <1>1, <1>2, <1>3, <1>4

LEMMA PromisedRemoved ==
  ASSUME IsFiniteSet(pending), NEW q \in pending, pending' = pending \ {q}
  PROVE  /\ IsFiniteSet(pending')
         /\ Promised' = IF q.by = "retry" THEN Promised - 1 ELSE Promised
         /\ q.by = "retry" => Promised > 0
         /\ Promised' \in Nat
<1> DEFINE R == {p \in pending : p.by = "retry"}
           S == {p \in pending' : p.by = "retry"}
<1>1. IsFiniteSet(pending') /\ IsFiniteSet(R) /\ Cardinality(R) \in Nat
  BY FS_RemoveElement, FS_Subset, FS_CardinalityType
<1>2. S = IF q.by = "retry" THEN R \ {q} ELSE R
  OBVIOUS
<1>3. Promised = Cardinality(R) /\ Promised' = Cardinality(S)
  BY DEF Promised
<1>4. q.by = "retry" <=> q \in R
  OBVIOUS
<1>5. IsFiniteSet(S)
  BY <1>1, FS_Subset
<1> HIDE DEF R, S
<1>6. Cardinality(R \ {q}) = IF q \in R THEN Cardinality(R) - 1 ELSE Cardinality(R)
  BY <1>1, FS_RemoveElement
<1>7. Cardinality(S) \in Nat
  BY <1>5, FS_CardinalityType
<1>8. QED
  BY <1>1, <1>2, <1>3, <1>4, <1>6, <1>7

(* A recovery, whole or cut short, has a row to fill.                      *)
LEMMA RecoverBooks ==
  ASSUME Books, born < MaxRuns, NEW r \in Runs, NEW a \in 0 .. MaxRecoveryAttempts, NEW k \in Nat,
         Recover(r, a, k)
  PROVE  /\ born' \in 0 .. MaxRuns /\ born' <= born + 1
         /\ jobAttempt' \in [Runs -> 0 .. MaxRecoveryAttempts]
         /\ parent' \in [Runs -> Runs \union {0}]
<1>1. MaxRuns \in Nat /\ MaxRecoveryAttempts \in Nat /\ born \in Nat
  BY RunControlAssumption DEF Books
<1>2. born' \in 0 .. MaxRuns /\ born' <= born + 1
  BY <1>1 DEF Recover
<1>3. jobAttempt' \in [Runs -> 0 .. MaxRecoveryAttempts]
  BY DEF Books, Recover
<1>4. parent' \in [Runs -> Runs \union {0}]
  BY DEF Books, Recover
<1>5. QED
  BY <1>2, <1>3, <1>4

LEMMA AfterAbortBooks ==
  ASSUME Books, NEW p \in Aborts, p.attempt <= MaxRecoveryAttempts, AfterAbort(p),
         p.by = "retry" => born < MaxRuns
  PROVE  /\ born' \in 0 .. MaxRuns
         /\ born' = born \/ (p.by = "retry" /\ born' <= born + 1)
         /\ jobAttempt' \in [Runs -> 0 .. MaxRecoveryAttempts]
         /\ parent' \in [Runs -> Runs \union {0}]
<1>1. p.run \in Runs /\ p.attempt \in 0 .. MaxRecoveryAttempts
  BY RunControlAssumption DEF Aborts
<1>2. CASE p.by = "retry"
  BY <1>1, <1>2, RecoverBooks DEF AfterAbort
<1>3. CASE p.by # "retry"
  BY <1>3 DEF AfterAbort, Books
<1>4. QED
  BY <1>2, <1>3

LEMMA IssueAbortBooks ==
  ASSUME Books, NEW p \in Aborts, p.attempt <= MaxRecoveryAttempts, IssueAbort(p),
         p.by = "retry" => born + Promised < MaxRuns
  PROVE  Books'
<1>1. MaxRuns \in Nat /\ born \in Nat /\ Promised \in Nat
  BY RunControlAssumption, PromisedIsNat DEF Books
<1>2. CASE AfterAbort(p) /\ UNCHANGED pending
  <2>1. Promised' = Promised
    BY <1>2 DEF Promised
  <2>2. QED
    BY <1>1, <1>2, <2>1, AfterAbortBooks DEF Books
<1>3. CASE Cardinality(pending) < MaxPending /\ UNCHANGED rows
           /\ pending' = pending \union {[p EXCEPT !.no = FreeNumber]}
  <2>1. FreeNumber \in Nat
    BY <1>3, NumberIsFree DEF Books
  <2>2. PICK q : q = [p EXCEPT !.no = FreeNumber]
    OBVIOUS
  <2>3. q \in Aborts /\ q.by = p.by /\ q.attempt = p.attempt
    BY <2>1, <2>2 DEF Aborts
  <2>4. /\ IsFiniteSet(pending') /\ Promised' \in Nat /\ Promised' <= Promised + 1
        /\ p.by # "retry" => Promised' = Promised
    BY <1>3, <2>2, <2>3, PromisedAdded DEF Books
  <2>5. UNCHANGED <<born, jobAttempt, parent>>
    BY <1>3 DEF rows
  <2>6. born' + Promised' <= MaxRuns
    <3>1. born + Promised <= MaxRuns
      BY DEF Books
    <3>2. QED
      BY <1>1, <2>3, <2>4, <2>5, <3>1 DEF Promised
  <2>7. \A x \in pending' : x \in Aborts /\ x.attempt <= MaxRecoveryAttempts
    BY <1>3, <2>2, <2>3 DEF Books
  <2>8. QED
    BY <2>4, <2>5, <2>6, <2>7 DEF Books
<1>4. QED
  BY <1>2, <1>3 DEF IssueAbort

LEMMA BooksStep == Books /\ RecoveryInv /\ [Next]_vars => Books'
<1> SUFFICES ASSUME Books, RecoveryInv, [Next]_vars PROVE Books'
  OBVIOUS
<1>0. /\ MaxRuns \in Nat \ {0} /\ born \in Nat /\ Promised \in Nat
      /\ MaxRecoveryAttempts \in Nat
  BY RunControlAssumption, PromisedIsNat DEF Books
<1>1. ASSUME UNCHANGED <<born, pending, jobAttempt, parent>> PROVE Books'
  <2>1. Promised' = Promised
    BY <1>1 DEF Promised
  <2>2. QED
    BY <1>1, <2>1 DEF Books
<1>2. ASSUME pending' = {}, born' \in 0 .. MaxRuns,
             jobAttempt' \in [Runs -> 0 .. MaxRecoveryAttempts],
             parent' \in [Runs -> Runs \union {0}]
      PROVE  Books'
  <2>1. {p \in pending' : p.by = "retry"} = {} /\ IsFiniteSet(pending')
    BY <1>2, FS_EmptySet
  <2>2. Promised' = 0
    BY <2>1, FS_EmptySet DEF Promised
  <2>3. born' + Promised' <= MaxRuns
    BY <1>0, <1>2, <2>2 DEF Promised
  <2>4. \A p \in pending' : p \in Aborts /\ p.attempt <= MaxRecoveryAttempts
    BY <1>2
  <2>5. QED
    BY <1>2, <2>1, <2>3, <2>4 DEF Books
<1> USE DEF rows, memory, worker
<1>3. CASE EnqueueRun
  <2>1. \A p \in pending : p.run \in Runs /\ p.run \in Int /\ p.run > 0
    BY RunControlAssumption DEF Books, Aborts, Runs
  <2>2. pending = {}
    BY <1>3, <2>1 DEF EnqueueRun, RecoveryInv, PendingIsBorn
  <2>3. QED
    BY <1>0, <1>2, <1>3, <2>2 DEF EnqueueRun, Books
<1>4. CASE Handler
  <2>1. UNCHANGED <<born, pending, jobAttempt, parent>>
    BY <1>4 DEF Handler, BlockRun, BeginExecution, Launch, AnswerWithoutRuntime, ExecutionEnds,
       CloseTerminal, RecordOutcome, FollowUp, CorrectOutcome, RequeueRun, FinishItem,
       HandlerThrows
  <2>2. QED
    BY <1>1, <2>1
<1>5. CASE Crash
  BY <1>2, <1>5 DEF Crash, Forget, Books
<1>6. CASE Boot
  BY <1>1, <1>6 DEF Boot
<1>7. ASSUME NEW r \in Runs, SkipItem(r) \/ StartItem(r) \/ LeaseExpires(r) PROVE Books'
  <2>1. UNCHANGED <<born, pending, jobAttempt, parent>>
    BY <1>7 DEF SkipItem, StartItem, LeaseExpires
  <2>2. QED
    BY <1>1, <2>1
<1>8. ASSUME NEW r \in Runs, OperatorAborts(r) PROVE Books'
  <2> DEFINE p == [run |-> r, by |-> "operator", attempt |-> 0, no |-> 0]
  <2>1. p \in Aborts /\ p.attempt <= MaxRecoveryAttempts /\ p.by # "retry" /\ IssueAbort(p)
    BY <1>0, <1>8 DEF OperatorAborts, Aborts
  <2>2. QED
    BY <2>1, IssueAbortBooks
<1>9. ASSUME NEW r \in Runs, CrashInReservation(r) PROVE Books'
  BY <1>2, <1>9 DEF CrashInReservation, Forget, Books
<1>10. NextAttempt \in Nat
  BY NextIsNew DEF Books
<1>11. ASSUME NEW r \in Runs, NEW by \in RecoveryActions, WatchdogActs(r, by) PROVE Books'
  <2> DEFINE p == [run |-> r, by |-> by, no |-> 0,
                   attempt |-> IF by = "retry" THEN NextAttempt ELSE 0]
  <2>1. by \in AllRecoveryActions \ {"approve"}
    BY <1>11, RunControlAssumption DEF WatchdogActs
  <2>2. /\ p \in Aborts /\ p.attempt <= MaxRecoveryAttempts /\ IssueAbort(p)
        /\ p.by = "retry" => born + Promised < MaxRuns
    BY <1>0, <1>10, <1>11, <2>1 DEF WatchdogActs, Aborts
  <2>3. QED
    BY <2>2, IssueAbortBooks
<1>12. ASSUME NEW r \in Runs, NEW k \in 1 .. 4, CrashInRecovery(r, k) PROVE Books'
  <2>1. \E a \in 0 .. MaxRecoveryAttempts : Recover(r, a, k)
    <3>1. \A p \in pending : p.attempt \in 0 .. MaxRecoveryAttempts
      BY <1>0 DEF Books, Aborts
    <3>2. QED
      BY <1>0, <1>10, <1>12, <3>1 DEF CrashInRecovery
  <2>2. pending' = {} /\ born < MaxRuns
    BY <1>12 DEF CrashInRecovery, Forget
  <2>3. QED
    BY <1>2, <2>1, <2>2, RecoverBooks
<1>13. ASSUME NEW p \in pending, CompleteAbort(p) PROVE Books'
  <2>1. p \in Aborts /\ p.attempt <= MaxRecoveryAttempts
    BY DEF Books
  <2>2. /\ IsFiniteSet(pending') /\ Promised' \in Nat
        /\ Promised' = IF p.by = "retry" THEN Promised - 1 ELSE Promised
        /\ p.by = "retry" => Promised > 0
    BY <1>13, PromisedRemoved DEF CompleteAbort, Books
  <2>3. /\ born' \in 0 .. MaxRuns
        /\ born' = born \/ (p.by = "retry" /\ born' <= born + 1)
        /\ jobAttempt' \in [Runs -> 0 .. MaxRecoveryAttempts]
        /\ parent' \in [Runs -> Runs \union {0}]
    BY <1>0, <1>13, <2>1, <2>2, AfterAbortBooks DEF CompleteAbort, Books
  <2>4. born' + Promised' <= MaxRuns
    <3>1. born + Promised <= MaxRuns /\ born' \in Nat
      BY <1>0, <2>3 DEF Books
    <3>2. QED
      BY <1>0, <2>2, <2>3, <3>1 DEF Promised
  <2>5. pending' = pending \ {p}
    BY <1>13 DEF CompleteAbort
  <2>6. QED
    BY <2>2, <2>3, <2>4, <2>5 DEF Books
<1>14. ASSUME NEW c \in Controls,
              \/ ControlStep(c)
              \/ \E r \in Runs : ApprovalOpens(c, r) \/ \E kind : ControlOpens(c, r, kind)
       PROVE  Books'
  <2>1. UNCHANGED <<born, pending, jobAttempt, parent>>
    BY <1>14 DEF ControlStep, ControlRuns, ControlOverflows, ControlThrows, ControlExecutes,
       ControlEnds, ApprovalOpens, ControlOpens
  <2>2. QED
    BY <1>1, <2>1
<1>15. CASE UNCHANGED vars
  BY <1>1, <1>15 DEF vars
<1>16. QED
  BY <1>3, <1>4, <1>5, <1>6, <1>7, <1>8, <1>9, <1>11, <1>12, <1>13, <1>14, <1>15 DEF Next

WorkerTypes ==
  /\ attempt \in [Runs -> 0 .. MaxAttempts - 1]
  /\ boots \in 0 .. MaxBoots /\ up \in BOOLEAN
  /\ ~up => boots < MaxBoots
  /\ active \in Runs \union {0}
  /\ pc \in {"idle", "preparing", "assembling", "executing", "settling",
             "recording", "closing"}
  /\ result \in Outcomes \union {"none"}
  /\ host \in {"none", "child", "tmux", "api"}
  /\ watched \subseteq Runs
  /\ paused \subseteq Runs

(* An attempt is only counted when there is one left.                      *)
LEMMA AttemptsStay ==
  ASSUME WorkerTypes, NEW s, Throw(s)
  PROVE  attempt' \in [Runs -> 0 .. MaxAttempts - 1]
<1>1. MaxAttempts \in Nat \ {0} /\ \A r \in Runs : attempt[r] \in 0 .. MaxAttempts - 1
  BY RunControlAssumption DEF WorkerTypes
<1>2. CASE active \in Runs /\ Rethrown(active, s) = "queued"
  <2>1. attempt[active] + 1 \in 0 .. MaxAttempts - 1
    BY <1>1, <1>2 DEF Rethrown
  <2>2. attempt' = [attempt EXCEPT ![active] = @ + 1]
    BY <1>2 DEF Throw
  <2>3. QED
    BY <2>1, <2>2 DEF WorkerTypes
<1>3. CASE ~(active \in Runs /\ Rethrown(active, s) = "queued")
  BY <1>3 DEF Throw, WorkerTypes
<1>4. QED
  BY <1>2, <1>3

LEMMA WorkerStep == WorkerTypes /\ Books /\ [Next]_vars => WorkerTypes'
<1> SUFFICES ASSUME WorkerTypes, Books, [Next]_vars PROVE WorkerTypes'
  OBVIOUS
<1>0. MaxAttempts \in Nat \ {0} /\ MaxBoots \in Nat \ {0}
  BY RunControlAssumption
<1> USE DEF rows, memory, worker
<1>1. ASSUME NEW p, p.run \in Runs, AfterAbort(p)
      PROVE  UNCHANGED attempt /\ paused' \subseteq Runs
  BY <1>1 DEF AfterAbort, Recover, PauseFlags, WorkerTypes
<1>2. ASSUME NEW p, p.run \in Runs, IssueAbort(p)
      PROVE  UNCHANGED attempt /\ paused' \subseteq Runs
  BY <1>1, <1>2 DEF IssueAbort, WorkerTypes
<1>3. ASSUME Forget, UNCHANGED attempt PROVE WorkerTypes'
  BY <1>0, <1>3 DEF Forget, HandlerEnds, WorkerTypes
<1>4. CASE EnqueueRun \/ \E r \in Runs : SkipItem(r) \/ LeaseExpires(r)
  <2>1. UNCHANGED <<attempt, boots, up, memory>>
    BY <1>4 DEF EnqueueRun, SkipItem, LeaseExpires
  <2>2. QED
    BY <2>1 DEF WorkerTypes
<1>5. ASSUME NEW r \in Runs, StartItem(r) PROVE WorkerTypes'
  BY <1>5 DEF StartItem, WorkerTypes
<1>6. CASE Handler
  <2>1. active \in Runs /\ up
    BY <1>6 DEF Handler, BlockRun, BeginExecution, Launch, AnswerWithoutRuntime, ExecutionEnds,
       CloseTerminal, RecordOutcome, FollowUp, CorrectOutcome, RequeueRun, FinishItem,
       HandlerThrows, At, WorkerTypes
  <2>2. ASSUME NEW o \in Outcomes,
               BlockRun(o) \/ AnswerWithoutRuntime(o) \/ ExecutionEnds(o)
        PROVE  WorkerTypes'
    BY <2>2 DEF BlockRun, AnswerWithoutRuntime, ExecutionEnds, WorkerTypes
  <2>3. ASSUME NEW o \in Outcomes, CloseTerminal(o) PROVE WorkerTypes'
    BY <2>3 DEF CloseTerminal, WorkerTypes
  <2>4. ASSUME NEW o \in Outcomes, RecordOutcome(o) \/ CorrectOutcome(o) PROVE WorkerTypes'
    BY <2>4 DEF RecordOutcome, CorrectOutcome, WorkerTypes
  <2>5. CASE BeginExecution
    BY <2>1, <2>5 DEF BeginExecution, WorkerTypes
  <2>6. ASSUME NEW h \in {"child", "tmux", "api"}, Launch(h) PROVE WorkerTypes'
    BY <2>6 DEF Launch, WorkerTypes
  <2>7. CASE FollowUp
    BY <2>7 DEF FollowUp, WorkerTypes
  <2>8. CASE RequeueRun
    <3>1. attempt[active] + 1 \in 0 .. MaxAttempts - 1
      BY <1>0, <2>1, <2>8 DEF RequeueRun, WorkerTypes
    <3>2. attempt' \in [Runs -> 0 .. MaxAttempts - 1]
      BY <2>8, <3>1 DEF RequeueRun, WorkerTypes
    <3>3. QED
      BY <2>8, <3>2 DEF RequeueRun, HandlerEnds, WorkerTypes
  <2>9. CASE FinishItem \/ HandlerThrows
    <3>1. attempt' \in [Runs -> 0 .. MaxAttempts - 1]
      BY <2>9, AttemptsStay DEF FinishItem, HandlerThrows, WorkerTypes
    <3>2. HandlerEnds /\ UNCHANGED <<boots, up, watched, paused>>
      BY <2>9 DEF FinishItem, HandlerThrows, Throw
    <3>3. QED
      BY <3>1, <3>2 DEF HandlerEnds, WorkerTypes
  <2>10. {"completed", "retryable", "fatal", "waiting"} \subseteq Outcomes
    BY DEF Outcomes, Natural
  <2>11. QED
    BY <1>6, <2>2, <2>3, <2>4, <2>5, <2>6, <2>7, <2>8, <2>9, <2>10 DEF Handler
<1>7. CASE Crash
  BY <1>3, <1>7 DEF Crash
<1>8. CASE Boot
  BY <1>0, <1>8 DEF Boot, WorkerTypes
<1>9. ASSUME NEW r \in Runs, NEW by,
             OperatorAborts(r) \/ WatchdogActs(r, by)
      PROVE  WorkerTypes'
  <2>1. /\ \E p : p.run = r /\ IssueAbort(p)
        /\ UNCHANGED <<boots, up, worker, watched>>
    BY <1>9 DEF OperatorAborts, WatchdogActs
  <2>2. UNCHANGED attempt /\ paused' \subseteq Runs
    BY <1>2, <2>1
  <2>3. QED
    BY <2>1, <2>2 DEF WorkerTypes
<1>10. ASSUME NEW p \in pending, CompleteAbort(p) PROVE WorkerTypes'
  <2>1. p.run \in Runs
    BY DEF Books, Aborts
  <2>2. UNCHANGED attempt /\ paused' \subseteq Runs
    BY <1>1, <1>10, <2>1 DEF CompleteAbort
  <2>3. QED
    BY <1>10, <2>2 DEF CompleteAbort, WorkerTypes
<1>11. ASSUME NEW r \in Runs, NEW k, CrashInReservation(r) \/ CrashInRecovery(r, k)
       PROVE  WorkerTypes'
  BY <1>3, <1>11 DEF CrashInReservation, CrashInRecovery, Recover
<1>12. ASSUME NEW c \in Controls,
              \/ ControlStep(c)
              \/ \E r \in Runs : ApprovalOpens(c, r) \/ \E kind : ControlOpens(c, r, kind)
       PROVE  WorkerTypes'
  <2>1. UNCHANGED <<attempt, boots, up, worker, watched, paused>>
    BY <1>12 DEF ControlStep, ControlRuns, ControlOverflows, ControlThrows, ControlExecutes,
       ControlEnds, ApprovalOpens, ControlOpens
  <2>2. QED
    BY <2>1 DEF WorkerTypes
<1>13. CASE UNCHANGED vars
  BY <1>13 DEF vars, WorkerTypes
<1>14. QED
  BY <1>4, <1>5, <1>6, <1>7, <1>8, <1>9, <1>10, <1>11, <1>12, <1>13 DEF Next

LEMMA BooksInit == Init => Books
<1> SUFFICES ASSUME Init PROVE Books
  OBVIOUS
<1>1. MaxRuns \in Nat \ {0} /\ MaxRecoveryAttempts \in Nat
  BY RunControlAssumption
<1>2. pending = {} /\ {p \in pending : p.by = "retry"} = {}
  BY DEF Init
<1>3. IsFiniteSet(pending) /\ Promised = 0
  BY <1>2, FS_EmptySet DEF Promised
<1>4. QED
  BY <1>1, <1>2, <1>3 DEF Init, Books

LEMMA WorkerInit == Init => WorkerTypes
<1>1. MaxAttempts \in Nat \ {0} /\ MaxBoots \in Nat \ {0}
  BY RunControlAssumption
<1>2. QED
  BY <1>1 DEF Init, WorkerTypes

(* Every variable keeps its type: no run, attempt, recovery or boot beyond *)
(* its bound, and no abort but of a run, in any order of the parties.      *)
THEOREM TypeCorrect == Spec => []TypeOK
<1>1. Init => RecoveryInv /\ Books /\ WorkerTypes
  BY RecoveryInit, BooksInit, WorkerInit
<1>2. RecoveryInv /\ Books /\ WorkerTypes /\ [Next]_vars
        => RecoveryInv' /\ Books' /\ WorkerTypes'
  BY RecoveryStep, BooksStep, WorkerStep
<1>3. RecoveryInv /\ Books /\ WorkerTypes => TypeOK
  <2> SUFFICES ASSUME RecoveryInv, Books, WorkerTypes PROVE TypeOK
    OBVIOUS
  <2>1. Shape /\ MaxRecoveryAttempts \in Nat
    BY RunControlAssumption DEF RecoveryInv
  <2>2. jobAttempt \in [Runs -> Nat]
    BY <2>1 DEF Books
  <2>3. QED
    BY <2>1, <2>2 DEF TypeOK, Shape, Books, WorkerTypes, RunStates, ItemStates, JobStates
<1>4. QED
  BY <1>1, <1>2, <1>3, PTL DEF Spec

-----------------------------------------------------------------------------
(* Without tmux no abort waits, so a recovery is decided and written in    *)
(* one step, and its number is still new when it is written.               *)

NothingWaits ==
  /\ pending = {}
  /\ host # "tmux"
  /\ \A c \in Controls : control[c].host # "tmux"
  /\ \A r \in Runs : handle[r] # "aborting"

Numbered ==
  /\ \A n \in Runs : job[n] # "none" => jobAttempt[n] > 0
  /\ \A m, n \in Runs : job[m] # "none" /\ job[n] # "none" /\ m # n
                          => jobAttempt[m] # jobAttempt[n]

BoundInv == RecoveryInv /\ Books /\ NothingWaits /\ Numbered

LEMMA AbortIsPrompt ==
  ASSUME BoundInv, NEW r \in Runs
  PROVE  ~KillsTmux(r)
  BY NamesDiffer DEF BoundInv, NothingWaits, KillsTmux, RecoveryInv, Shape

LEMMA NumbersKept ==
  ASSUME Numbered, UNCHANGED jobAttempt, \A n \in Runs : job'[n] # "none" => job[n] # "none"
  PROVE  Numbered'
  BY DEF Numbered

LEMMA WithdrawNumbers ==
  ASSUME NEW S \in SUBSET Scheduled, NEW to, NEW n \in Runs, Withdraw(job, S, to)[n] # "none"
  PROVE  job[n] # "none"
  BY DEF Withdraw, Scheduled

LEMMA ConcludeNumbers ==
  ASSUME Numbered, NEW r, NEW s, Conclude(r, s), UNCHANGED jobAttempt
  PROVE  Numbered'
  BY NumbersKept, WithdrawNumbers, ObsoleteIsScheduled DEF Conclude

(* The number of a new recovery is not that of an earlier one.             *)
LEMMA RecoverNumbers ==
  ASSUME RecoveryInv, Books, Numbered, NEW r, NEW k, Recover(r, NextAttempt, k)
  PROVE  Numbered'
<1> DEFINE n0 == born + 1
           others == IF k >= 4 THEN Scheduled ELSE {}
<1>1. NextAttempt \in Nat \ {0} /\ \A n \in Runs : jobAttempt[n] < NextAttempt
  BY NextIsNew DEF Books
<1>2. others \in SUBSET Scheduled
  OBVIOUS
<1>3. \A n \in Runs : Withdraw(job, others, "superseded")[n] # "none" => job[n] # "none"
  BY <1>2, WithdrawNumbers
<1>4. \A n \in Runs :
        /\ job'[n] = IF n = n0 /\ k >= 3 THEN "scheduled"
                     ELSE Withdraw(job, others, "superseded")[n]
        /\ jobAttempt'[n] = IF n = n0 /\ k >= 3 THEN NextAttempt ELSE jobAttempt[n]
  BY DEF Recover, Withdraw, Books
<1>5. \A n \in Runs : jobAttempt[n] \in Nat
  BY DEF Books
<1> HIDE DEF n0, others
<1>6. ASSUME NEW n \in Runs, job'[n] # "none"
      PROVE  /\ jobAttempt'[n] > 0
             /\ n = n0 /\ k >= 3 => jobAttempt'[n] = NextAttempt
             /\ ~(n = n0 /\ k >= 3) => job[n] # "none" /\ jobAttempt'[n] = jobAttempt[n]
  BY <1>1, <1>3, <1>4, <1>6 DEF Numbered
<1>7. QED
  BY <1>1, <1>5, <1>6 DEF Numbered

LEMMA AbortNumbers ==
  ASSUME BoundInv, NEW p, p.run \in Runs, IssueAbort(p),
         p.by = "retry" => p.attempt = NextAttempt
  PROVE  /\ Numbered'
         /\ pending' = {}
         /\ \A r \in Runs : handle'[r] # "aborting"
<1>1. ~KillsTmux(p.run)
  BY AbortIsPrompt
<1>2. AfterAbort(p) /\ handle' = [handle EXCEPT ![p.run] = "none"] /\ UNCHANGED pending
  BY <1>1 DEF IssueAbort
<1>3. pending' = {} /\ \A r \in Runs : handle'[r] # "aborting"
  BY <1>2 DEF BoundInv, NothingWaits, RecoveryInv, Shape
<1>4. CASE p.by = "operator"
  BY <1>2, <1>3, <1>4, ConcludeNumbers DEF AfterAbort, BoundInv
<1>5. CASE p.by = "retry"
  BY <1>2, <1>3, <1>5, RecoverNumbers DEF AfterAbort, BoundInv
<1>6. CASE p.by \notin {"operator", "retry"}
  BY <1>2, <1>3, <1>6, NumbersKept DEF AfterAbort, BoundInv
<1>7. QED
  BY <1>4, <1>5, <1>6

LEMMA BoundStep ==
  ASSUME BoundInv, [Next]_vars, Hosting # "tmux"
  PROVE  BoundInv'
<1>1. RecoveryInv' /\ Books'
  BY RecoveryStep, BooksStep DEF BoundInv
<1>2. ASSUME NothingWaits', Numbered' PROVE BoundInv'
  BY <1>1, <1>2 DEF BoundInv
<1>3. ASSUME UNCHANGED <<job, jobAttempt>> PROVE Numbered'
  BY <1>3, NumbersKept DEF BoundInv
<1>4. \A h, t : h \in Hosts(t) => h # "tmux"
  BY RunControlAssumption DEF Hosts
<1> USE DEF rows, memory, worker
<1>5. ASSUME Forget PROVE NothingWaits'
  BY <1>5 DEF Forget, HandlerEnds, NothingWaits, NoCall
<1>6. CASE EnqueueRun \/ \E r \in Runs : SkipItem(r) \/ LeaseExpires(r)
  <2>1. UNCHANGED <<job, jobAttempt, memory>>
    BY <1>6 DEF EnqueueRun, SkipItem, LeaseExpires
  <2>2. QED
    BY <1>2, <1>3, <2>1 DEF BoundInv, NothingWaits
<1>7. ASSUME NEW r \in Runs, StartItem(r) PROVE BoundInv'
  <2>1. Numbered'
    BY <1>7, NumbersKept DEF StartItem, BoundInv, RecoveryInv, Shape
  <2>2. QED
    BY <1>2, <1>7, <2>1 DEF StartItem, BoundInv, NothingWaits
<1>8. CASE Handler
  <2>1. Numbered'
    <3>1. CASE RequeueRun
      BY <3>1, NumbersKept, WithdrawNumbers, ObsoleteIsScheduled DEF RequeueRun, BoundInv
    <3>2. ASSUME NEW o, RecordOutcome(o) PROVE Numbered'
      BY <3>2, ConcludeNumbers DEF RecordOutcome, BoundInv
    <3>3. QED
      BY <1>3, <1>8, <3>1, <3>2 DEF Handler, BlockRun, BeginExecution, Launch,
         AnswerWithoutRuntime, ExecutionEnds, CloseTerminal, FollowUp, CorrectOutcome,
         FinishItem, HandlerThrows
  <2>2. UNCHANGED <<pending, control>> /\ (host' = host \/ host' # "tmux")
    BY <1>4, <1>8 DEF Handler, BlockRun, BeginExecution, Launch, AnswerWithoutRuntime,
       ExecutionEnds, CloseTerminal, RecordOutcome, FollowUp, CorrectOutcome, RequeueRun,
       FinishItem, HandlerThrows, Throw, HandlerEnds
  <2>3. \/ UNCHANGED handle
        \/ handle' = [handle EXCEPT ![active] = "launch"]
        \/ handle' = [handle EXCEPT ![active] = "none"]
    BY <1>8 DEF Handler, BlockRun, BeginExecution, Launch, AnswerWithoutRuntime,
       ExecutionEnds, Unregister, CloseTerminal, RecordOutcome, FollowUp, CorrectOutcome,
       RequeueRun, FinishItem, HandlerThrows
  <2>4. \A r \in Runs : handle'[r] # "aborting"
    BY <2>3 DEF BoundInv, NothingWaits, RecoveryInv, Shape
  <2>5. QED
    BY <1>2, <2>1, <2>2, <2>4 DEF BoundInv, NothingWaits
<1>9. CASE Crash
  BY <1>2, <1>3, <1>5, <1>9 DEF Crash
<1>10. CASE Boot
  <2>1. Numbered'
    BY <1>10, NumbersKept DEF Boot, Scheduled, BoundInv
  <2>2. QED
    BY <1>2, <1>10, <2>1 DEF Boot, BoundInv, NothingWaits
<1>11. ASSUME NEW r \in Runs, NEW by, OperatorAborts(r) \/ WatchdogActs(r, by)
       PROVE  BoundInv'
  <2>1. \E p : /\ p.run \in Runs /\ IssueAbort(p)
               /\ p.by = "retry" => p.attempt = NextAttempt
    BY <1>11 DEF OperatorAborts, WatchdogActs
  <2>2. UNCHANGED <<worker, control>>
    BY <1>11 DEF OperatorAborts, WatchdogActs
  <2>3. Numbered' /\ pending' = {} /\ \A s \in Runs : handle'[s] # "aborting"
    BY <2>1, AbortNumbers
  <2>4. QED
    BY <1>2, <2>2, <2>3 DEF BoundInv, NothingWaits
<1>12. ASSUME NEW r \in Runs, CrashInReservation(r) PROVE BoundInv'
  BY <1>2, <1>3, <1>5, <1>12 DEF CrashInReservation
<1>13. ASSUME NEW r \in Runs, NEW k \in 1 .. 4, CrashInRecovery(r, k) PROVE BoundInv'
  <2>1. Recover(r, NextAttempt, k) /\ Forget
    BY <1>13 DEF CrashInRecovery, BoundInv, NothingWaits
  <2>2. QED
    BY <1>2, <1>5, <2>1, RecoverNumbers DEF BoundInv
<1>14. ASSUME NEW p \in pending, CompleteAbort(p) PROVE BoundInv'
  BY DEF BoundInv, NothingWaits
<1>15. ASSUME NEW c \in Controls, ControlStep(c) PROVE BoundInv'
  <2>1. /\ control \in [Controls -> Calls] /\ c # "aborting"
        /\ handle \in [Runs -> {"none", "launch", "aborting"} \union Controls]
    BY NamesDiffer DEF BoundInv, RecoveryInv, Shape
  <2>2. Numbered'
    <3>1. CASE UNCHANGED jobAttempt /\ \E S \in SUBSET Scheduled : job' = Withdraw(job, S, "cancelled")
      BY <3>1, NumbersKept, WithdrawNumbers DEF BoundInv
    <3>2. Scheduled \in SUBSET Scheduled /\ {} \in SUBSET Scheduled
      OBVIOUS
    <3>3. QED
      BY <1>3, <1>15, <3>1, <3>2, ObsoleteIsScheduled
         DEF ControlStep, ControlRuns, ControlOverflows, ControlThrows, ControlExecutes,
         ControlEnds, Conclude
  <2>3. \A d \in Controls : control'[d].host # "tmux"
    <3>1. \/ control' = [control EXCEPT ![c].at = "assembling"]
          \/ control' = [control EXCEPT ![c] = NoCall]
          \/ \E h : h # "tmux" /\ control' = [control EXCEPT ![c].at = "executing", ![c].host = h]
      BY <1>4, <1>15 DEF ControlStep, ControlRuns, ControlOverflows, ControlThrows,
         ControlExecutes, ControlEnds
    <3>2. QED
      BY <2>1, <3>1 DEF NoCall, Calls, BoundInv, NothingWaits
  <2>4. \A r \in Runs : handle'[r] # "aborting"
    <3>1. \/ UNCHANGED handle
          \/ \E r : handle' = [handle EXCEPT ![r] = c]
          \/ \E r : handle' = [handle EXCEPT ![r] = "none"]
      BY <1>15 DEF ControlStep, ControlRuns, ControlOverflows, ControlThrows,
         ControlExecutes, ControlEnds, Unregister
    <3>2. QED
      BY <2>1, <3>1 DEF BoundInv, NothingWaits
  <2>5. UNCHANGED <<pending, host>>
    BY <1>15 DEF ControlStep, ControlRuns, ControlOverflows, ControlThrows, ControlExecutes,
       ControlEnds
  <2>6. QED
    BY <1>2, <2>2, <2>3, <2>4, <2>5 DEF BoundInv, NothingWaits
<1>16. ASSUME NEW c \in Controls, NEW r \in Runs, NEW kind,
              ApprovalOpens(c, r) \/ ControlOpens(c, r, kind)
       PROVE  BoundInv'
  <2>1. UNCHANGED <<rows, worker, handle, pending>>
    BY <1>16 DEF ApprovalOpens, ControlOpens
  <2>2. \A d \in Controls : control'[d].host \in {control[d].host, "none"}
    BY <1>16 DEF ApprovalOpens, ControlOpens, BoundInv, RecoveryInv, Shape
  <2>3. QED
    BY <1>2, <1>3, <2>1, <2>2 DEF BoundInv, NothingWaits
<1>17. CASE UNCHANGED vars
  BY <1>2, <1>3, <1>17 DEF vars, BoundInv, NothingWaits
<1>18. QED
  BY <1>6, <1>7, <1>8, <1>9, <1>10, <1>11, <1>12, <1>13, <1>14, <1>15, <1>16, <1>17 DEF Next

(* Outside tmux the watchdog never has more recovery jobs of a lineage     *)
(* than maxRecoveryAttempts, for any number of runs, crashes and calls:    *)
(* the jobs carry different numbers and none is above the limit.           *)
THEOREM RecoveriesStayBounded ==
  ASSUME Hosting # "tmux"
  PROVE  Spec => []RecoveriesAreBounded
<1>1. Init => BoundInv
  <2> SUFFICES ASSUME Init PROVE Books /\ NothingWaits /\ Numbered
    BY RecoveryInit DEF BoundInv
  <2>1. NothingWaits /\ Numbered
    BY DEF Init, NothingWaits, Numbered, NoCall
  <2>2. QED
    BY <2>1, BooksInit
<1>2. BoundInv /\ [Next]_vars => BoundInv'
  BY BoundStep
<1>3. BoundInv => RecoveriesAreBounded
  <2> SUFFICES ASSUME BoundInv PROVE RecoveriesAreBounded
    OBVIOUS
  <2> DEFINE J == {n \in Runs : job[n] # "none"}
             N == 1 .. MaxRecoveryAttempts
             f == [n \in J |-> jobAttempt[n]]
  <2>1. MaxRecoveryAttempts \in Nat
    BY RunControlAssumption
  <2>2. \A n \in J : jobAttempt[n] \in N
    BY <2>1 DEF BoundInv, Books, Numbered
  <2>3. \A m, n \in J : m # n => jobAttempt[m] # jobAttempt[n]
    BY DEF BoundInv, Numbered
  <2>4. IsFiniteSet(N) /\ Cardinality(N) = MaxRecoveryAttempts
    <3>1. 1 \in Int /\ MaxRecoveryAttempts \in Int
      BY <2>1
    <3>2. /\ IsFiniteSet(1 .. MaxRecoveryAttempts)
          /\ Cardinality(1 .. MaxRecoveryAttempts)
               = IF 1 > MaxRecoveryAttempts THEN 0 ELSE MaxRecoveryAttempts - 1 + 1
      BY <3>1, FS_Interval, Zenon
    <3>3. QED
      BY <2>1, <3>2
  <2> HIDE DEF J, N
  <2>5. f \in Injection(J, N)
    BY <2>2, <2>3 DEF Injection, IsInjective
  <2> HIDE DEF f
  <2>6. Cardinality(J) <= Cardinality(N)
    BY <2>4, <2>5, FS_Injection
  <2>7. QED
    BY <2>4, <2>6 DEF J, RecoveriesAreBounded
<1>4. QED
  BY <1>1, <1>2, <1>3, PTL DEF Spec

-----------------------------------------------------------------------------
(* Pauses, when no step throws, nobody steers and no abort waits: a run is *)
(* watched only while its handler executes, and a handler whose run was    *)
(* paused carries that to the end.                                         *)

Executing == {"assembling", "executing", "settling"}

WatchedIsExecuting == \A r \in watched : active = r /\ pc \in Executing

PauseIsCarried ==
  \A r \in Runs : status[r] = "waiting_input" /\ active = r =>
    \/ pc \in Executing /\ r \in paused
    \/ pc \in {"recording", "closing"} /\ result = "waiting"

PauseInv ==
  /\ RecoveryInv /\ Books /\ WorkerTypes /\ NothingWaits /\ Numbered
  /\ WatchedIsExecuting /\ PauseIsCarried

Undisturbed == /\ MayThrow = FALSE /\ Controls = {} /\ Hosting # "tmux"
               /\ "wait" \notin RecoveryActions

StaysPaused == \A r \in Runs : status[r] = "waiting_input" => status'[r] = "waiting_input"

LEMMA PauseKept ==
  ASSUME PauseInv, UNCHANGED <<status, active, pc, result, watched, paused>>
  PROVE  WatchedIsExecuting' /\ PauseIsCarried' /\ StaysPaused
  BY DEF PauseInv, WatchedIsExecuting, PauseIsCarried, StaysPaused

LEMMA PauseForgotten ==
  ASSUME Forget
  PROVE  WatchedIsExecuting' /\ PauseIsCarried'
<1>1. active' = 0 /\ watched' = {} /\ \A r \in Runs : r # 0
  BY RunControlAssumption DEF Forget, HandlerEnds, Runs
<1>2. QED
  BY <1>1 DEF WatchedIsExecuting, PauseIsCarried

(* The handler: whatever it does to its own run, a pause survives.         *)
LEMMA HandlerCarries ==
  ASSUME PauseInv, Undisturbed, Handler
  PROVE  WatchedIsExecuting' /\ PauseIsCarried' /\ StaysPaused
<1>1. active \in Runs /\ active # 0
  BY DEF Handler, BlockRun, BeginExecution, Launch, AnswerWithoutRuntime, ExecutionEnds,
     CloseTerminal, RecordOutcome, FollowUp, CorrectOutcome, RequeueRun, FinishItem,
     HandlerThrows, At, PauseInv, WorkerTypes
<1>2. status \in [Runs -> RunStates] /\ 0 \notin Runs
  BY RunControlAssumption DEF PauseInv, RecoveryInv, Shape, Runs
<1>3. /\ \A r \in watched : r = active /\ pc \in Executing
      /\ status[active] = "waiting_input" =>
           \/ pc \in Executing /\ active \in paused
           \/ pc \in {"recording", "closing"} /\ result = "waiting"
  BY <1>1 DEF PauseInv, WatchedIsExecuting, PauseIsCarried
<1> USE DEF rows, memory, worker
<1>4. ASSUME active' = active, status' = status,
             \A r \in watched' : r = active /\ pc' \in Executing,
             status[active] = "waiting_input" =>
               \/ pc' \in Executing /\ active \in paused'
               \/ pc' \in {"recording", "closing"} /\ result' = "waiting"
      PROVE  WatchedIsExecuting' /\ PauseIsCarried' /\ StaysPaused
  BY <1>4 DEF WatchedIsExecuting, PauseIsCarried, StaysPaused
<1>5. ASSUME NEW s, active' = active, status' = [status EXCEPT ![active] = s],
             status[active] = "waiting_input" => s = "waiting_input",
             \A r \in watched' : r = active /\ pc' \in Executing,
             s = "waiting_input" => pc' \in {"recording", "closing"} /\ result' = "waiting"
      PROVE  WatchedIsExecuting' /\ PauseIsCarried' /\ StaysPaused
  BY <1>1, <1>2, <1>5 DEF WatchedIsExecuting, PauseIsCarried, StaysPaused
<1>6. ASSUME active' = 0, watched' = {}, StaysPaused
      PROVE  WatchedIsExecuting' /\ PauseIsCarried' /\ StaysPaused
  BY <1>2, <1>6 DEF WatchedIsExecuting, PauseIsCarried
<1>7. ASSUME NEW o \in {"fatal", "waiting"}, BlockRun(o)
      PROVE  WatchedIsExecuting' /\ PauseIsCarried' /\ StaysPaused
  BY <1>3, <1>5, <1>7 DEF BlockRun, At, Executing, StatusOf
<1>8. CASE BeginExecution
  BY <1>3, <1>5, <1>8 DEF BeginExecution, At, Executing
<1>9. CASE \/ FollowUp \/ \E h : Launch(h)
           \/ \E o : AnswerWithoutRuntime(o) \/ ExecutionEnds(o)
  BY <1>3, <1>4, <1>9 DEF FollowUp, Launch, AnswerWithoutRuntime, ExecutionEnds, At, Executing
<1>10. ASSUME NEW o, CloseTerminal(o)
       PROVE  WatchedIsExecuting' /\ PauseIsCarried' /\ StaysPaused
  BY <1>3, <1>4, <1>10 DEF CloseTerminal, At, Executing
<1>11. CASE RequeueRun
  <2>1. status[active] # "waiting_input" /\ watched' = {} /\ active' = 0
    BY <1>3, <1>11 DEF RequeueRun, At, HandlerEnds, Executing
  <2>2. StaysPaused
    BY <1>2, <1>11, <2>1 DEF RequeueRun, StaysPaused
  <2>3. QED
    BY <1>6, <2>1, <2>2
<1>12. ASSUME NEW o \in Outcomes, RecordOutcome(o)
       PROVE  WatchedIsExecuting' /\ PauseIsCarried' /\ StaysPaused
  <2>1. o # "waiting" <=> StatusOf(o) # "waiting_input"
    BY DEF StatusOf, Outcomes, Natural
  <2>2. status[active] = "waiting_input" => o = "waiting"
    BY <1>3, <1>12 DEF RecordOutcome, Recorded, At, Executing
  <2>3. QED
    BY <1>3, <1>5, <1>12, <2>1, <2>2 DEF RecordOutcome, Conclude, At, Executing
<1>13. ASSUME NEW o \in {"completed", "fatal"}, CorrectOutcome(o)
       PROVE  WatchedIsExecuting' /\ PauseIsCarried' /\ StaysPaused
  BY <1>3, <1>5, <1>13 DEF CorrectOutcome, StatusOf, At, Executing
<1>14. CASE FinishItem
  BY <1>3, <1>6, <1>14 DEF FinishItem, Throw, HandlerEnds, At, Executing, StaysPaused
<1>15. CASE HandlerThrows
  BY <1>15 DEF HandlerThrows, Undisturbed
<1>16. QED
  BY <1>7, <1>8, <1>9, <1>10, <1>11, <1>12, <1>13, <1>14, <1>15 DEF Handler

LEMMA PauseStep ==
  ASSUME PauseInv, [Next]_vars, Undisturbed
  PROVE  PauseInv' /\ (StaysPaused \/ Decided)
<1>1. /\ RecoveryInv' /\ Books' /\ NothingWaits' /\ Numbered' /\ WorkerTypes'
  BY BoundStep, WorkerStep DEF PauseInv, BoundInv, Undisturbed
<1>2. ASSUME WatchedIsExecuting', PauseIsCarried', StaysPaused \/ Decided
      PROVE  PauseInv' /\ (StaysPaused \/ Decided)
  BY <1>1, <1>2 DEF PauseInv
<1>3. status \in [Runs -> RunStates] /\ pending = {}
  BY DEF PauseInv, RecoveryInv, Shape, NothingWaits
<1> USE DEF rows, memory, worker
<1>4. CASE Handler
  BY <1>2, <1>4, HandlerCarries
<1>5. CASE EnqueueRun
  <2>1. status[1] # "waiting_input" /\ 1 \in Runs
    BY <1>5, RunControlAssumption DEF EnqueueRun, PauseInv, RecoveryInv, UnbornIsAbsent, Runs
  <2>2. UNCHANGED <<active, pc, result, watched, paused>>
        /\ status' = [status EXCEPT ![1] = "queued"]
    BY <1>5 DEF EnqueueRun
  <2>3. WatchedIsExecuting' /\ PauseIsCarried' /\ StaysPaused
    BY <1>3, <2>1, <2>2
       DEF PauseInv, WatchedIsExecuting, PauseIsCarried, StaysPaused, RunStates
  <2>4. QED
    BY <1>2, <2>3
<1>6. CASE \/ Boot \/ UNCHANGED vars \/ \E r \in Runs : SkipItem(r) \/ LeaseExpires(r)
  <2>1. UNCHANGED <<status, active, pc, result, watched, paused>>
    BY <1>6 DEF Boot, vars, SkipItem, LeaseExpires
  <2>2. QED
    BY <1>2, <2>1, PauseKept
<1>7. ASSUME NEW r \in Runs, StartItem(r) PROVE PauseInv' /\ (StaysPaused \/ Decided)
  <2>1. /\ status[r] # "waiting_input" /\ active' = r /\ active = 0 /\ UNCHANGED watched
        /\ status' = [status EXCEPT ![r] = "accepted"]
    BY <1>7 DEF StartItem, NonReplayable
  <2>2. watched = {}
    BY <2>1, RunControlAssumption DEF PauseInv, WatchedIsExecuting, WorkerTypes, Runs
  <2>3. WatchedIsExecuting' /\ PauseIsCarried' /\ StaysPaused
    BY <1>3, <2>1, <2>2 DEF WatchedIsExecuting, PauseIsCarried, StaysPaused
  <2>4. QED
    BY <1>2, <2>3
<1>8. CASE Crash
  BY <1>2, <1>8, PauseForgotten DEF Crash, StaysPaused
<1>9. ASSUME NEW r \in Runs, CrashInReservation(r)
      PROVE  PauseInv' /\ (StaysPaused \/ Decided)
  BY <1>2, <1>9, PauseForgotten DEF CrashInReservation, StaysPaused
<1>10. ASSUME NEW r \in Runs, NEW k \in 1 .. 4, CrashInRecovery(r, k)
       PROVE  PauseInv' /\ (StaysPaused \/ Decided)
  <2>1. Decided /\ Forget
    BY <1>10 DEF CrashInRecovery, Decided
  <2>2. QED
    BY <1>2, <2>1, PauseForgotten
<1>11. ASSUME NEW p, p.run \in Runs, IssueAbort(p), p.by # "wait",
              p.by # "operator" => p.run \in watched,
              p.by = "retry" => born < MaxRuns,
              UNCHANGED <<worker, watched>>
       PROVE  WatchedIsExecuting' /\ PauseIsCarried'
  <2>1. AfterAbort(p)
    <3>1. ~KillsTmux(p.run)
      BY <1>11, AbortIsPrompt DEF PauseInv, BoundInv
    <3>2. QED
      BY <1>11, <3>1 DEF IssueAbort
  <2>2. WatchedIsExecuting'
    BY <1>11 DEF PauseInv, WatchedIsExecuting
  <2>3. paused' = PauseFlags(p) \/ UNCHANGED paused
    BY <2>1 DEF AfterAbort
  <2>4. paused \subseteq paused'
    BY <2>3 DEF PauseFlags
  <2>5. \A r \in Runs : status'[r] = "waiting_input" =>
          \/ status[r] = "waiting_input"
          \/ r = p.run /\ p.by = "pause" /\ r \in paused' /\ r \in watched
    BY <1>3, <1>11, <2>1 DEF AfterAbort, Conclude, Recover, PauseFlags
  <2>6. PauseIsCarried'
    BY <1>11, <2>4, <2>5 DEF PauseInv, PauseIsCarried, WatchedIsExecuting
  <2>7. QED
    BY <2>2, <2>6
<1>12. ASSUME NEW r \in Runs, OperatorAborts(r)
       PROVE  PauseInv' /\ (StaysPaused \/ Decided)
  <2>1. Decided
    BY <1>12 DEF Decided
  <2>2. WatchedIsExecuting' /\ PauseIsCarried'
    BY <1>11, <1>12 DEF OperatorAborts
  <2>3. QED
    BY <1>2, <2>1, <2>2
<1>13. ASSUME NEW r \in Runs, NEW by \in RecoveryActions, WatchdogActs(r, by)
       PROVE  PauseInv' /\ (StaysPaused \/ Decided)
  <2>1. Decided
    BY <1>13 DEF Decided
  <2>2. by = "retry" => born < MaxRuns
    BY <1>13, RunControlAssumption, PromisedIsNat DEF WatchdogActs, PauseInv, Books
  <2>3. WatchedIsExecuting' /\ PauseIsCarried'
    BY <1>11, <1>13, <2>2 DEF WatchdogActs, Undisturbed
  <2>4. QED
    BY <1>2, <2>1, <2>3
<1>14. QED
  BY <1>3, <1>4, <1>5, <1>6, <1>7, <1>8, <1>9, <1>10, <1>12, <1>13 DEF Next, Undisturbed

(* While no step throws, nobody steers and the watchdog does not ask a run *)
(* merely to wait, outside tmux: a run that waits for its operator is      *)
(* taken out of waiting_input by an operator or by the watchdog, never by  *)
(* its handler, wherever that was, however recoveries and crashes fall.    *)
THEOREM PausesHold ==
  ASSUME MayThrow = FALSE, Controls = {}, Hosting # "tmux", "wait" \notin RecoveryActions
  PROVE  Spec => PausedRunAwaitsOperator
<1> DEFINE Guarded == (\E r \in Runs : status[r] = "waiting_input" /\ status'[r] # "waiting_input")
                        => Decided
<1>1. Undisturbed
  BY DEF Undisturbed
<1>2. Init => PauseInv
  <2> SUFFICES ASSUME Init PROVE PauseInv
    OBVIOUS
  <2>1. NothingWaits /\ Numbered
    BY DEF Init, NothingWaits, Numbered, NoCall
  <2>2. WatchedIsExecuting /\ PauseIsCarried
    BY DEF Init, WatchedIsExecuting, PauseIsCarried
  <2>3. QED
    BY <2>1, <2>2, RecoveryInit, BooksInit, WorkerInit DEF PauseInv
<1>3. PauseInv /\ [Next]_vars => PauseInv'
  BY <1>1, PauseStep
<1>4. PauseInv /\ [Next]_vars => [Guarded]_vars
  <2> SUFFICES ASSUME PauseInv, [Next]_vars PROVE Guarded
    OBVIOUS
  <2>1. StaysPaused \/ Decided
    BY <1>1, PauseStep
  <2>2. QED
    BY <2>1 DEF StaysPaused
<1>5. QED
  BY <1>2, <1>3, <1>4, PTL DEF Spec, PausedRunAwaitsOperator

-----------------------------------------------------------------------------
(* The queue: RunControl uses it as WorkQueue lets its clients.            *)

(* The run under a handler has its item reserved, nothing executes while   *)
(* the process is down, and a recovery that may still be dispatched did    *)
(* not have its item deleted, so that the boot that restores it brings     *)
(* nothing back.                                                           *)
DownIsIdle == ~up => active = 0
ScheduledIsKept == \A n \in Runs : job[n] = "scheduled" => item[n] # "deleted"

ClientInv == RecoveryInv /\ ActiveHasItem /\ DownIsIdle /\ ScheduledIsKept

Phases == [r \in Runs |-> Phase(r)]

(* Where a client can move item n by itself.                               *)
Moves(n, v) ==
  \/ v = Phase(n)
  \/ Phase(n) = "none" /\ v = "waiting"
  \/ Phase(n) = "waiting" /\ v = "settled"
  \/ Phase(n) = "executing" /\ v \in {"waiting", "settled"}
  \/ Phase(n) = "waiting" /\ v = "executing" /\ \A m \in Runs : Phase(m) # "executing"

(* A call seen item by item: those of S are withdrawn while they wait, i   *)
(* moves to v if it is not one of them, and a crash interrupts what is     *)
(* executing.                                                              *)
LEMMA CallIs ==
  ASSUME Shape, NEW S \in SUBSET Runs, NEW i \in Runs, NEW v, NEW crash \in BOOLEAN,
         \A n \in S : Phase(n) = "waiting",
         IF i \in S THEN v = "gone" ELSE Moves(i, v),
         \A n \in Runs : Phase(n)' =
            IF n \in S THEN "gone"
            ELSE LET w == IF n = i THEN v ELSE Phase(n)
                 IN  IF crash /\ w = "executing" THEN "waiting" ELSE w
  PROVE  WQ!Call
<1> DEFINE W == WQ!Without(Phases, S)
           q == [W EXCEPT ![i] = v]
<1>1. \A n \in Runs : Phase(n) # "orphan"
  BY DEF Phase, Shape, ItemStates
<1>2. W = [n \in Runs |-> IF n \in S THEN "gone" ELSE Phase(n)]
  BY DEF WQ!Without, WQ!Withdrawn, Phases
<1>3. v \in WQ!Onward(W, i) \cup {W[i]}
  <2> SUFFICES ASSUME i \notin S PROVE v \in WQ!Onward(W, i) \cup {W[i]}
    BY <1>2
  <2>1. W[i] = Phase(i) /\ Moves(i, v)
    BY <1>2
  <2>2. CASE Phase(i) = "waiting" /\ v = "executing" /\ \A m \in Runs : Phase(m) # "executing"
    <3>1. \A m \in Runs : W[m] \notin {"executing", "orphan"}
      BY <1>1, <1>2, <2>2
    <3>2. WQ!Free(W, i)
      BY <3>1 DEF WQ!Free, WQ!Busy
    <3>3. QED
      BY <2>1, <2>2, <3>2 DEF WQ!Onward
  <2>3. CASE v = Phase(i)
    BY <2>1, <2>3
  <2>4. CASE Phase(i) = "none" /\ v = "waiting"
    BY <2>1, <2>4 DEF WQ!Onward
  <2>5. CASE Phase(i) = "waiting" /\ v = "settled"
    BY <2>1, <2>5 DEF WQ!Onward
  <2>6. CASE Phase(i) = "executing" /\ v \in {"waiting", "settled"}
    BY <2>1, <2>6 DEF WQ!Onward
  <2>7. QED
    BY <2>1, <2>2, <2>3, <2>4, <2>5, <2>6 DEF Moves
<1>4. S \in SUBSET WQ!Rows
  BY DEF WQ!Rows
<1>5. Phases' = IF crash THEN WQ!Restarted(q) ELSE q
  <2>1. q = [n \in Runs |-> IF n \in S THEN "gone" ELSE IF n = i THEN v ELSE Phase(n)]
    BY <1>2
  <2>2. v # "orphan"
    BY <1>1 DEF Moves
  <2>3. WQ!Restarted(q) = [n \in Runs |-> IF q[n] = "executing" THEN "waiting" ELSE q[n]]
    BY <1>1, <2>1, <2>2 DEF WQ!Restarted, WQ!Interrupted
  <2>4. CASE crash
    BY <2>1, <2>3, <2>4 DEF Phases
  <2>5. CASE ~crash
    BY <2>1, <2>5 DEF Phases
  <2>6. QED
    BY <2>4, <2>5
<1> HIDE DEF W
<1>6. QED
  BY <1>3, <1>4, <1>5 DEF WQ!Call, W, Phases

(* The items of the recoveries in S are withdrawn and only run i, and its  *)
(* handler, is concerned otherwise.                                        *)
Aside(S, i) ==
  /\ \A n \in Runs : n # i \/ n \in S => item'[n] = WithdrawItems(item, S)[n]
  /\ active' \in {active, i, 0}
  /\ active \notin {0, i} => active' = active

LEMMA AsideIsCall ==
  ASSUME Shape, NEW S \in SUBSET Runs, NEW i \in Runs, Aside(S, i),
         i \in S \/ Moves(i, Phase(i)'), i \in S => active' = active
  PROVE  WQ!Call
<1> DEFINE T == {n \in S : item[n] = "queued"}
<1>1. \A n \in Runs : n # i => Phase(n)' = IF n \in T THEN "gone" ELSE Phase(n)
  <2> SUFFICES ASSUME NEW n \in Runs, n # i
               PROVE  Phase(n)' = IF n \in T THEN "gone" ELSE Phase(n)
    OBVIOUS
  <2>1. item'[n] = IF n \in T THEN "deleted" ELSE item[n]
    BY DEF Aside, WithdrawItems
  <2>2. active' = n <=> active = n
    BY NamesDiffer DEF Aside
  <2>3. QED
    BY <2>1, <2>2 DEF Phase, Shape, ItemStates
<1>2. CASE i \in S
  <2>1. item'[i] = IF i \in T THEN "deleted" ELSE item[i]
    BY <1>2 DEF Aside, WithdrawItems
  <2>2. Phase(i)' = IF i \in T THEN "gone" ELSE Phase(i)
    BY <1>2, <2>1 DEF Phase, Shape, ItemStates
  <2>3. \A n \in T : Phase(n) = "waiting"
    BY DEF Phase
  <2>4. T \in SUBSET Runs
    OBVIOUS
  <2> HIDE DEF T
  <2>5. IF i \in T THEN Phase(i)' = "gone" ELSE Moves(i, Phase(i)')
    BY <2>2 DEF Moves
  <2>6. \A n \in Runs : Phase(n)' = IF n \in T THEN "gone"
                                    ELSE LET w == IF n = i THEN Phase(i)' ELSE Phase(n)
                                         IN  IF FALSE /\ w = "executing" THEN "waiting" ELSE w
    BY <1>1, <2>2
  <2>7. QED
    BY <2>3, <2>4, <2>5, <2>6, CallIs
<1>3. CASE i \notin S
  <2>3. \A n \in T : Phase(n) = "waiting"
    BY DEF Phase
  <2>4. T \in SUBSET Runs /\ i \notin T
    BY <1>3
  <2> HIDE DEF T
  <2>5. \A n \in Runs : Phase(n)' = IF n \in T THEN "gone"
                                    ELSE LET w == IF n = i THEN Phase(i)' ELSE Phase(n)
                                         IN  IF FALSE /\ w = "executing" THEN "waiting" ELSE w
    BY <1>1, <2>4
  <2>6. IF i \in T THEN Phase(i)' = "gone" ELSE Moves(i, Phase(i)')
    BY <1>3, <2>4
  <2>7. QED
    BY <2>3, <2>4, <2>5, <2>6, CallIs
<1>4. QED
  BY <1>2, <1>3

(* What a step owes: the invariant, and a call of the queue or nothing.    *)
Served ==
  /\ ActiveHasItem' /\ DownIsIdle' /\ ScheduledIsKept'
  /\ WQ!Call \/ UNCHANGED Phases

LEMMA QuietServed ==
  ASSUME ClientInv, UNCHANGED <<item, active>>, up' => up \/ active = 0, up => up',
         \A n \in Runs : job'[n] = "scheduled" => job[n] = "scheduled"
  PROVE  Served
<1>1. ActiveHasItem' /\ DownIsIdle' /\ ScheduledIsKept'
  BY DEF ClientInv, ActiveHasItem, DownIsIdle, ScheduledIsKept
<1>2. \A n \in Runs : Phase(n)' = Phase(n)
  BY DEF Phase
<1>3. QED
  BY <1>1, <1>2 DEF Served, Phases

(* Withdrawing recoveries, and writing nothing else in the queue.          *)
LEMMA WithdrawServed ==
  ASSUME ClientInv, NEW S \in SUBSET Scheduled, NEW to \in {"cancelled", "superseded"},
         item' = WithdrawItems(item, S), job' = Withdraw(job, S, to), UNCHANGED <<active, up>>
  PROVE  Served
<1>0. Shape /\ S \in SUBSET Runs
  BY DEF ClientInv, RecoveryInv, Scheduled
<1>1. ActiveHasItem'
  BY DEF ClientInv, ActiveHasItem, WithdrawItems
<1>2. DownIsIdle'
  BY DEF ClientInv, DownIsIdle
<1>3. ScheduledIsKept'
  BY DEF ClientInv, ScheduledIsKept, WithdrawItems, Withdraw
<1>4. CASE S = {}
  <2>1. item' = item
    BY <1>0, <1>4 DEF WithdrawItems, Shape
  <2>2. \A n \in Runs : Phase(n)' = Phase(n)
    BY <2>1 DEF Phase
  <2>3. QED
    BY <1>1, <1>2, <1>3, <2>2 DEF Served, Phases
<1>5. ASSUME NEW i \in S PROVE WQ!Call
  <2>1. i \in Runs /\ Aside(S, i)
    BY <1>0, <1>5 DEF Aside
  <2>2. QED
    BY <1>0, <1>5, <2>1, AsideIsCall
<1>6. QED
  BY <1>1, <1>2, <1>3, <1>4, <1>5 DEF Served

LEMMA ConcludeServed ==
  ASSUME ClientInv, NEW r, NEW s, Conclude(r, s), UNCHANGED <<active, up>>
  PROVE  Served
  BY WithdrawServed, ObsoleteIsScheduled DEF Conclude

(* A handler lets go of its item.                                          *)
LEMMA LetGoServed ==
  ASSUME ClientInv, NEW S \in SUBSET Scheduled, NEW to \in {"cancelled", "superseded"},
         NEW x \in {"queued", "done", "dead_letter"}, up, up', active # 0, active' = 0,
         item' = [WithdrawItems(item, S) EXCEPT ![active] = x], job' = Withdraw(job, S, to)
  PROVE  Served
<1>0. Shape /\ S \in SUBSET Runs /\ active \in Runs /\ item[active] = "processing"
  BY DEF ClientInv, RecoveryInv, Scheduled, ActiveHasItem
<1>1. PICK i \in Runs : i = active
  BY <1>0
<1>2. i \notin S
  BY <1>0, <1>1 DEF ClientInv, RecoveryInv, WaitingIsUntouched, Untouched, Scheduled
<1>3. ActiveHasItem' /\ DownIsIdle'
  BY DEF ActiveHasItem, DownIsIdle
<1>4. /\ item'[i] = x
      /\ \A n \in Runs : n # i => item'[n] = WithdrawItems(item, S)[n]
  BY <1>1 DEF WithdrawItems
<1>5. ScheduledIsKept'
  BY <1>0, <1>2, <1>4 DEF ClientInv, ScheduledIsKept, WithdrawItems, Withdraw
<1>6. Aside(S, i)
  BY <1>1, <1>2, <1>4 DEF Aside
<1>7. Phase(i) = "executing" /\ Phase(i)' \in {"waiting", "settled"}
  BY <1>0, <1>1, <1>4, NamesDiffer DEF Phase
<1>8. WQ!Call
  BY <1>0, <1>2, <1>6, <1>7, AsideIsCall DEF Moves
<1>9. QED
  BY <1>3, <1>5, <1>8 DEF Served

(* The writes that follow an abort: a recovery withdraws the one that was  *)
(* scheduled and submits the item of its own run.                          *)
LEMMA RecoverServed ==
  ASSUME ClientInv, NEW r, NEW a, Recover(r, a, 5), UNCHANGED <<active, up>>
  PROVE  Served
<1> DEFINE n0 == born + 1
<1>0. Shape /\ UnbornIsAbsent /\ WaitingIsUntouched
  BY DEF ClientInv, RecoveryInv
<1>1. /\ job' = [Withdraw(job, Scheduled, "superseded") EXCEPT ![n0] = "scheduled"]
      /\ item' = [WithdrawItems(item, Scheduled) EXCEPT ![n0] = "queued"]
  BY DEF Recover
<1>2. CASE n0 \notin Runs
  <2>1. /\ job' = Withdraw(job, Scheduled, "superseded")
        /\ item' = WithdrawItems(item, Scheduled)
    BY <1>1, <1>2 DEF Withdraw, WithdrawItems
  <2>2. QED
    BY <2>1, WithdrawServed
<1>3. ASSUME n0 \in Runs PROVE Served
  <2>1. PICK i \in Runs : i = n0
    BY <1>3
  <2>2. item[i] = "absent" /\ i \notin Scheduled /\ active # i
    BY <1>0, <2>1 DEF UnbornIsAbsent, WaitingIsUntouched, Untouched, Scheduled, Shape
  <2>3. /\ item'[i] = "queued"
        /\ \A n \in Runs : n # i => item'[n] = WithdrawItems(item, Scheduled)[n]
    BY <1>1, <2>1 DEF WithdrawItems
  <2>4. \A n \in Runs : n # i => job'[n] = Withdraw(job, Scheduled, "superseded")[n]
    BY <1>1, <2>1 DEF Withdraw
  <2>5. ActiveHasItem'
    BY <2>2, <2>3 DEF ClientInv, ActiveHasItem, WithdrawItems
  <2>6. DownIsIdle'
    BY DEF ClientInv, DownIsIdle
  <2>7. ScheduledIsKept'
    BY <2>3, <2>4 DEF ClientInv, ScheduledIsKept, WithdrawItems, Withdraw
  <2>8. Aside(Scheduled, i)
    BY <2>2, <2>3 DEF Aside
  <2>9. Phase(i) = "none" /\ Phase(i)' = "waiting"
    BY <2>2, <2>3 DEF Phase
  <2>10. WQ!Call
    BY <1>0, <2>2, <2>8, <2>9, AsideIsCall DEF Moves, Scheduled
  <2>11. QED
    BY <2>5, <2>6, <2>7, <2>10 DEF Served
<1>4. QED
  BY <1>2, <1>3

LEMMA AfterAbortServed ==
  ASSUME ClientInv, NEW p, AfterAbort(p), UNCHANGED <<active, up>>
  PROVE  Served
<1>1. CASE Conclude(p.run, "aborted")
  BY <1>1, ConcludeServed
<1>2. CASE UNCHANGED <<item, job>>
  BY <1>2, QuietServed
<1>3. CASE Recover(p.run, p.attempt, 5)
  BY <1>3, RecoverServed
<1>4. QED
  BY <1>1, <1>2, <1>3 DEF AfterAbort

(* A crash, and what a recovery wrote before it.                           *)
LEMMA CrashServed ==
  ASSUME ClientInv, Forget, NEW S \in SUBSET Scheduled,
         \A n \in Runs : item'[n] = WithdrawItems(item, S)[n],
         \A n \in S : job'[n] # "scheduled",
         \A n \in Runs : job'[n] = "scheduled" => job[n] = "scheduled" \/ item[n] = "absent"
  PROVE  Served
<1> DEFINE T == {n \in S : item[n] = "queued"}
<1>0. Shape /\ T \in SUBSET Runs /\ active' = 0
  BY DEF ClientInv, RecoveryInv, Scheduled, Forget, HandlerEnds
<1>1. ActiveHasItem' /\ DownIsIdle'
  BY <1>0 DEF ActiveHasItem, DownIsIdle
<1>2. ScheduledIsKept'
  BY <1>0 DEF ClientInv, ScheduledIsKept, WithdrawItems
<1>3. ASSUME NEW n \in Runs
      PROVE  Phase(n)' = IF n \in T THEN "gone"
                         ELSE IF Phase(n) = "executing" THEN "waiting" ELSE Phase(n)
  <2>1. item'[n] = IF n \in T THEN "deleted" ELSE item[n]
    BY DEF WithdrawItems
  <2>2. active' # n
    BY <1>0, NamesDiffer
  <2>3. QED
    BY <1>0, <2>1, <2>2 DEF Phase, Shape, ItemStates
<1>4. \A n \in T : Phase(n) = "waiting"
  BY DEF Phase
<1> HIDE DEF T
<1>5. WQ!Call
  <2>0. 1 \in Runs
    BY RunControlAssumption DEF Runs
  <2> DEFINE v == IF 1 \in T THEN "gone" ELSE Phase(1)
  <2>1. IF 1 \in T THEN v = "gone" ELSE Moves(1, v)
    BY DEF Moves
  <2>2. \A n \in Runs : Phase(n)' =
            IF n \in T THEN "gone"
            ELSE LET w == IF n = 1 THEN v ELSE Phase(n)
                 IN  IF TRUE /\ w = "executing" THEN "waiting" ELSE w
    BY <1>3
  <2> HIDE DEF v
  <2>3. QED
    BY <1>0, <1>4, <2>0, <2>1, <2>2, CallIs
<1>6. QED
  BY <1>1, <1>2, <1>5 DEF Served

(* A boot puts back at most the item of the lineage's head, which had none.*)
LEMMA BootServed ==
  ASSUME ClientInv, Boot
  PROVE  Served
<1> USE DEF memory, worker
<1>0. Shape /\ active = 0 /\ active' = 0 /\ up' /\ 1 \in Runs
  BY RunControlAssumption DEF ClientInv, RecoveryInv, DownIsIdle, Boot, Runs
<1>1. ActiveHasItem' /\ DownIsIdle'
  BY <1>0 DEF ActiveHasItem, DownIsIdle
<1>2. ScheduledIsKept'
  BY DEF ClientInv, ScheduledIsKept, Boot, Restored, Scheduled
<1>3. ASSUME NEW n \in Runs, Restored(n)
      PROVE  n = Head /\ item[n] \in {"absent", "queued"} /\ item'[n] = "queued"
  <2>1. n = Head /\ item[n] \notin {"processing", "done", "dead_letter"}
    BY <1>3 DEF Restored, Reconciled
  <2>2. item[n] # "deleted"
    BY <1>3 DEF Restored, Scheduled, ClientInv, ScheduledIsKept
  <2>3. QED
    BY <1>0, <1>3, <2>1, <2>2 DEF Shape, ItemStates, Boot
<1>4. \A n \in Runs : ~Restored(n) => item'[n] = item[n]
  BY DEF Boot
<1>5. CASE \E n \in Runs : Restored(n) /\ item[n] = "absent"
  <2>1. PICK i \in Runs : Restored(i) /\ item[i] = "absent"
    BY <1>5
  <2>2. \A n \in Runs : n # i => item'[n] = item[n]
    BY <1>3, <1>4, <2>1
  <2>3. Aside({}, i)
    BY <1>0, <2>2 DEF Aside, WithdrawItems
  <2>4. Phase(i) = "none" /\ Phase(i)' = "waiting"
    BY <1>3, <2>1 DEF Phase
  <2>5. QED
    BY <1>0, <1>1, <1>2, <2>3, <2>4, AsideIsCall DEF Moves, Served
<1>6. CASE \A n \in Runs : Restored(n) => item[n] # "absent"
  <2>1. \A n \in Runs : item'[n] = item[n]
    BY <1>3, <1>4, <1>6
  <2>2. \A n \in Runs : Phase(n)' = Phase(n)
    BY <1>0, <2>1 DEF Phase
  <2>3. QED
    BY <1>1, <1>2, <2>2 DEF Served, Phases
<1>7. QED
  BY <1>5, <1>6

(* Every step of the handler.                                              *)
LEMMA HandlerServed == ClientInv /\ Handler => Served
<1> SUFFICES ASSUME ClientInv, Handler PROVE Served
  OBVIOUS
<1> USE DEF rows, memory, worker
<1>1. ASSUME UNCHANGED <<item, job, active, up>> PROVE Served
  BY <1>1, QuietServed
<1>2. ASSUME NEW s, up, active # 0, Throw(s), UNCHANGED <<job, up>> PROVE Served
  <2>1. /\ {} \in SUBSET Scheduled /\ active' = 0 /\ up'
        /\ item' = [item EXCEPT ![active] = Rethrown(active, s)]
    BY <1>2 DEF Throw, HandlerEnds
  <2>2. Rethrown(active, s) \in {"queued", "done", "dead_letter"}
    BY DEF Rethrown
  <2>3. job' = Withdraw(job, {}, "cancelled") /\ WithdrawItems(item, {}) = item
    BY <1>2 DEF Withdraw, WithdrawItems, ClientInv, RecoveryInv, Shape
  <2>4. QED
    BY <1>2, <2>1, <2>2, <2>3, LetGoServed
<1>3. ASSUME NEW o \in {"fatal", "waiting"}, BlockRun(o) PROVE Served
  BY <1>1, <1>3 DEF BlockRun
<1>4. CASE BeginExecution
  BY <1>1, <1>4 DEF BeginExecution
<1>5. ASSUME NEW h \in {"child", "tmux", "api"}, Launch(h) PROVE Served
  BY <1>1, <1>5 DEF Launch
<1>6. ASSUME NEW o \in {"completed", "retryable", "fatal"}, AnswerWithoutRuntime(o) PROVE Served
  BY <1>1, <1>6 DEF AnswerWithoutRuntime
<1>7. ASSUME NEW o \in Outcomes, ExecutionEnds(o) \/ CloseTerminal(o) PROVE Served
  BY <1>1, <1>7 DEF ExecutionEnds, CloseTerminal
<1>8. ASSUME NEW o \in Outcomes, RecordOutcome(o) PROVE Served
  BY <1>8, ConcludeServed DEF RecordOutcome
<1>9. CASE FollowUp
  BY <1>1, <1>9 DEF FollowUp
<1>10. CASE RequeueRun
  <2>1. Rethrown(active, "queued") \in {"queued", "done", "dead_letter"}
    BY DEF Rethrown
  <2>2. /\ up /\ up' /\ active # 0 /\ active' = 0
        /\ job' = Withdraw(job, Obsolete(active, "failed"), "cancelled")
        /\ item' = [WithdrawItems(item, Obsolete(active, "failed"))
                      EXCEPT ![active] = Rethrown(active, "queued")]
    BY <1>10 DEF RequeueRun, At, HandlerEnds
  <2>3. QED
    BY <2>1, <2>2, ObsoleteIsScheduled, LetGoServed
<1>11. CASE FinishItem
  <2>1. CASE result = "retryable"
    BY <1>2, <1>11, <2>1 DEF FinishItem, At
  <2>2. CASE result # "retryable"
    <3>1. /\ {} \in SUBSET Scheduled /\ active' = 0 /\ up' /\ up /\ active # 0
          /\ item' = [item EXCEPT ![active] = "done"] /\ job' = job
      BY <1>11, <2>2 DEF FinishItem, HandlerEnds, At
    <3>2. job' = Withdraw(job, {}, "cancelled") /\ WithdrawItems(item, {}) = item
      BY <3>1 DEF Withdraw, WithdrawItems, ClientInv, RecoveryInv, Shape
    <3>3. QED
      BY <3>1, <3>2, LetGoServed
  <2>3. QED
    BY <2>1, <2>2
<1>12. CASE HandlerThrows
  BY <1>2, <1>12 DEF HandlerThrows, At
<1>13. ASSUME NEW o \in {"completed", "fatal"}, CorrectOutcome(o) PROVE Served
  BY <1>1, <1>13 DEF CorrectOutcome
<1>14. QED
  BY <1>3, <1>4, <1>5, <1>6, <1>7, <1>8, <1>9, <1>10, <1>11, <1>12, <1>13 DEF Handler

(* Every step of a steer, resume or approval call.                         *)
LEMMA ControlServed ==
  ASSUME ClientInv, NEW c \in Controls, ControlStep(c)
  PROVE  Served
<1> USE DEF rows, memory, worker
<1>1. ASSUME UNCHANGED <<item, job, active, up>> PROVE Served
  BY <1>1, QuietServed
<1>2. CASE ControlRuns(c)
  <2> DEFINE S == IF control[c].kind = "resume" THEN Scheduled ELSE {}
  <2>1. job' = Withdraw(job, S, "cancelled") /\ item' = WithdrawItems(item, S)
    BY <1>2 DEF ControlRuns
  <2>2. S \in SUBSET Scheduled /\ UNCHANGED <<active, up>>
    BY <1>2 DEF ControlRuns
  <2> HIDE DEF S
  <2>3. QED
    BY <2>1, <2>2, WithdrawServed
<1>3. CASE ControlOverflows(c)
  BY <1>3, ConcludeServed DEF ControlOverflows
<1>4. CASE ControlThrows(c)
  BY <1>1, <1>4 DEF ControlThrows
<1>5. ASSUME NEW h \in {"child", "tmux", "api"}, ControlExecutes(c, h) PROVE Served
  BY <1>1, <1>5 DEF ControlExecutes
<1>6. ASSUME NEW o \in Outcomes, ControlEnds(c, o) PROVE Served
  <2>1. UNCHANGED <<active, up>>
    BY <1>6 DEF ControlEnds
  <2>2. CASE UNCHANGED <<status, job, item>>
    BY <1>1, <2>1, <2>2
  <2>3. CASE Conclude(control[c].run, StatusOf(o))
    BY <2>1, <2>3, ConcludeServed
  <2>4. QED
    BY <1>6, <2>2, <2>3 DEF ControlEnds
<1>7. QED
  BY <1>2, <1>3, <1>4, <1>5, <1>6 DEF ControlStep

(* A crash in the middle of a recovery: no item was submitted yet.         *)
LEMMA CrashInRecoveryServed ==
  ASSUME ClientInv, NEW r \in Runs, NEW k \in 1 .. 4, CrashInRecovery(r, k)
  PROVE  Served
<1> DEFINE S == IF k >= 4 THEN Scheduled ELSE {}
<1>0. Shape /\ UnbornIsAbsent /\ born + 1 \in Runs
  BY RunControlAssumption DEF ClientInv, RecoveryInv, Shape, CrashInRecovery, Runs
<1>1. PICK a : Recover(r, a, k)
  BY DEF CrashInRecovery
<1>2. PICK n0 \in Runs : n0 = born + 1
  BY <1>0
<1>3. item[n0] = "absent" /\ n0 \notin Scheduled
  BY <1>0, <1>2 DEF UnbornIsAbsent, Scheduled, Shape
<1>4. /\ job' = [Withdraw(job, S, "superseded")
                   EXCEPT ![n0] = IF k >= 3 THEN "scheduled" ELSE @]
      /\ item' = [WithdrawItems(item, S) EXCEPT ![n0] = @]
  BY <1>1, <1>2 DEF Recover
<1>5. S \in SUBSET Scheduled /\ n0 \notin S /\ Forget
  BY <1>3 DEF CrashInRecovery
<1> HIDE DEF S
<1>6. \A n \in Runs : item'[n] = WithdrawItems(item, S)[n]
  BY <1>4 DEF WithdrawItems
<1>7. \A n \in Runs : n # n0 => job'[n] = IF n \in S THEN "superseded" ELSE job[n]
  BY <1>4 DEF Withdraw
<1>8. QED
  BY <1>3, <1>5, <1>6, <1>7, CrashServed DEF Scheduled

(* Every step of the model is a call of the queue, or nothing to it.       *)
LEMMA ClientStep == ClientInv /\ [Next]_vars => ClientInv' /\ [WQ!Call]_Phases
<1> SUFFICES ASSUME ClientInv, [Next]_vars PROVE Served
  BY RecoveryStep DEF ClientInv, Served
<1>0. Shape /\ UnbornIsAbsent /\ WaitingIsUntouched /\ Shape'
  BY RecoveryStep DEF ClientInv, RecoveryInv
<1> USE DEF rows, memory, worker
<1>1. ASSUME UNCHANGED <<item, job, active, up>> PROVE Served
  BY <1>1, QuietServed
<1>2. ASSUME NEW i \in Runs, \A n \in Runs : n # i => item'[n] = item[n],
             active \in {0, i}, active' \in {active, i}, up, up', item'[i] # "deleted",
             active' = i => item'[i] = "processing", Moves(i, Phase(i)'),
             \A n \in Runs : job'[n] = "scheduled" => job[n] = "scheduled"
      PROVE  Served
  <2>1. Aside({}, i)
    BY <1>0, <1>2 DEF Aside, WithdrawItems
  <2>2. ActiveHasItem' /\ DownIsIdle' /\ ScheduledIsKept'
    BY <1>2 DEF ActiveHasItem, DownIsIdle, ScheduledIsKept, ClientInv
  <2>3. QED
    BY <1>0, <1>2, <2>1, <2>2, AsideIsCall DEF Served
<1>3. CASE EnqueueRun
  <2>1. 1 \in Runs /\ item[1] = "absent" /\ active # 1
    BY <1>0, <1>3, RunControlAssumption DEF EnqueueRun, Runs, UnbornIsAbsent,
       WaitingIsUntouched, Untouched
  <2>2. item' = [item EXCEPT ![1] = "queued"] /\ UNCHANGED <<active, job, up>> /\ up
    BY <1>3 DEF EnqueueRun
  <2>3. Phase(1) = "none" /\ Phase(1)' = "waiting"
    BY <1>0, <2>1, <2>2 DEF Phase, Shape
  <2>4. Aside({}, 1)
    BY <1>0, <2>1, <2>2 DEF Aside, WithdrawItems, Shape
  <2>5. ActiveHasItem' /\ DownIsIdle' /\ ScheduledIsKept'
    BY <1>0, <2>1, <2>2 DEF ActiveHasItem, DownIsIdle, ScheduledIsKept, ClientInv, Shape
  <2>6. QED
    BY <1>0, <2>1, <2>3, <2>4, <2>5, AsideIsCall DEF Served, Moves
<1>4. ASSUME NEW r \in Runs, SkipItem(r) PROVE Served
  <2>1. item[r] = "queued" /\ item' = [item EXCEPT ![r] = "done"] /\ active = 0
        /\ UNCHANGED <<active, job, up>> /\ up
    BY <1>4 DEF SkipItem
  <2>2. Phase(r) = "waiting" /\ Phase(r)' = "settled"
    BY <1>0, <2>1 DEF Phase, Shape
  <2>3. QED
    BY <1>0, <1>2, <2>1, <2>2, NamesDiffer DEF Moves, Shape
<1>5. ASSUME NEW r \in Runs, StartItem(r) PROVE Served
  <2>1. /\ item[r] = "queued" /\ item' = [item EXCEPT ![r] = "processing"] /\ active = 0
        /\ active' = r /\ up /\ up'
        /\ job' = [job EXCEPT ![r] = IF @ = "none" THEN @ ELSE "dispatched"]
    BY <1>5 DEF StartItem
  <2>2. Phase(r) = "waiting" /\ Phase(r)' = "executing"
    BY <1>0, <2>1 DEF Phase, Shape
  <2>3. \A m \in Runs : Phase(m) # "executing"
    BY <1>0, <2>1, NamesDiffer DEF Phase, Shape, ItemStates
  <2>4. \A n \in Runs : job'[n] = "scheduled" => job[n] = "scheduled"
    BY <1>0, <2>1 DEF Shape
  <2>5. QED
    BY <1>0, <1>2, <2>1, <2>2, <2>3, <2>4 DEF Moves, Shape
<1>6. ASSUME NEW r \in Runs, LeaseExpires(r) PROVE Served
  <2>1. /\ item[r] = "processing" /\ active # r /\ item' = [item EXCEPT ![r] = "queued"]
        /\ UNCHANGED <<active, job, up>>
    BY <1>6 DEF LeaseExpires
  <2>2. \A n \in Runs : Phase(n)' = Phase(n)
    BY <1>0, <2>1 DEF Phase, Shape
  <2>3. ActiveHasItem' /\ DownIsIdle' /\ ScheduledIsKept'
    BY <1>0, <2>1 DEF ActiveHasItem, DownIsIdle, ScheduledIsKept, ClientInv, Shape
  <2>4. QED
    BY <2>2, <2>3 DEF Served, Phases
<1>7. ASSUME NEW p, IssueAbort(p), UNCHANGED <<active, up>> PROVE Served
  <2>1. CASE AfterAbort(p)
    BY <1>7, <2>1, AfterAbortServed
  <2>2. CASE UNCHANGED rows
    BY <1>1, <1>7, <2>2
  <2>3. QED
    BY <1>7, <2>1, <2>2 DEF IssueAbort
<1>8. ASSUME NEW r \in Runs, OperatorAborts(r) PROVE Served
  BY <1>7, <1>8 DEF OperatorAborts
<1>9. ASSUME NEW r \in Runs, NEW by \in RecoveryActions, WatchdogActs(r, by) PROVE Served
  BY <1>7, <1>9 DEF WatchdogActs
<1>10. ASSUME NEW p \in pending, CompleteAbort(p) PROVE Served
  BY <1>10, AfterAbortServed DEF CompleteAbort
<1>11. ASSUME NEW c \in Controls, NEW r \in Runs,
              ApprovalOpens(c, r) \/ \E kind \in {"steer", "resume"} : ControlOpens(c, r, kind)
       PROVE  Served
  BY <1>1, <1>11 DEF ApprovalOpens, ControlOpens
<1>12. CASE Crash
  <2>1. Forget /\ UNCHANGED <<item, job>> /\ {} \in SUBSET Scheduled
    BY <1>12 DEF Crash
  <2>2. \A n \in Runs : item'[n] = WithdrawItems(item, {})[n]
    BY <2>1 DEF WithdrawItems
  <2>3. QED
    BY <2>1, <2>2, CrashServed
<1>13. ASSUME NEW r \in Runs, CrashInReservation(r) PROVE Served
  <2>1. /\ item[r] = "queued" /\ item' = [item EXCEPT ![r] = "processing"]
        /\ active = 0 /\ active' = 0 /\ job' = job
    BY <1>13 DEF CrashInReservation, Forget, HandlerEnds
  <2>2. \A n \in Runs : Phase(n)' = Phase(n)
    BY <1>0, <2>1, NamesDiffer DEF Phase, Shape
  <2>3. ActiveHasItem' /\ DownIsIdle' /\ ScheduledIsKept'
    BY <1>0, <2>1 DEF ActiveHasItem, DownIsIdle, ScheduledIsKept, ClientInv, Shape
  <2>4. QED
    BY <2>2, <2>3 DEF Served, Phases
<1>14. CASE UNCHANGED vars
  BY <1>1, <1>14 DEF vars
<1>15. QED
  BY <1>3, <1>4, <1>5, <1>6, <1>8, <1>9, <1>10, <1>11, <1>12, <1>13, <1>14, HandlerServed,
     ControlServed, CrashInRecoveryServed, BootServed DEF Next

(* Whatever handlers, operators, the watchdog and restarts do to the items *)
(* of a lineage's session is something the abstract queue lets its clients *)
(* do: one execution at a time, no settled or withdrawn item taken up      *)
(* again, and no submission of an item that was there before.              *)
THEOREM QueueIsUsedAsPromised == Spec => UsesWorkQueue
<1>1. Init => ClientInv
  BY RecoveryInit DEF Init, ClientInv, ActiveHasItem, DownIsIdle, ScheduledIsKept
<1>2. Init => WQ!Init
  BY DEF Init, WQ!Init, Phase
<1>3. ClientInv /\ [Next]_vars => ClientInv'
  BY ClientStep
<1>4. ClientInv /\ [Next]_vars => [WQ!Call]_Phases
  BY ClientStep
<1>5. QED
  BY <1>1, <1>2, <1>3, <1>4, PTL DEF Spec, UsesWorkQueue, WQ!CallSpec, Phases

-----------------------------------------------------------------------------
(* Lineages.  A replacement is younger than the run it replaces, so that   *)
(* following the replacements comes to an end: HeadFrom, which is defined  *)
(* by recursion, has the values its definition says.  The induction is on  *)
(* how many of the runs, from the youngest on, a function agrees with the  *)
(* definition for.                                                         *)

Ages == parent \in [Runs -> Runs \union {0}] /\ born \in 0 .. MaxRuns
Older == \A n \in Runs : parent[n] # 0 => parent[n] < n /\ n <= born

(* The latest replacement of a run.                                        *)
LEMMA LatestIs ==
  Ages /\ Older =>
    \A r \in Runs : Replacements(r) # {} =>
      /\ Max(Replacements(r)) \in Replacements(r)
      /\ \A n \in Replacements(r) : n <= Max(Replacements(r))
      /\ \A n \in Replacements(r) : n \in Runs /\ r < n /\ n <= born
<1> SUFFICES ASSUME Ages, Older, NEW r \in Runs, Replacements(r) # {}
             PROVE  /\ Max(Replacements(r)) \in Replacements(r)
                    /\ \A n \in Replacements(r) : n <= Max(Replacements(r))
                    /\ \A n \in Replacements(r) : n \in Runs /\ r < n /\ n <= born
  OBVIOUS
<1>1. /\ Replacements(r) \in SUBSET Nat /\ MaxRuns \in Nat
      /\ \A n \in Replacements(r) : n <= MaxRuns
  BY RunControlAssumption DEF Replacements, Runs
<1>2. /\ Max(Replacements(r)) \in Replacements(r)
      /\ \A n \in Replacements(r) : n <= Max(Replacements(r))
  BY <1>1, MaxIs
<1>3. \A n \in Replacements(r) : n \in Runs /\ r < n /\ n <= born
  BY DEF Replacements, Older, Runs
<1>4. QED
  BY <1>2, <1>3

(* f gives run r the head the definition gives it.                         *)
Heads(f, r) == f[r] = IF Replacements(r) = {} THEN r ELSE f[Max(Replacements(r))]

LEMMA HeadIsDefined ==
  Ages /\ Older => \A r \in Runs : Heads(HeadFrom, r)
<1> SUFFICES ASSUME Ages, Older PROVE \A r \in Runs : Heads(HeadFrom, r)
  OBVIOUS
<1>0. MaxRuns \in Nat \ {0}
  BY RunControlAssumption
<1> DEFINE Found(k) == \E f \in [Runs -> Runs] : \A r \in Runs : r > MaxRuns - k => Heads(f, r)
           Missing == {k \in 0 .. MaxRuns : ~Found(k)}
<1>1. Found(0)
  <2>1. [r \in Runs |-> r] \in [Runs -> Runs] /\ \A r \in Runs : ~(r > MaxRuns - 0)
    BY <1>0 DEF Runs
  <2>2. QED
    BY <2>1
<1>2. ASSUME NEW k \in 0 .. MaxRuns - 1, Found(k) PROVE Found(k + 1)
  <2>1. PICK f \in [Runs -> Runs] : \A r \in Runs : r > MaxRuns - k => Heads(f, r)
    BY <1>2
  <2>2. PICK s \in Runs : s = MaxRuns - k
    BY <1>0 DEF Runs
  <2> DEFINE g == [f EXCEPT ![s] = IF Replacements(s) = {} THEN s ELSE f[Max(Replacements(s))]]
  <2>3. ASSUME NEW r \in Runs, Replacements(r) # {}
        PROVE  Max(Replacements(r)) \in Runs /\ Max(Replacements(r)) > r
    BY <2>3, LatestIs
  <2>4. g \in [Runs -> Runs]
    BY <2>3
  <2>5. Heads(g, s)
    <3>1. CASE Replacements(s) = {}
      BY <3>1 DEF Heads
    <3>2. CASE Replacements(s) # {}
      <4>1. PICK m \in Runs : m = Max(Replacements(s)) /\ m > s
        BY <2>3, <3>2
      <4>2. g[s] = f[m] /\ g[m] = f[m]
        BY <3>2, <4>1 DEF Runs
      <4>3. QED
        BY <3>2, <4>1, <4>2 DEF Heads
    <3>3. QED
      BY <3>1, <3>2
  <2>6. ASSUME NEW r \in Runs, r > s PROVE Heads(g, r)
    <3>1. Heads(f, r) /\ g[r] = f[r]
      BY <1>0, <2>1, <2>2, <2>6 DEF Runs
    <3>2. CASE Replacements(r) = {}
      BY <3>1, <3>2 DEF Heads
    <3>3. CASE Replacements(r) # {}
      <4>1. PICK m \in Runs : m = Max(Replacements(r)) /\ m > r
        BY <2>3, <3>3
      <4>2. g[m] = f[m]
        BY <2>6, <4>1 DEF Runs
      <4>3. QED
        BY <3>1, <3>3, <4>1, <4>2 DEF Heads
    <3>4. QED
      BY <3>2, <3>3
  <2> HIDE DEF g
  <2>7. \A r \in Runs : r > MaxRuns - (k + 1) => r = s \/ r > s
    BY <1>0, <2>2 DEF Runs
  <2>8. QED
    BY <2>4, <2>5, <2>6, <2>7
<1>3. Missing = {}
  <2> SUFFICES ASSUME Missing # {} PROVE FALSE
    OBVIOUS
  <2>1. Missing \in SUBSET Nat
    BY <1>0
  <2>2. PICK k \in Missing : \A j \in Missing : k <= j
    BY <2>1, SmallestOf
  <2>3. k # 0 /\ k \in 0 .. MaxRuns
    BY <1>1, <2>2
  <2>4. k - 1 \in 0 .. MaxRuns - 1 /\ k - 1 \in 0 .. MaxRuns /\ k = (k - 1) + 1 /\ k - 1 \notin Missing
    BY <1>0, <2>2, <2>3
  <2>5. Found(k - 1)
    BY <2>4
  <2> HIDE DEF Found
  <2>6. Found(k)
    BY <1>2, <2>4, <2>5
  <2>7. QED
    BY <2>2, <2>6
<1>4. PICK f \in [Runs -> Runs] : \A r \in Runs : Heads(f, r)
  <2>1. Found(MaxRuns)
    <3>1. MaxRuns \in 0 .. MaxRuns
      BY <1>0
    <3> HIDE DEF Found
    <3>2. QED
      BY <1>3, <3>1
  <2>2. \A r \in Runs : r > MaxRuns - MaxRuns
    BY <1>0 DEF Runs
  <2>3. QED
    BY <2>1, <2>2
<1>5. f = [r \in Runs |-> IF Replacements(r) = {} THEN r ELSE f[Max(Replacements(r))]]
  BY <1>4 DEF Heads
<1>6. HeadFrom = [r \in Runs |-> IF Replacements(r) = {} THEN r ELSE HeadFrom[Max(Replacements(r))]]
  BY <1>5 DEF HeadFrom
<1>7. QED
  BY <1>6 DEF Heads

(* Following the replacements of r ends with a run nothing replaced, r     *)
(* itself or a younger one.                                                *)
EndsWell(r) ==
  /\ HeadFrom[r] \in Runs /\ Replacements(HeadFrom[r]) = {}
  /\ HeadFrom[r] = r \/ (r < HeadFrom[r] /\ HeadFrom[r] <= born)

LEMMA HeadEnds == Ages /\ Older => \A r \in Runs : EndsWell(r)
<1> SUFFICES ASSUME Ages, Older PROVE \A r \in Runs : EndsWell(r)
  OBVIOUS
<1> DEFINE Bad == {r \in Runs : ~EndsWell(r)}
<1> SUFFICES ASSUME Bad # {} PROVE FALSE
  OBVIOUS
<1>1. Bad \in SUBSET Nat /\ MaxRuns \in Nat /\ \A r \in Bad : r <= MaxRuns
  BY RunControlAssumption DEF Runs
<1>2. PICK r \in Bad : \A s \in Bad : s <= r
  BY <1>1, MaxIs
<1>3. r \in Runs /\ ~EndsWell(r) /\ Heads(HeadFrom, r)
  BY <1>2, HeadIsDefined
<1>4. CASE Replacements(r) = {}
  BY <1>3, <1>4 DEF Heads, EndsWell
<1>5. CASE Replacements(r) # {}
  <2>1. PICK m \in Runs : m = Max(Replacements(r)) /\ r < m /\ m <= born
    BY <1>3, <1>5, LatestIs
  <2>2. m \notin Bad
    BY <1>2, <2>1 DEF Runs
  <2>3. EndsWell(m) /\ HeadFrom[r] = HeadFrom[m]
    BY <1>3, <1>5, <2>1, <2>2 DEF Heads
  <2>4. QED
    BY <1>3, <2>1, <2>3 DEF EndsWell, Runs
<1>6. QED
  BY <1>4, <1>5

-----------------------------------------------------------------------------
(* How a lineage grows: by its first run, or by a replacement of a run it  *)
(* has.                                                                    *)
Grows ==
  \/ UNCHANGED <<parent, born>>
  \/ born = 0 /\ born' = 1 /\ UNCHANGED parent
  \/ /\ born' = born + 1 /\ born < MaxRuns
     /\ \E r \in 1 .. born : parent' = [parent EXCEPT ![born + 1] = r]

LEMMA RecoverGrows ==
  ASSUME Ages, born < MaxRuns, NEW r \in Runs, r <= born, NEW a, NEW k \in Nat, Recover(r, a, k)
  PROVE  Grows
<1>1. MaxRuns \in Nat /\ born \in Nat /\ born + 1 \in Runs
  BY RunControlAssumption DEF Ages, Runs
<1>2. CASE k >= 2
  <2>1. r \in 1 .. born
    BY <1>1 DEF Runs
  <2>2. born' = born + 1 /\ parent' = [parent EXCEPT ![born + 1] = r]
    BY <1>2 DEF Recover
  <2>3. QED
    BY <2>1, <2>2 DEF Grows
<1>3. CASE ~(k >= 2)
  <2>1. born' = born /\ parent' = [parent EXCEPT ![born + 1] = @]
    BY <1>3 DEF Recover
  <2>2. parent' = parent
    BY <1>1, <2>1 DEF Ages
  <2>3. QED
    BY <2>1, <2>2 DEF Grows
<1>4. QED
  BY <1>2, <1>3

LEMMA AbortGrows ==
  ASSUME Ages, NEW p, p.run \in Runs, AfterAbort(p),
         p.by = "retry" => born < MaxRuns /\ p.run <= born
  PROVE  Grows
<1>1. CASE p.by = "retry"
  BY <1>1, RecoverGrows DEF AfterAbort
<1>2. CASE p.by # "retry"
  BY <1>2 DEF AfterAbort, Grows
<1>3. QED
  BY <1>1, <1>2

LEMMA IssueGrows ==
  ASSUME Ages, NEW p, p.run \in Runs, IssueAbort(p),
         p.by = "retry" => born < MaxRuns /\ p.run <= born
  PROVE  Grows
<1>1. CASE AfterAbort(p)
  BY <1>1, AbortGrows
<1>2. CASE UNCHANGED rows
  BY <1>2 DEF rows, Grows
<1>3. QED
  BY <1>1, <1>2 DEF IssueAbort

LEMMA LineageGrows == Books /\ RecoveryInv /\ [Next]_vars => Grows
<1> SUFFICES ASSUME Books, RecoveryInv, [Next]_vars PROVE Grows
  OBVIOUS
<1>0. Ages /\ MaxRuns \in Nat /\ born \in Nat /\ Promised \in Nat
  BY RunControlAssumption, PromisedIsNat DEF Books, Ages
<1>a. \A r \in Runs : status[r] \in Active => r <= born
  BY <1>0 DEF RecoveryInv, UnbornIsAbsent, Active, Live, Runs
<1>1. ASSUME UNCHANGED <<born, parent>> PROVE Grows
  BY <1>1 DEF Grows
<1> USE DEF rows, memory, worker
<1>3. CASE EnqueueRun
  BY <1>3 DEF EnqueueRun, Grows
<1>4. CASE Handler
  <2>1. UNCHANGED <<born, parent>>
    BY <1>4 DEF Handler, BlockRun, BeginExecution, Launch, AnswerWithoutRuntime, ExecutionEnds,
       CloseTerminal, RecordOutcome, FollowUp, CorrectOutcome, RequeueRun, FinishItem,
       HandlerThrows
  <2>2. QED
    BY <1>1, <2>1
<1>5. CASE Crash \/ Boot
  BY <1>1, <1>5 DEF Crash, Boot
<1>7. ASSUME NEW r \in Runs,
             SkipItem(r) \/ StartItem(r) \/ LeaseExpires(r) \/ CrashInReservation(r)
      PROVE  Grows
  BY <1>1, <1>7 DEF SkipItem, StartItem, LeaseExpires, CrashInReservation
<1>8. ASSUME NEW r \in Runs, OperatorAborts(r) PROVE Grows
  <2> DEFINE p == [run |-> r, by |-> "operator", attempt |-> 0, no |-> 0]
  <2>1. p.run \in Runs /\ p.by # "retry" /\ IssueAbort(p)
    BY <1>8 DEF OperatorAborts
  <2>2. QED
    BY <1>0, <2>1, IssueGrows
<1>11. ASSUME NEW r \in Runs, NEW by \in RecoveryActions, WatchdogActs(r, by) PROVE Grows
  <2> DEFINE p == [run |-> r, by |-> by, no |-> 0,
                   attempt |-> IF by = "retry" THEN NextAttempt ELSE 0]
  <2>1. p.run \in Runs /\ IssueAbort(p) /\ p.run <= born
    BY <1>a, <1>11 DEF WatchdogActs
  <2>2. p.by = "retry" => born < MaxRuns
    BY <1>0, <1>11 DEF WatchdogActs
  <2>3. QED
    BY <1>0, <2>1, <2>2, IssueGrows
<1>b. \A p \in pending : p.run \in Runs /\ p.run <= born
  BY DEF RecoveryInv, PendingIsBorn, Books, Aborts
<1>12. ASSUME NEW r \in Runs, NEW k \in 1 .. 4, CrashInRecovery(r, k) PROVE Grows
  <2>1. /\ r <= born /\ born < MaxRuns /\ k \in Nat
        /\ \E a : Recover(r, a, k)
    BY <1>a, <1>b, <1>12 DEF CrashInRecovery
  <2>2. QED
    BY <1>0, <2>1, RecoverGrows
<1>13. ASSUME NEW p \in pending, CompleteAbort(p) PROVE Grows
  <2>1. p.by = "retry" => Promised > 0
    BY <1>13, PromisedRemoved DEF CompleteAbort, Books
  <2>2. p.by = "retry" => born < MaxRuns
    BY <1>0, <2>1 DEF Books
  <2>3. QED
    BY <1>0, <1>b, <1>13, <2>2, AbortGrows DEF CompleteAbort
<1>14. ASSUME NEW c \in Controls,
              \/ ControlStep(c)
              \/ \E r \in Runs : ApprovalOpens(c, r) \/ \E kind : ControlOpens(c, r, kind)
       PROVE  Grows
  <2>1. UNCHANGED <<born, parent>>
    BY <1>14 DEF ControlStep, ControlRuns, ControlOverflows, ControlThrows, ControlExecutes,
       ControlEnds, ApprovalOpens, ControlOpens
  <2>2. QED
    BY <1>1, <2>1
<1>15. CASE UNCHANGED vars
  BY <1>1, <1>15 DEF vars
<1>16. QED
  BY <1>3, <1>4, <1>5, <1>7, <1>8, <1>11, <1>12, <1>13, <1>14, <1>15 DEF Next

LEMMA OlderStep == Ages /\ Older /\ Grows => Older'
<1> SUFFICES ASSUME Ages, Older, Grows, NEW n \in Runs, parent'[n] # 0
             PROVE  parent'[n] < n /\ n <= born'
  BY DEF Older
<1>1. born \in Nat /\ n \in Nat
  BY RunControlAssumption DEF Ages, Runs
<1>2. CASE n = born + 1 /\ parent'[n] # parent[n]
  BY <1>1, <1>2 DEF Grows, Ages
<1>3. CASE parent'[n] = parent[n]
  BY <1>1, <1>3 DEF Grows, Older
<1>4. QED
  BY <1>2, <1>3 DEF Grows, Ages

(* What the replacements of a run become as the lineage grows.             *)
LEMMA ReplacementsGrow ==
  ASSUME Ages, Older, Ages', Grows, NEW r \in Runs
  PROVE  \/ Replacements(r)' = Replacements(r)
         \/ /\ born + 1 \in Replacements(r)' /\ born' = born + 1
            /\ r <= born
<1>1. born \in Nat /\ MaxRuns \in Nat /\ r \in Nat
  BY RunControlAssumption DEF Ages, Runs
<1>2. CASE UNCHANGED parent
  BY <1>2 DEF Replacements
<1>3. CASE /\ born' = born + 1 /\ born < MaxRuns
           /\ \E s \in 1 .. born : parent' = [parent EXCEPT ![born + 1] = s]
  <2>1. PICK s \in 1 .. born : parent' = [parent EXCEPT ![born + 1] = s]
    BY <1>3
  <2>2. born + 1 \in Runs
    BY <1>1, <1>3 DEF Runs
  <2>3. parent[born + 1] = 0
    BY <1>1, <2>2 DEF Older
  <2>4. CASE s = r
    BY <1>1, <1>3, <2>1, <2>2, <2>4 DEF Replacements, Ages
  <2>5. CASE s # r
    <3>1. \A n \in Runs : parent'[n] = r <=> parent[n] = r
      BY <1>1, <2>1, <2>3, <2>5 DEF Ages, Runs
    <3>2. QED
      BY <3>1 DEF Replacements
  <2>6. QED
    BY <2>4, <2>5
<1>4. QED
  BY <1>2, <1>3 DEF Grows

(* A lineage one can follow to its end.                                    *)
Lineal ==
  \A r \in Runs :
    /\ Heads(HeadFrom, r) /\ EndsWell(r)
    /\ Replacements(r) # {} =>
         /\ Max(Replacements(r)) \in Replacements(r)
         /\ \A n \in Replacements(r) : n <= Max(Replacements(r))
         /\ \A n \in Replacements(r) : n \in Runs /\ n <= born

LEMMA IsLineal == Ages /\ Older => Lineal
  BY LatestIs, HeadIsDefined, HeadEnds DEF Lineal

(* No head moves back to an older run.                                     *)
LEMMA HeadGrows ==
  ASSUME Ages, Older, Ages', Grows, Lineal, Lineal'
  PROVE  \A r \in Runs : HeadFrom'[r] >= HeadFrom[r]
<1> DEFINE Bad == {r \in Runs : ~(HeadFrom'[r] >= HeadFrom[r])}
<1> SUFFICES ASSUME Bad # {} PROVE FALSE
  OBVIOUS
<1>1. Bad \in SUBSET Nat /\ MaxRuns \in Nat /\ \A r \in Bad : r <= MaxRuns
  BY RunControlAssumption DEF Runs
<1>2. PICK r \in Bad : \A s \in Bad : s <= r
  BY <1>1, MaxIs
<1>3. /\ r \in Runs /\ ~(HeadFrom'[r] >= HeadFrom[r]) /\ r \in Nat /\ born \in Nat
      /\ HeadFrom[r] \in Runs /\ HeadFrom'[r] \in Runs
      /\ HeadFrom[r] \in Nat /\ HeadFrom'[r] \in Nat
  BY <1>2 DEF Lineal, EndsWell, Runs, Ages
<1>4. CASE Replacements(r)' = Replacements(r)
  <2>1. CASE Replacements(r) = {}
    <3>1. HeadFrom[r] = r /\ HeadFrom'[r] = r
      BY <1>3, <1>4, <2>1 DEF Lineal, Heads
    <3>2. QED
      BY <1>3, <3>1
  <2>2. CASE Replacements(r) # {}
    <3>1. PICK m \in Runs : m = Max(Replacements(r)) /\ r < m /\ m <= born
      BY <1>3, <2>2, LatestIs
    <3>2. m = Max(Replacements(r))'
      BY <1>4, <3>1 DEF Max
    <3>3. HeadFrom[r] = HeadFrom[m] /\ HeadFrom'[r] = HeadFrom'[m]
      BY <1>3, <1>4, <2>2, <3>1, <3>2 DEF Lineal, Heads
    <3>4. m \in Bad
      BY <1>3, <3>3
    <3>5. QED
      BY <1>2, <1>3, <3>1, <3>4 DEF Runs
  <2>3. QED
    BY <2>1, <2>2
<1>5. CASE born + 1 \in Replacements(r)' /\ born' = born + 1 /\ r <= born
  <2>1. PICK m \in Runs : m = Max(Replacements(r))' /\ m >= born + 1 /\ m <= born'
    <3>1. Replacements(r)' # {}
      BY <1>5
    <3>2. QED
      BY <1>3, <1>5, <3>1 DEF Lineal, Runs
  <2>2. HeadFrom'[r] = HeadFrom'[m]
    BY <1>3, <1>5, <2>1 DEF Lineal, Heads
  <2>3. HeadFrom'[m] >= m
    BY <2>1 DEF Lineal, EndsWell, Runs
  <2>4. HeadFrom[r] <= born
    BY <1>3, <1>5 DEF Lineal, EndsWell
  <2>5. QED
    BY <1>3, <2>1, <2>2, <2>3, <2>4 DEF Runs
<1>6. QED
  BY <1>3, <1>4, <1>5, ReplacementsGrow

(* The head of the lineage, which the recoveries are judged by, is the     *)
(* last of it: resolveLineageHeadRun ends, with a run that was created and *)
(* that nothing replaced.                                                  *)
HeadIsLast == born > 0 => Head \in 1 .. born /\ Replacements(Head) = {}

(* No statement of the system makes an older run the head again: what was  *)
(* superseded because it was not the head stays superseded rightly.        *)
HeadGoesForward == [][Head' >= Head]_vars

LineageInv == RecoveryInv /\ Books /\ Older

LEMMA LineageStep ==
  LineageInv /\ [Next]_vars => LineageInv' /\ Ages /\ Ages' /\ Grows
<1> SUFFICES ASSUME LineageInv, [Next]_vars PROVE LineageInv' /\ Ages /\ Ages' /\ Grows
  OBVIOUS
<1>1. RecoveryInv' /\ Books' /\ Grows
  BY RecoveryStep, BooksStep, LineageGrows DEF LineageInv
<1>2. Ages /\ Ages'
  BY <1>1 DEF LineageInv, Books, Ages
<1>3. QED
  BY <1>1, <1>2, OlderStep DEF LineageInv

LEMMA LineageInit == Init => LineageInv
<1> SUFFICES ASSUME Init PROVE LineageInv
  OBVIOUS
<1>1. RecoveryInv /\ Books
  BY RecoveryInit, BooksInit
<1>2. Older
  BY DEF Init, Older
<1>3. QED
  BY <1>1, <1>2 DEF LineageInv

(* However often runs are retried and processes crash, following the       *)
(* replacements from the root comes to an end, at the lineage's last run.  *)
THEOREM LineagesEnd == Spec => []HeadIsLast
<1>1. LineageInv => HeadIsLast
  <2> SUFFICES ASSUME LineageInv, born > 0 PROVE Head \in 1 .. born /\ Replacements(Head) = {}
    BY DEF HeadIsLast
  <2>1. Ages /\ Older /\ born \in Nat /\ MaxRuns \in Nat /\ 1 \in Runs
    BY RunControlAssumption DEF LineageInv, Books, Ages, Runs
  <2>2. EndsWell(1)
    BY <2>1, HeadEnds
  <2>3. QED
    BY <2>1, <2>2 DEF EndsWell, Head, Runs
<1>2. QED
  BY <1>1, LineageInit, LineageStep, PTL DEF Spec

(* The head only moves to younger runs.                                    *)
THEOREM HeadsGoForward == Spec => HeadGoesForward
<1>1. LineageInv => Lineal
  BY IsLineal DEF LineageInv, Books, Ages
<1>2. LineageInv /\ Ages /\ Ages' /\ Grows /\ Lineal /\ Lineal' => Head' >= Head
  BY HeadGrows, RunControlAssumption DEF LineageInv, Head, Runs
<1>3. QED
  BY <1>1, <1>2, LineageInit, LineageStep, PTL DEF Spec, HeadGoesForward

=============================================================================
