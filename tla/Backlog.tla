------------------------------- MODULE Backlog -------------------------------
(***************************************************************************)
(* The backlog and its orchestration: the states of backlog items and the  *)
(* dependencies among them (packages/db/src/database.ts, backlog_items),   *)
(* the tick that delegates planned items to agents, the operator's         *)
(* overrides, and the report of a delegated run's end to its item          *)
(* (packages/gateway/src/server.ts, tickBacklogOrchestration,              *)
(* queueDelegatedRun and maybeBridgeDelegatedBacklogReceipt).              *)
(*                                                                         *)
(* A delegated run is found again through the metadata of its session,     *)
(* which names one item, the latest one given to the session.  Sessions    *)
(* are numbered by the run that opened them.  The queue is reduced to what *)
(* QueueEngine proves of it, the items of a session are executed one at a  *)
(* time, and the run to the steps RunControl takes it through without the  *)
(* watchdog.  An action is what runs between two awaits.                   *)
(***************************************************************************)
EXTENDS Naturals, FiniteSets

CONSTANTS Items,     \* backlog items
          Agents,    \* enabled worker profiles
          Spawning,  \* of these, those with autoSpawnOnBusy
          Target,    \* the agent each item resolves to
          DependsOn, \* the dependencies at the start
          Limit,     \* max(1, min(maxParallel, wipLimit))
          Fanout,    \* delegationGuards.maxFanoutPerStep
          AutoBlock, \* escalationMode is auto_block
          MaxRuns,   \* bound: delegated runs
          MaxEvents, \* bound: crashes and what operators do
          Events     \* the kinds of these considered

AllEvents == {"crash", "move", "delete", "depend", "pause", "force", "abort", "throw", "wait"}

ASSUME BacklogAssumption ==
  /\ IsFiniteSet(Items) /\ Items # {}
  /\ Spawning \subseteq Agents
  /\ Target \in [Items -> Agents]
  /\ DependsOn \in [Items -> SUBSET Items]
  /\ \A i \in Items : i \notin DependsOn[i]
  /\ Limit \in Nat \ {0}
  /\ Fanout \in Nat \ {0}
  /\ AutoBlock \in BOOLEAN
  /\ MaxRuns \in Nat /\ MaxEvents \in Nat
  /\ Events \subseteq AllEvents

Runs    == 1..MaxRuns
Callers == {"scheduler", "operator"}   \* the timer, and POST .../orchestration/tick
Modes   == {"dispatch", "override"}
States  == {"idea", "triage", "planned", "in_progress", "review", "blocked", "done", "archived"}
Active  == {"queued", "running", "waiting"}

VARIABLES state, deps, link, \* item: the row, its dependencies, linkedRunId (0: none)
          created,           \* runs 1..created exist
          agent, mode, sess, \* run: its session, and what the session's key is made of
          forItem,           \* run: the item it was queued for
          names,             \* session: the item its metadata names
          status, item,      \* run: runs.status, queue_items.status
          at, attr,          \* run: where its execution is, the item it read at its start
          on,                \* orchestration is enabled and not paused
          cands, slots,      \* tick: planned items it read, slots it has left
          phase, looping,    \* tick: where it is; which one holds the process
          forcing,           \* items whose forced delegation awaits a target
          events,            \* crashes and operators' doings so far
          by,                \* history: what put the item in progress
          filed,             \* history: items the run's end was reported to
          overlapped,        \* history: a tick started while another one was under way
          twins,             \* history: sessions two runs opened in one millisecond
          revived,           \* history: aborted runs their handler brought back
          lost,              \* history: runs that will report their end to nobody
          edited             \* history: items given other dependencies since they started

board  == <<state, deps, link, by, edited>>
queued == <<created, agent, mode, sess, forItem, names, twins>>
runs   == <<status, item, at, attr, filed, revived, lost>>
ticks  == <<cands, slots, phase, looping, overlapped>>
vars   == <<state, deps, link, created, agent, mode, sess, forItem, names, status, item,
            at, attr, on, cands, slots, phase, looping, forcing, events, by, filed,
            overlapped, twins, revived, lost, edited>>

\* Items somebody created and planned; nothing was delegated yet.
Init ==
  /\ state = [i \in Items |-> "planned"]
  /\ deps = DependsOn
  /\ link = [i \in Items |-> 0]
  /\ created = 0
  /\ agent = [r \in Runs |-> CHOOSE a \in Agents : TRUE]
  /\ mode = [r \in Runs |-> "dispatch"]
  /\ sess = [r \in Runs |-> r]
  /\ forItem = [r \in Runs |-> CHOOSE i \in Items : TRUE]
  /\ names = forItem
  /\ status = [r \in Runs |-> "none"]
  /\ item = [r \in Runs |-> "none"]
  /\ at = [r \in Runs |-> "idle"]
  /\ attr = forItem
  /\ on = TRUE
  /\ cands = [c \in Callers |-> {}]
  /\ slots = [c \in Callers |-> 0]
  /\ phase = [c \in Callers |-> "idle"]
  /\ looping = "none"
  /\ forcing = {}
  /\ events = 0
  /\ by = [i \in Items |-> "none"]
  /\ filed = [r \in Runs |-> {}]
  /\ overlapped = FALSE /\ twins = {} /\ revived = {} /\ lost = {} /\ edited = {}

-----------------------------------------------------------------------------
(* Mutants: each is a mistake the code could make, against a definition    *)
(* below.                                                                  *)

WorkingInProgress == {i \in Items : state[i] = "in_progress"}  (* Working: not those in review *)

ActiveForLinked(i) ==  (* ActiveFor: only the linked run is looked at *)
  {r \in 1..created : r = link[i] /\ status[r] \in Active /\ names[sess[r]] = i}

AttributedAtEnd(r) ==  (* Attributed: the session is read again at the end *)
  IF state[names[sess[r]]] # "gone" THEN {names[sess[r]]} ELSE {i \in Items : link[i] = r}

ReportMovesReview(v) ==  (* ReportMoves: a failure moves only what is in review *)
  IF v = "review" THEN {"in_progress", "planned", "blocked"} ELSE {"review"}

AllowedReopening(s) ==  (* Allowed: what is done can be opened again *)
  CASE s = "idea"        -> {"triage", "archived"}
    [] s = "triage"      -> {"planned", "blocked", "archived"}
    [] s = "planned"     -> {"in_progress", "blocked", "archived"}
    [] s = "in_progress" -> {"review", "blocked", "planned"}
    [] s = "review"      -> {"done", "blocked", "in_progress"}
    [] s = "blocked"     -> {"triage", "planned", "in_progress", "archived"}
    [] s = "done"        -> {"archived", "review"}
    [] OTHER             -> {}

ForgottenOneWay(D) ==  (* Forgotten: the rows of the items that depend on D stay *)
  [i \in Items |-> IF i \in D THEN {} ELSE deps[i]]

-----------------------------------------------------------------------------
(* What the database is asked.                                             *)

Present == {i \in Items : state[i] # "gone"}

\* Items that count against the limit.
Working == {i \in Items : state[i] \in {"in_progress", "review"}}

\* allowedBacklogTransitions
Allowed(s) ==
  CASE s = "idea"        -> {"triage", "archived"}
    [] s = "triage"      -> {"planned", "blocked", "archived"}
    [] s = "planned"     -> {"in_progress", "blocked", "archived"}
    [] s = "in_progress" -> {"review", "blocked", "planned"}
    [] s = "review"      -> {"done", "blocked", "in_progress"}
    [] s = "blocked"     -> {"triage", "planned", "in_progress", "archived"}
    [] s = "done"        -> {"archived"}
    [] OTHER             -> {}

\* backlogDependenciesResolved; the dependencies of a deleted item cascade.
Resolved(i) == \A d \in deps[i] : state[d] \in {"done", "archived"}

\* transitionBacklogItem succeeds and changes the state.
MayMove(i, to) == to \in Allowed(state[i]) /\ (to = "done" => Resolved(i))

\* findActiveDelegatedRunForBacklogItem: active runs of delegated sessions
\* that name the item; the newest is taken.
ActiveFor(i) == {r \in 1..created : status[r] \in Active /\ names[sess[r]] = i}
Newest(S)    == {r \in S : \A q \in S : q <= r}

\* countActiveDelegationsFromSession
Delegations == {sess[r] : r \in {q \in 1..created : status[q] \in Active}}

Quiet == looping = "none"   \* JavaScript runs one callback at a time
Room  == created < MaxRuns
Event(kind) == kind \in Events /\ events < MaxEvents /\ events' = events + 1

-----------------------------------------------------------------------------
(* queueDelegatedRun, and what its callers write after it.                 *)

\* Sessions opened under the key of an agent and a mode.  The first has the
\* key itself; an agent that spawns gets another one when that one is busy,
\* keyed by the time, so that it is any of those opened in this millisecond.
Opened(a, m) == {s \in 1..created : sess[s] = s /\ agent[s] = a /\ mode[s] = m}
IsBase(s)    == \A q \in Opened(agent[s], mode[s]) : s <= q
Busy(s)      == \E r \in 1..created : sess[r] = s /\ status[r] \in Active

SessionsFor(a, m) ==
  LET base == {s \in Opened(a, m) : IsBase(s)}
  IN  IF base = {} THEN {created + 1}
      ELSE IF a \in Spawning /\ \E s \in base : Busy(s)
           THEN {created + 1} \cup (Opened(a, m) \ base)
           ELSE base

\* The first k of the writes of a delegation of i to agent a, in session s, on
\* top of the queue items and the lost runs given: 1 the session, 2 the run,
\* 3 its queue item, 4 the item's links, 5 the item's state.
Delegated(i, a, m, s, k, items, gone, how) ==
  LET n == created + 1
      New(f, v) == IF k >= 2 THEN [f EXCEPT ![n] = v] ELSE f
  IN  /\ created' = IF k >= 2 THEN n ELSE created
      /\ names' = IF k >= 2 \/ s <= created THEN [names EXCEPT ![s] = i] ELSE names
      /\ twins' = IF s <= created /\ ~IsBase(s) THEN twins \cup {s} ELSE twins
      /\ agent' = New(agent, a) /\ mode' = New(mode, m) /\ sess' = New(sess, s)
      /\ forItem' = New(forItem, i)
      /\ status' = New(status, "queued")
      /\ item' = IF k >= 3 THEN [items EXCEPT ![n] = "queued"] ELSE items
      /\ lost' = IF k = 2 THEN gone \cup {n} ELSE gone
      /\ link' = IF k >= 4 THEN [link EXCEPT ![i] = n] ELSE link
      /\ state' = IF k >= 5 THEN [state EXCEPT ![i] = "in_progress"] ELSE state
      /\ by' = IF k >= 5 THEN [by EXCEPT ![i] = how] ELSE by
      /\ edited' = IF k >= 5 THEN edited \ {i} ELSE edited
      /\ UNCHANGED deps

\* reconcileBacklogItemToActiveDelegation, for an item that is there.
Reconciled(i, how) ==
  /\ \E r \in Newest(ActiveFor(i)) : link' = [link EXCEPT ![i] = r]
  /\ IF state[i] \in {"planned", "blocked"}
     THEN state' = [state EXCEPT ![i] = "in_progress"] /\ by' = [by EXCEPT ![i] = how]
     ELSE UNCHANGED <<state, by>>
  /\ UNCHANGED <<deps, edited>>

\* How far a delegation gets when nothing interrupts it: the links of an item
\* that was deleted cannot be written, and not every item can be in progress.
Reach(i) == IF state[i] = "gone" THEN 3
            ELSE IF state[i] = "in_progress" \/ MayMove(i, "in_progress") THEN 5 ELSE 4

-----------------------------------------------------------------------------
(* The tick.                                                               *)

\* Up to the await of the model's choice of agents: the slots and the
\* candidates are what the database says now.  The timer's tick comes after
\* its last one ended.
TickReads(c) ==
  /\ Quiet /\ phase[c] = "idle" /\ on
  /\ Cardinality(Working) < Limit
  /\ slots' = [slots EXCEPT ![c] = Limit - Cardinality(Working)]
  /\ cands' = [cands EXCEPT ![c] = {i \in Items : state[i] = "planned"}]
  /\ phase' = [phase EXCEPT ![c] = "awaiting"]
  /\ overlapped' = (overlapped \/ \E d \in Callers \ {c} : phase[d] # "idle")
  /\ UNCHANGED <<board, queued, runs, on, looping, forcing, events>>

TickGoesOn(c) ==
  /\ Quiet /\ phase[c] = "awaiting"
  /\ phase' = [phase EXCEPT ![c] = "looping"] /\ looping' = c
  /\ UNCHANGED <<board, queued, runs, on, cands, slots, overlapped, forcing, events>>

Ended(c) ==
  /\ phase' = [phase EXCEPT ![c] = "idle"] /\ looping' = "none"
  /\ cands' = [cands EXCEPT ![c] = {}] /\ slots' = [slots EXCEPT ![c] = 0]
  /\ UNCHANGED overlapped

TickEnds(c) ==
  /\ looping = c
  /\ cands[c] = {} \/ slots[c] = 0
  /\ Ended(c)
  /\ UNCHANGED <<board, queued, runs, on, forcing, events>>

\* The preassignment of an agent fails for an item deleted during the await.
TickRejected(c) ==
  /\ looping = c
  /\ \E i \in cands[c] : state[i] = "gone"
  /\ Ended(c)
  /\ UNCHANGED <<board, queued, runs, on, forcing, events>>

\* The tick comes to a candidate.
Considers(c, i) == looping = c /\ i \in cands[c] /\ slots[c] > 0
Passed(c, i, n) ==
  /\ cands' = [cands EXCEPT ![c] = @ \ {i}]
  /\ slots' = [slots EXCEPT ![c] = @ - n]
  /\ UNCHANGED <<phase, looping, overlapped>>

\* A candidate deleted meanwhile is still planned in the tick's copy.
Planned(i) == state[i] \in {"planned", "gone"}

\* Not planned any more, dependencies open, no agent, or too many delegations;
\* the last two block the item if the escalation says so.
SkipCandidate(c, i) ==
  /\ Considers(c, i)
  /\ \/ ~Planned(i) /\ UNCHANGED board
     \/ /\ Planned(i) /\ ActiveFor(i) = {} /\ ~Resolved(i)
        /\ UNCHANGED board
     \/ /\ Planned(i) /\ ActiveFor(i) = {} /\ Resolved(i)
        /\ state' = IF AutoBlock /\ state[i] = "planned" THEN [state EXCEPT ![i] = "blocked"] ELSE state
        /\ UNCHANGED <<deps, link, by, edited>>
  /\ Passed(c, i, 0)
  /\ UNCHANGED <<queued, runs, on, forcing, events>>

\* The item has an active run: it is linked and takes a slot.
ReconcileCandidate(c, i) ==
  /\ Considers(c, i) /\ Planned(i) /\ ActiveFor(i) # {}
  /\ IF state[i] = "gone"
     THEN Ended(c) /\ UNCHANGED board
     ELSE Passed(c, i, 1) /\ Reconciled(i, "reconcile")
  /\ UNCHANGED <<queued, runs, on, forcing, events>>

MayDelegate(i) == ActiveFor(i) = {} /\ Cardinality(Delegations) < Fanout /\ Room

DelegateCandidate(c, i, s) ==
  /\ Considers(c, i) /\ Planned(i) /\ Resolved(i) /\ MayDelegate(i)
  /\ s \in SessionsFor(Target[i], "dispatch")
  /\ Delegated(i, Target[i], "dispatch", s, Reach(i), item, lost, "tick")
  /\ IF state[i] = "gone" THEN Ended(c) ELSE Passed(c, i, 1)
  /\ UNCHANGED <<at, attr, filed, revived, on, forcing, events>>

-----------------------------------------------------------------------------
(* The execution of a delegated run.                                       *)

\* The handler reads the session once, at its start.
StartRun(r) ==
  /\ Quiet /\ item[r] = "queued" /\ status[r] \in {"queued", "running"}
  /\ \A q \in 1..created : sess[q] = sess[r] => item[q] # "taken"
  /\ item' = [item EXCEPT ![r] = "taken"]
  /\ at' = [at EXCEPT ![r] = "preparing"]
  /\ status' = [status EXCEPT ![r] = "running"]
  /\ attr' = [attr EXCEPT ![r] = names[sess[r]]]
  /\ UNCHANGED <<board, queued, filed, revived, lost, on, ticks, forcing, events>>

\* An item whose run is settled is done without its handler, and without a
\* report.
SkipRun(r) ==
  /\ Quiet /\ item[r] = "queued" /\ status[r] \in {"ended", "waiting"}
  /\ item' = [item EXCEPT ![r] = "done"]
  /\ lost' = IF status[r] = "ended" THEN lost \cup {r} ELSE lost
  /\ UNCHANGED <<board, queued, status, at, attr, filed, revived, on, ticks, forcing, events>>

\* The run is running, even if it was aborted meanwhile.
BeginRun(r) ==
  /\ Quiet /\ at[r] = "preparing"
  /\ at' = [at EXCEPT ![r] = "working"]
  /\ status' = [status EXCEPT ![r] = "running"]
  /\ revived' = IF status[r] = "ended" THEN revived \cup {r} ELSE revived
  /\ UNCHANGED <<board, queued, item, attr, filed, lost, on, ticks, forcing, events>>

\* Its end is written; the report follows several awaits later.
EndRun(r) ==
  /\ Quiet /\ at[r] = "working"
  /\ at' = [at EXCEPT ![r] = "reporting"]
  /\ status' = [status EXCEPT ![r] = "ended"]
  /\ UNCHANGED <<board, queued, item, attr, filed, revived, lost, on, ticks, forcing, events>>

Left(r) ==
  /\ at' = [at EXCEPT ![r] = "idle"]
  /\ item' = [item EXCEPT ![r] = "done"]

\* resolveBacklogDelegationContext: the item of the session as it was read,
\* or, if there is none, an item linked to the run.
Attributed(r) ==
  IF state[attr[r]] # "gone" THEN {attr[r]} ELSE {i \in Items : link[i] = r}

\* maybeBridgeDelegatedBacklogReceipt: a completed run with evidence asks for
\* review, any other for blocked, from these states; where the table forbids
\* the transition, nothing happens.
ReportMoves(v) ==
  IF v = "review" THEN {"in_progress", "planned", "blocked"}
  ELSE {"idea", "triage", "planned", "in_progress", "review"}

ReportRun(r, v) ==
  /\ Quiet /\ at[r] = "reporting"
  /\ Left(r)
  /\ \/ /\ Attributed(r) = {}
        /\ UNCHANGED <<state, filed>>
     \/ \E i \in Attributed(r) :
          /\ filed' = [filed EXCEPT ![r] = @ \cup {i}]
          /\ state' = IF state[i] \in ReportMoves(v) /\ MayMove(i, v)
                      THEN [state EXCEPT ![i] = v] ELSE state
  /\ UNCHANGED <<deps, link, by, edited, queued, status, attr, revived, lost, on, ticks, forcing, events>>

\* The handler throws, or a steered run ends without a word: before its end is
\* written the item is tried again or buried, after it nobody is told.
ThrowRun(r) ==
  /\ Quiet /\ at[r] # "idle" /\ Event("throw")
  /\ \/ /\ status[r] # "ended" /\ item[r] = "taken"
        /\ item' = [item EXCEPT ![r] = "queued"]
        /\ at' = [at EXCEPT ![r] = "idle"]
        /\ status' \in {status, [status EXCEPT ![r] = "queued"]}
        /\ UNCHANGED lost
     \/ Left(r) /\ lost' = lost \cup {r} /\ UNCHANGED status
  /\ UNCHANGED <<board, queued, attr, filed, revived, on, ticks, forcing>>

\* The run waits for input, even if it was aborted meanwhile; the operator
\* steers or resumes it, outside the queue, and the session is read again.
WaitRun(r) ==
  /\ Quiet /\ at[r] = "working" /\ Event("wait")
  /\ Left(r)
  /\ status' = [status EXCEPT ![r] = "waiting"]
  /\ revived' = IF status[r] = "ended" THEN revived \cup {r} ELSE revived
  /\ UNCHANGED <<board, queued, attr, filed, lost, on, ticks, forcing>>

ResumeRun(r) ==
  /\ Quiet /\ at[r] = "idle" /\ status[r] = "waiting"
  /\ at' = [at EXCEPT ![r] = "working"]
  /\ status' = [status EXCEPT ![r] = "running"]
  /\ attr' = [attr EXCEPT ![r] = names[sess[r]]]
  /\ UNCHANGED <<board, queued, item, filed, revived, lost, on, ticks, forcing, events>>

\* POST /api/runs/:runId/abort tells no item.
AbortRun(r) ==
  /\ Quiet /\ status[r] \in Active /\ Event("abort")
  /\ status' = [status EXCEPT ![r] = "ended"]
  /\ lost' = IF at[r] = "idle" /\ item[r] = "done" THEN lost \cup {r} ELSE lost
  /\ UNCHANGED <<board, queued, item, at, attr, filed, revived, on, ticks, forcing>>

-----------------------------------------------------------------------------
(* Operators.                                                              *)

\* The transition route, the overrides block, requeue and close, and the
\* events of GitHub: whatever the table allows.
MoveItem(i, to) ==
  /\ Quiet /\ MayMove(i, to) /\ Event("move")
  /\ state' = [state EXCEPT ![i] = to]
  /\ by' = IF to = "in_progress" THEN [by EXCEPT ![i] = "hand"] ELSE by
  /\ edited' = IF to = "done" THEN edited \ {i} ELSE edited
  /\ UNCHANGED <<deps, link, queued, runs, on, ticks, forcing>>

\* Deleting items deletes the dependencies on them, finished or not.
Forgotten(D) == [i \in Items |-> IF i \in D THEN {} ELSE deps[i] \ D]

DeleteItems(D) ==
  /\ Quiet /\ D # {} /\ D \subseteq Present /\ Event("delete")
  /\ state' = [i \in Items |-> IF i \in D THEN "gone" ELSE state[i]]
  /\ deps' = Forgotten(D)
  /\ link' = [i \in Items |-> IF i \in D THEN 0 ELSE link[i]]
  /\ UNCHANGED <<by, edited, queued, runs, on, ticks, forcing>>

\* setBacklogDependencies
SetDependencies(i, D) ==
  /\ Quiet /\ i \in Present /\ D \subseteq Present \ {i} /\ D # deps[i] /\ Event("depend")
  /\ deps' = [deps EXCEPT ![i] = D]
  /\ edited' = edited \cup {i}
  /\ UNCHANGED <<state, link, by, queued, runs, on, ticks, forcing>>

\* PUT /api/backlog/orchestration: a tick that started goes on.
SwitchOrchestration ==
  /\ Quiet /\ Event("pause")
  /\ on' = ~on
  /\ UNCHANGED <<board, queued, runs, ticks, forcing>>

\* The override force_delegate, up to the await of a target and after it; it
\* asks for no dependency, limit or state.
ForceAsked(i) ==
  /\ Quiet /\ i \in Present \ forcing /\ Event("force")
  /\ forcing' = forcing \cup {i}
  /\ UNCHANGED <<board, queued, runs, on, ticks>>

ForceRefused(i) ==
  /\ Quiet /\ i \in forcing
  /\ forcing' = forcing \ {i}
  /\ IF ActiveFor(i) # {} /\ state[i] # "gone" THEN Reconciled(i, "hand") ELSE UNCHANGED board
  /\ UNCHANGED <<queued, runs, on, ticks, events>>

ForceDelegated(i, a, s) ==
  /\ Quiet /\ i \in forcing /\ MayDelegate(i)
  /\ s \in SessionsFor(a, "override")
  /\ forcing' = forcing \ {i}
  /\ Delegated(i, a, "override", s, Reach(i), item, lost, "override")
  /\ UNCHANGED <<at, attr, filed, revived, on, ticks, events>>

-----------------------------------------------------------------------------
(* The process ends and starts again.                                      *)

Restarted ==
  /\ at' = [r \in Runs |-> "idle"]
  /\ cands' = [c \in Callers |-> {}] /\ slots' = [c \in Callers |-> 0]
  /\ phase' = [c \in Callers |-> "idle"] /\ looping' = "none"
  /\ forcing' = {}
  /\ UNCHANGED overlapped

Reclaimed == [r \in Runs |-> IF item[r] = "taken" THEN "queued" ELSE item[r]]

\* Runs somebody steered: no queue item brings them back.
Dropped == {r \in Runs : at[r] # "idle" /\ item[r] = "done"}

Crash ==
  /\ Event("crash")
  /\ Restarted
  /\ item' = Reclaimed /\ lost' = lost \cup Dropped
  /\ UNCHANGED <<board, queued, status, attr, filed, revived, on>>

\* Between the writes of a delegation, by a tick or by an override.
CrashDelegating(i, a, m, s, k) ==
  /\ \/ m = "dispatch" /\ a = Target[i] /\ Resolved(i) /\ Planned(i) /\ \E c \in Callers : Considers(c, i)
     \/ m = "override" /\ Quiet /\ i \in forcing
  /\ MayDelegate(i) /\ Event("crash")
  /\ s \in SessionsFor(a, m) /\ k < Reach(i)
  /\ Restarted
  /\ Delegated(i, a, m, s, k, Reclaimed, lost \cup Dropped, "tick")
  /\ UNCHANGED <<attr, filed, revived, on>>

-----------------------------------------------------------------------------

Tick(c) ==
  \/ TickReads(c) \/ TickGoesOn(c) \/ TickEnds(c) \/ TickRejected(c)
  \/ \E i \in Items : SkipCandidate(c, i) \/ ReconcileCandidate(c, i)
  \/ \E i \in Items, s \in Runs : DelegateCandidate(c, i, s)

Execution(r) ==
  \/ StartRun(r) \/ SkipRun(r) \/ BeginRun(r) \/ EndRun(r)
  \/ \E v \in {"review", "blocked"} : ReportRun(r, v)
  \/ ThrowRun(r) \/ WaitRun(r) \/ ResumeRun(r) \/ AbortRun(r)

Operators ==
  \/ \E i \in Items, to \in States : MoveItem(i, to)
  \/ \E D \in SUBSET Items : DeleteItems(D)
  \/ \E i \in Items, D \in SUBSET Items : SetDependencies(i, D)
  \/ SwitchOrchestration
  \/ \E i \in Items : ForceAsked(i) \/ ForceRefused(i)
  \/ \E i \in Items, a \in Agents, s \in Runs : ForceDelegated(i, a, s)

Crashes ==
  \/ Crash
  \/ \E i \in Items, a \in Agents, m \in Modes, s \in Runs, k \in 1..4 :
       CrashDelegating(i, a, m, s, k)

Next == (\E c \in Callers : Tick(c)) \/ (\E r \in Runs : Execution(r)) \/ Operators \/ Crashes

Spec == Init /\ [][Next]_vars

-----------------------------------------------------------------------------
(* Properties.                                                             *)

\* The variables have their types, and a dependency is a row of two items that
\* are there (the foreign keys of backlog_dependencies).
TypeOK ==
  /\ state \in [Items -> States \cup {"gone"}]
  /\ deps \in [Items -> SUBSET Items]
  /\ \A i \in Items : deps[i] \subseteq Present \ {i} /\ (deps[i] # {} => i \in Present)
  /\ link \in [Items -> Runs \cup {0}]
  /\ created \in 0..MaxRuns
  /\ agent \in [Runs -> Agents] /\ mode \in [Runs -> Modes] /\ sess \in [Runs -> Runs]
  /\ forItem \in [Runs -> Items] /\ names \in [Runs -> Items] /\ attr \in [Runs -> Items]
  /\ status \in [Runs -> Active \cup {"none", "ended"}]
  /\ item \in [Runs -> {"none", "queued", "taken", "done"}]
  /\ at \in [Runs -> {"idle", "preparing", "working", "reporting"}]
  /\ on \in BOOLEAN
  /\ cands \in [Callers -> SUBSET Items] /\ slots \in [Callers -> 0..Limit]
  /\ phase \in [Callers -> {"idle", "awaiting", "looping"}]
  /\ looping \in Callers \cup {"none"}
  /\ forcing \subseteq Items
  /\ events \in 0..MaxEvents
  /\ by \in [Items -> {"none", "tick", "reconcile", "override", "hand"}]
  /\ filed \in [Runs -> SUBSET Items]
  /\ overlapped \in BOOLEAN
  /\ twins \subseteq Runs /\ revived \subseteq Runs /\ lost \subseteq Runs /\ edited \subseteq Items

\* The items ticks put in progress exceed the limit only if the timer's tick
\* and one asked for overlapped, and then by no more than the limit again: a
\* tick counts what is in progress and in review when it starts and takes the
\* slots that leaves, whatever is done while it awaits its agents.
ByTick == {i \in Items : state[i] \in {"in_progress", "review"} /\ by[i] \in {"tick", "reconcile"}}

WipRespected == Cardinality(ByTick) <= IF overlapped THEN 2 * Limit ELSE Limit

\* Sessions several items may have runs in at once: those of an agent that
\* does not spawn, and one opened twice in the same millisecond.
Shared(s) == agent[s] \notin Spawning \/ s \in twins

\* Requeueing, overriding, two ticks and crashes never give an item a second
\* run beside an active one, unless the first was hidden: its session was
\* given to another item, or it was aborted and came back.
OneRunPerItem ==
  \A r, q \in 1..created :
    r < q /\ forItem[r] = forItem[q] /\ {status[r], status[q]} \subseteq Active
      => Shared(sess[r]) \/ r \in revived

\* The end of a run moves the item the run was queued for, although the
\* session that names the item goes on to others, unless it went on while the
\* run was active.
EndIsFiledRight ==
  \A r \in 1..created : filed[r] \subseteq {forItem[r]} \/ Shared(sess[r]) \/ r \in revived

\* Somebody is about to move the item linked to r.
Served(r) ==
  \/ at[r] # "idle" \/ item[r] = "queued" \/ status[r] = "waiting"

\* An item that was delegated does not stay in progress with nobody working on
\* it: its run is there and its end will be reported, unless the run was
\* dropped (aborted while nobody executed it, lost in a crash or by an error)
\* or its end was filed under another item.
StuckHasACause ==
  \A i \in Items :
    state[i] = "in_progress" /\ by[i] \in {"tick", "override"}
      => Served(link[i]) \/ link[i] \in lost \/ filed[link[i]] \ {i} # {}

\* What a tick started, and what is done, has its dependencies behind it, as
\* long as nobody gave it others: they cannot come back to life, and a deleted
\* one is forgotten.
OrderKept ==
  \A i \in Items \ edited :
    state[i] = "done" \/ (i \in Working /\ by[i] = "tick") => Resolved(i)

=============================================================================
