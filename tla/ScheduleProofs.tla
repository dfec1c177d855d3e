---------------------------- MODULE ScheduleProofs ----------------------------
(***************************************************************************)
(* Proofs about ScheduleDispatcher, for any schedules, policies, window    *)
(* and bounds: the types, what a schedule on hold may still be given, and  *)
(* that an active run older than its schedule's newest has a cause.  The   *)
(* last needs to know what a caller awaiting an abort has left unlooked    *)
(* at: every run active besides the one it replaces has its cause already, *)
(* or was fired after it.  Then how runs end in the history, the queue     *)
(* beneath, and the guard of the tick.                                     *)
(***************************************************************************)
EXTENDS ScheduleDispatcher, TLAPS

USE ScheduleAssumption

Lost(a) == depth[a] = Window \/ a \in revived

Fresh == \A r \in Runs : IF r > created THEN status[r] = "none" /\ item[r] = "none"
                         ELSE status[r] # "none"

\* A handler about to report knows an end.
Known == \A r \in Runs : item[r] = "ended" => outcome[r] \in Ends

Live(a) == Policy[owner[a]] # "queue" /\ exists[owner[a]] /\ status[a] \in Active

\* Every active run but the newest of its schedule.
Overlap ==
  \A b \in 1..created : \A a \in 1..(b - 1) :
    owner[a] = owner[b] /\ Live(a) => Lost(a) \/ CameInBetween(a, b)

Awaited ==
  \A c \in Callers : \A r \in 1..MaxRuns :
    replacing[c] = r =>
      /\ r <= created
      /\ \A a \in 1..created :
           a # r /\ owner[a] = owner[r] /\ Live(a)
           => Lost(a) \/ a > r \/ CameInBetween(a, created)

IInv == TypeOK /\ Fresh /\ Known /\ Overlap /\ Awaited

-----------------------------------------------------------------------------
(* Steps that fire nothing.                                                *)

\* What such a step does to the runs' books: an active run was active or has
\* been revived, and a run beyond the search stays there.
Calm ==
  /\ UNCHANGED <<created, owner, instead>>
  /\ \A s \in Schedules : exists'[s] => exists[s]
  /\ \A r \in Runs : /\ status'[r] \in Active => status[r] \in Active \/ r \in revived'
                     /\ r \in revived => r \in revived'
                     /\ depth[r] = Window /\ status'[r] \in Active => depth'[r] = Window \/ ~exists'[owner[r]]

\* Such a step leaves every overlap with its cause.
LEMMA CalmOverlap == TypeOK /\ Overlap /\ Calm => Overlap'
  <1> SUFFICES ASSUME TypeOK, Overlap, Calm,
                      NEW b \in 1..created, NEW a \in 1..(b - 1),
                      owner[a] = owner[b], Live(a)'
               PROVE  Lost(a)' \/ CameInBetween(a, b)'
    BY DEF Overlap, Calm, Live
  <1>1. a \in Runs /\ owner[a] \in Schedules BY DEF TypeOK, Runs
  <1>2. CASE status[a] \in Active
    <2>1. Live(a) BY <1>1, <1>2 DEF Live, Calm
    <2>2. Lost(a) \/ CameInBetween(a, b) BY <2>1 DEF Overlap
    <2>3. Lost(a) => Lost(a)' BY <1>1 DEF Lost, Calm, Live
    <2>4. CameInBetween(a, b) => CameInBetween(a, b)' BY DEF CameInBetween, Calm
    <2> QED BY <2>2, <2>3, <2>4
  <1>3. CASE status[a] \notin Active
    BY <1>1, <1>3 DEF Lost, Calm, Live
  <1> QED BY <1>2, <1>3

\* ... and what each caller that goes on waiting has not looked at.
LEMMA CalmAwaited ==
  ASSUME TypeOK, Awaited, Calm, \A c \in Callers : replacing'[c] \in {0, replacing[c]}
  PROVE  Awaited'
  <1> SUFFICES ASSUME NEW c \in Callers, NEW r \in 1..MaxRuns, replacing'[c] = r
               PROVE  /\ r <= created'
                      /\ \A a \in 1..created' :
                           a # r /\ owner'[a] = owner'[r] /\ Live(a)'
                           => Lost(a)' \/ a > r \/ CameInBetween(a, created)'
    BY DEF Awaited
  <1>1. replacing[c] = r /\ r # 0 /\ r <= created BY DEF Awaited
  <1>2. ASSUME NEW a \in 1..created, a # r, owner[a] = owner[r], Live(a)'
        PROVE  Lost(a)' \/ a > r \/ CameInBetween(a, created)'
    <2>1. a \in Runs /\ owner[a] \in Schedules BY DEF TypeOK, Runs
    <2>2. CASE status[a] \in Active
      <3>1. Live(a) BY <1>2, <2>1, <2>2 DEF Live, Calm
      <3>2. Lost(a) \/ a > r \/ CameInBetween(a, created) BY <1>1, <1>2, <3>1 DEF Awaited
      <3>3. Lost(a) => Lost(a)' BY <1>2, <2>1 DEF Lost, Calm, Live
      <3>4. CameInBetween(a, created) => CameInBetween(a, created)' BY DEF CameInBetween, Calm
      <3> QED BY <3>2, <3>3, <3>4
    <2>3. CASE status[a] \notin Active
      BY <1>2, <2>1, <2>3 DEF Lost, Calm, Live
    <2> QED BY <2>2, <2>3
  <1> QED BY <1>1, <1>2 DEF Calm

-----------------------------------------------------------------------------
(* Firings.                                                                *)

\* What is added to the books by a firing of s in the place of old: a new
\* newest run; the rest as in a calm step.
Added(s, old) ==
  /\ created < MaxRuns /\ created' = created + 1
  /\ owner' = [owner EXCEPT ![created + 1] = s]
  /\ instead' = [instead EXCEPT ![created + 1] = old]
  /\ UNCHANGED <<exists, revived>>
  /\ \A r \in 1..created : /\ status'[r] \in Active => status[r] \in Active
                           /\ depth[r] = Window => depth'[r] = Window

LEMMA AddedOverlap ==
  ASSUME TypeOK, Overlap, NEW s \in Schedules, NEW old \in 0..created, Added(s, old),
         \A a \in 1..created : owner[a] = s /\ Live(a)' =>
           Lost(a)' \/ CameInBetween(a, created)' \/ old \in 1..(a - 1)
  PROVE  Overlap'
  <1>0. created \in Nat /\ created + 1 \in Runs /\ created' = created + 1
        /\ \A r \in 1..created : r \in Runs /\ r # created + 1
    BY DEF TypeOK, Added, Runs
  <1>1. \A r \in 1..created : owner'[r] = owner[r] /\ instead'[r] = instead[r]
    BY <1>0 DEF TypeOK, Added
  <1>2. owner'[created + 1] = s /\ instead'[created + 1] = old
    BY <1>0 DEF TypeOK, Added
  <1> SUFFICES ASSUME NEW b \in 1..(created + 1), NEW a \in 1..(b - 1),
                      owner'[a] = owner'[b], Live(a)'
               PROVE  Lost(a)' \/ CameInBetween(a, b)'
    BY <1>0 DEF Overlap
  <1>3. a \in 1..created /\ owner'[a] = owner[a] BY <1>0, <1>1
  <1>4. CASE b \in 1..created
    <2>1. Live(a) BY <1>3 DEF Live, Added
    <2>2. Lost(a) \/ CameInBetween(a, b) BY <1>1, <1>3, <1>4, <2>1 DEF Overlap
    <2>3. Lost(a) => Lost(a)' BY <1>3 DEF Lost, Added
    <2>4. CameInBetween(a, b) => CameInBetween(a, b)'
      <3> SUFFICES ASSUME NEW d \in (a + 1)..b, owner[d] = owner[a], instead[d] \in 1..(a - 1)
                   PROVE  CameInBetween(a, b)'
        BY DEF CameInBetween
      <3>1. d \in 1..created BY <1>0, <1>3, <1>4
      <3> QED BY <1>1, <1>3, <3>1 DEF CameInBetween
    <2> QED BY <2>2, <2>3, <2>4
  <1>5. CASE b = created + 1
    <2>1. owner[a] = s BY <1>2, <1>3, <1>5
    <2>2. Lost(a)' \/ CameInBetween(a, created)' \/ old \in 1..(a - 1) BY <1>3, <2>1
    <2>3. CameInBetween(a, created)' => CameInBetween(a, b)'
      BY <1>0, <1>3, <1>5 DEF CameInBetween
    <2>4. old \in 1..(a - 1) => CameInBetween(a, b)'
      <3>1. created + 1 \in (a + 1)..b BY <1>0, <1>3, <1>5
      <3> QED BY <1>2, <1>3, <2>1, <3>1 DEF CameInBetween
    <2> QED BY <2>2, <2>3, <2>4
  <1> QED BY <1>0, <1>4, <1>5

\* A caller that goes on waiting meets only newer runs.
LEMMA AddedAwaited ==
  ASSUME TypeOK, Awaited, NEW s \in Schedules, NEW old \in 0..created, Added(s, old),
         \A c \in Callers : replacing'[c] \in {0, replacing[c]}
  PROVE  Awaited'
  <1>0. created \in Nat /\ created + 1 \in Runs /\ created' = created + 1
        /\ \A r \in 1..created : r \in Runs /\ r # created + 1
    BY DEF TypeOK, Added, Runs
  <1>1. \A r \in 1..created : owner'[r] = owner[r] /\ instead'[r] = instead[r]
    BY <1>0 DEF TypeOK, Added
  <1> SUFFICES ASSUME NEW c \in Callers, NEW r \in 1..MaxRuns, replacing'[c] = r
               PROVE  /\ r <= created'
                      /\ \A a \in 1..created' :
                           a # r /\ owner'[a] = owner'[r] /\ Live(a)'
                           => Lost(a)' \/ a > r \/ CameInBetween(a, created)'
    BY DEF Awaited
  <1>2. replacing[c] = r /\ r <= created /\ r \in 1..created BY <1>0 DEF Awaited
  <1>3. ASSUME NEW a \in 1..created', a # r, owner'[a] = owner'[r], Live(a)'
        PROVE  Lost(a)' \/ a > r \/ CameInBetween(a, created)'
    <2>1. CASE a = created + 1 BY <1>0, <1>2, <2>1
    <2>2. CASE a \in 1..created
      <3>1. Live(a) /\ owner[a] = owner[r] BY <1>1, <1>2, <1>3, <2>2 DEF Live, Added
      <3>2. Lost(a) \/ a > r \/ CameInBetween(a, created) BY <1>2, <1>3, <2>2, <3>1 DEF Awaited
      <3>3. Lost(a) => Lost(a)' BY <2>2 DEF Lost, Added
      <3>4. CameInBetween(a, created) => CameInBetween(a, created)'
        <4> SUFFICES ASSUME NEW d \in (a + 1)..created, owner[d] = owner[a],
                            instead[d] \in 1..(a - 1)
                     PROVE  CameInBetween(a, created)'
          BY DEF CameInBetween
        <4>1. d \in 1..created /\ d \in (a + 1)..created' BY <1>0, <2>2
        <4> QED BY <1>1, <2>2, <4>1 DEF CameInBetween
      <3> QED BY <3>2, <3>3, <3>4
    <2> QED BY <1>0, <2>1, <2>2
  <1> QED BY <1>0, <1>2, <1>3

-----------------------------------------------------------------------------
(* What the operators write.                                               *)

LEMMA RowAddedType ==
  ASSUME TypeOK, NEW s \in Schedules, NEW r \in 0..MaxRuns
  PROVE  /\ RowAdded(s, r) \in [Runs -> 0..Window]
         /\ \A q \in Runs : q # r /\ depth[q] = Window => RowAdded(s, r)[q] = Window
  BY DEF TypeOK, RowAdded, Runs

LEMMA RestartedType ==
  TypeOK /\ Restarted =>
    /\ batch' \subseteq Schedules /\ inFlight' \in BOOLEAN
    /\ replacing' \in [Callers -> 0..MaxRuns]
    /\ \A c \in Callers : replacing'[c] = 0
    /\ outcome' \in [Runs -> {"none", "waiting"} \cup Ends]
  <1> SUFFICES ASSUME TypeOK, Restarted
               PROVE  /\ batch' \subseteq Schedules /\ inFlight' \in BOOLEAN
                      /\ replacing' \in [Callers -> 0..MaxRuns]
                      /\ \A c \in Callers : replacing'[c] = 0
                      /\ outcome' \in [Runs -> {"none", "waiting"} \cup Ends]
    OBVIOUS
  <1>1. batch' \subseteq Schedules /\ inFlight' \in BOOLEAN BY DEF Restarted
  <1>2. replacing' = [c \in Callers |-> 0] /\ 0 \in 0..MaxRuns BY DEF Restarted
  <1>3. outcome' \in [Runs -> {"none", "waiting"} \cup Ends] BY DEF TypeOK, Restarted
  <1> QED BY <1>1, <1>2, <1>3

LEMMA ReclaimedType ==
  TypeOK => /\ \A r \in Runs : Reclaimed[r] # "ended"
            /\ Reclaimed \in [Runs -> {"none", "queued", "done"} \cup Handling]
            /\ \A r \in Runs : item[r] = "none" => Reclaimed[r] = "none"
  BY DEF TypeOK, Reclaimed, Handling

LEMMA ReturnsType ==
  ASSUME TypeOK, NEW c \in Callers, NEW s \in Schedules, Returns(c, s)
  PROVE  /\ batch' \subseteq Schedules /\ inFlight' \in BOOLEAN
         /\ replacing' \in [Callers -> 0..MaxRuns]
         /\ \A d \in Callers : replacing'[d] \in {0, replacing[d]}
  <1>1. batch' \subseteq Schedules BY DEF TypeOK, Returns
  <1>2. inFlight' \in BOOLEAN
    <2>1. (batch \ {s} # {}) \in BOOLEAN OBVIOUS
    <2>2. inFlight \in BOOLEAN BY DEF TypeOK
    <2> QED BY <2>1, <2>2, Zenon DEF Returns
  <1>3. 0 \in 0..MaxRuns /\ replacing \in [Callers -> 0..MaxRuns]
        /\ replacing' = [replacing EXCEPT ![c] = 0]
    BY DEF TypeOK, Returns
  <1> QED BY <1>1, <1>2, <1>3

\* The four writes, or the first of them, keep types and add a run.
LEMMA WrittenAdds ==
  ASSUME TypeOK, Fresh, NEW s \in Schedules, NEW k \in 1..4, NEW old \in 0..created,
         NEW statuses \in [Runs -> Statuses], NEW rows \in [Runs -> Rows],
         NEW items \in [Runs -> {"none", "queued", "done"} \cup Handling],
         \A r \in 1..created : statuses[r] \in Active => status[r] \in Active,
         \A r \in Runs : IF r > created THEN statuses[r] = "none" /\ items[r] = "none"
                         ELSE statuses[r] # "none",
         Written(s, k, old, statuses, rows, items)
  PROVE  /\ Added(s, old)
         /\ Fresh'
         /\ exists' \in [Schedules -> BOOLEAN] /\ held' \in [Schedules -> BOOLEAN]
         /\ agentOk' \in [Schedules -> BOOLEAN]
         /\ due' \in [Schedules -> BOOLEAN] /\ ran' \in [Schedules -> BOOLEAN]
         /\ created' \in 0..MaxRuns /\ owner' \in [Runs -> Schedules]
         /\ status' \in [Runs -> Statuses] /\ row' \in [Runs -> Rows]
         /\ skip' \in [Runs -> Rows] /\ depth' \in [Runs -> 0..Window]
         /\ item' \in [Runs -> {"none", "queued", "done"} \cup Handling]
         /\ revived' \subseteq Runs /\ instead' \in [Runs -> 0..MaxRuns]
         /\ \A r \in 1..created : status'[r] = statuses[r]
         /\ \A r \in Runs : item'[r] = "ended" => items[r] = "ended"
  <1>0. created \in Nat /\ created + 1 \in Runs /\ created' = created + 1
        /\ \A r \in 1..created : r \in Runs /\ r # created + 1
        /\ created + 1 \in 0..MaxRuns /\ old \in 0..MaxRuns
    BY DEF TypeOK, Written, Runs
  <1>1. /\ RowAdded(s, created + 1) \in [Runs -> 0..Window]
        /\ \A q \in Runs : q # created + 1 /\ depth[q] = Window
                           => RowAdded(s, created + 1)[q] = Window
    <2>1. created + 1 \in 0..MaxRuns
      BY <1>0 DEF Runs
    <2> QED BY <2>1, RowAddedType
  <1>2. status' = [statuses EXCEPT ![created + 1] = "queued"] BY DEF Written
  <1>3. status' \in [Runs -> Statuses] /\ \A r \in Runs : r # created + 1 => status'[r] = statuses[r]
    BY <1>2 DEF Statuses, Active
  <1>4. row' \in [Runs -> Rows] BY DEF Written, Rows
  <1>5. item' \in [Runs -> {"none", "queued", "done"} \cup Handling]
        /\ \A r \in Runs : /\ r # created + 1 => item'[r] = items[r]
                           /\ item'[r] = "ended" => items[r] = "ended"
    BY DEF Written
  <1>6. depth' \in [Runs -> 0..Window]
        /\ \A r \in 1..created : depth[r] = Window => depth'[r] = Window
    <2>1. CASE k >= 2 BY <1>0, <1>1, <2>1 DEF Written
    <2>2. CASE ~(k >= 2) BY <2>2 DEF Written, TypeOK
    <2> QED BY <2>1, <2>2
  <1>7. owner' \in [Runs -> Schedules] /\ instead' \in [Runs -> 0..MaxRuns]
    BY <1>0 DEF TypeOK, Written
  <1>8. due' \in [Schedules -> BOOLEAN] /\ ran' \in [Schedules -> BOOLEAN]
    BY DEF TypeOK, Written
  <1>9. Added(s, old) BY <1>0, <1>3, <1>6 DEF Added, Written
  <1>10. Fresh'
    <2> SUFFICES ASSUME NEW q \in Runs
                 PROVE  IF q > created' THEN status'[q] = "none" /\ item'[q] = "none"
                        ELSE status'[q] # "none"
      BY DEF Fresh
    <2>1. CASE q = created + 1 BY <1>0, <1>2, <2>1
    <2>2. CASE q # created + 1 BY <1>0, <1>3, <1>5, <2>2 DEF Runs
    <2> QED BY <2>1, <2>2
  <1> QED BY <1>0, <1>3, <1>4, <1>5, <1>6, <1>7, <1>8, <1>9, <1>10 DEF TypeOK, Written

-----------------------------------------------------------------------------
(* The calm actions.                                                       *)

Quiet == TypeOK' /\ Fresh' /\ Known' /\ Calm /\ \A d \in Callers : replacing'[d] \in {0, replacing[d]}

LEMMA QuietStep == IInv /\ Quiet => IInv'
  BY CalmOverlap, CalmAwaited DEF IInv, Quiet

LEMMA BlockedQuiet ==
  ASSUME IInv, NEW c \in Callers, NEW s \in Schedules, Blocked(c, s)
  PROVE  Quiet
  <1>1. Returns(c, s) /\ TypeOK BY DEF Blocked, IInv
  <1>2. depth' \in [Runs -> 0..Window] /\ \A q \in Runs : depth[q] = Window => depth'[q] = Window
    <2>1. \A q \in Runs : q # 0 BY DEF Runs
    <2> QED BY <1>1, <2>1, RowAddedType DEF Blocked
  <1>3. TypeOK' BY <1>1, <1>2, ReturnsType DEF Blocked, TypeOK, sched, hist
  <1>4. Fresh' /\ Known' BY DEF Blocked, IInv, Fresh, Known
  <1>5. Calm BY <1>2 DEF Blocked, Calm, sched, hist
  <1> QED BY <1>1, <1>3, <1>4, <1>5, ReturnsType DEF Quiet

LEMMA SkippedQuiet ==
  ASSUME IInv, NEW c \in Callers, NEW s \in Schedules, Skipped(c, s)
  PROVE  Quiet
  <1>1. Returns(c, s) /\ TypeOK BY DEF Skipped, IInv
  <1>2. PICK r \in Found(s) : skip' = [skip EXCEPT ![r] = "skipped"] /\ depth' = RowAdded(s, r)
    BY DEF Skipped
  <1>3. r \in Runs /\ depth[r] < Window /\ r \in 0..MaxRuns
    BY <1>1 DEF Found, Visible, RunsOf, TypeOK, Runs
  <1>4. depth[r] # Window
    BY <1>1, <1>3 DEF TypeOK
  <1>5. depth' \in [Runs -> 0..Window] /\ \A q \in Runs : depth[q] = Window => depth'[q] = Window
    BY <1>1, <1>2, <1>3, <1>4, RowAddedType
  <1>6. skip' \in [Runs -> Rows] BY <1>1, <1>2 DEF TypeOK, Rows
  <1>7. due' \in [Schedules -> BOOLEAN] BY <1>1, Zenon DEF Skipped, TypeOK
  <1>8. TypeOK' BY <1>1, <1>5, <1>6, <1>7, ReturnsType DEF Skipped, TypeOK, hist
  <1>9. Fresh' /\ Known' BY DEF Skipped, IInv, Fresh, Known
  <1>10. Calm BY <1>5 DEF Skipped, Calm, hist
  <1> QED BY <1>1, <1>8, <1>9, <1>10, ReturnsType DEF Quiet

\* Closing the rows of a deleted schedule.
LEMMA ReplacesDeletedQuiet ==
  ASSUME IInv, NEW c \in Callers, ReplacesDeleted(c)
  PROVE  Quiet
  <1> DEFINE r == replacing[c]
  <1>0. TypeOK /\ Fresh /\ Known BY DEF IInv
  <1>1. r \in Runs /\ r <= created /\ owner[r] \in Schedules
    BY DEF ReplacesDeleted, IInv, Awaited, TypeOK, Runs
  <1>2. status' = [status EXCEPT ![r] = "aborted"] BY DEF ReplacesDeleted, Overridden
  <1>3. status' \in [Runs -> Statuses] /\ \A q \in Runs : q # r => status'[q] = status[q]
    BY <1>0, <1>2 DEF TypeOK, Statuses, Ends
  <1>4. status'[r] = "aborted" BY <1>0, <1>1, <1>2 DEF TypeOK
  <1>5. /\ batch' \subseteq Schedules /\ inFlight' \in BOOLEAN
        /\ replacing' \in [Callers -> 0..MaxRuns]
        /\ \A d \in Callers : replacing'[d] \in {0, replacing[d]}
        /\ outcome' \in [Runs -> {"none", "waiting"} \cup Ends]
        /\ item' \in [Runs -> {"none", "queued", "done"} \cup Handling]
        /\ \A q \in Runs : item[q] = "none" => item'[q] = "none"
        /\ Known'
    <2>1. CASE c = "tick"
      <3>1. Restarted /\ item' = Reclaimed BY <2>1 DEF ReplacesDeleted
      <3> QED BY <1>0, <3>1, RestartedType, ReclaimedType DEF Known
    <2>2. CASE c # "tick"
      <3>1. Returns(c, owner[r]) /\ UNCHANGED <<item, outcome>> BY <2>2 DEF ReplacesDeleted
      <3>2. item \in [Runs -> {"none", "queued", "done"} \cup Handling]
            /\ outcome \in [Runs -> {"none", "waiting"} \cup Ends]
        BY <1>0 DEF TypeOK
      <3>3. Known' BY <1>0, <3>1 DEF Known
      <3> QED BY <1>0, <1>1, <3>1, <3>2, <3>3, ReturnsType
    <2> QED BY <2>1, <2>2
  <1>6. TypeOK' BY <1>0, <1>3, <1>5 DEF ReplacesDeleted, TypeOK, sched, hist
  <1>7. Fresh'
    <2> SUFFICES ASSUME NEW q \in Runs
                 PROVE  IF q > created THEN status'[q] = "none" /\ item'[q] = "none"
                        ELSE status'[q] # "none"
      BY DEF ReplacesDeleted, Fresh
    <2>1. CASE q = r BY <1>0, <1>1, <1>4, <2>1 DEF TypeOK, Runs
    <2>2. CASE q # r BY <1>0, <1>3, <1>5, <2>2 DEF Fresh
    <2> QED BY <2>1, <2>2
  <1>8. Calm BY <1>3, <1>4 DEF ReplacesDeleted, Calm, sched, hist, Active
  <1> QED BY <1>5, <1>6, <1>7, <1>8 DEF Quiet

LEMMA TickStartsQuiet == IInv /\ TickStarts => Quiet
  <1> SUFFICES ASSUME IInv, TickStarts PROVE Quiet OBVIOUS
  <1>1. batch' \subseteq Schedules BY DEF TickStarts
  <1>2. TypeOK' BY <1>1 DEF IInv, TypeOK, TickStarts, sched, runs, hist
  <1>3. Fresh' /\ Known' /\ Calm BY DEF IInv, Fresh, Known, Calm, TickStarts, sched, runs, hist
  <1>4. \A d \in Callers : replacing'[d] \in {0, replacing[d]} BY DEF TickStarts
  <1> QED BY <1>2, <1>3, <1>4 DEF Quiet

\* What changes flags of a schedule leaves the runs alone.
LEMMA FlagsQuiet ==
  ASSUME IInv, NEW s \in Schedules,
         TimePasses(s) \/ Pauses(s) \/ Resumes(s) \/ AgentToggles(s)
  PROVE  Quiet
  <1>0. TypeOK BY DEF IInv
  <1>1. UNCHANGED <<exists, ran, runs, tick, hist>>
    BY DEF TimePasses, Pauses, Resumes, AgentToggles
  <1>2. held' \in [Schedules -> BOOLEAN]
    BY <1>0 DEF TypeOK, TimePasses, Pauses, Resumes, AgentToggles
  <1>3. due' \in [Schedules -> BOOLEAN]
    BY <1>0, Zenon DEF TypeOK, TimePasses, Pauses, Resumes, AgentToggles
  <1>4. agentOk' \in [Schedules -> BOOLEAN]
    BY <1>0, Zenon DEF TypeOK, TimePasses, Pauses, Resumes, AgentToggles
  <1>5. events' \in 0..MaxEvents
    BY <1>0 DEF TypeOK, TimePasses, Pauses, Resumes, AgentToggles, Change, Room
  <1>6. TypeOK' BY <1>0, <1>1, <1>2, <1>3, <1>4, <1>5 DEF TypeOK, runs, tick, hist
  <1>7. Fresh' /\ Known' /\ Calm BY <1>1 DEF IInv, Fresh, Known, Calm, runs, hist
  <1>8. \A d \in Callers : replacing'[d] \in {0, replacing[d]} BY <1>1 DEF tick
  <1> QED BY <1>6, <1>7, <1>8 DEF Quiet

LEMMA DeletesQuiet ==
  ASSUME IInv, NEW s \in Schedules, Deletes(s)
  PROVE  Quiet
  <1>0. TypeOK BY DEF IInv
  <1>1. exists' \in [Schedules -> BOOLEAN] /\ ~exists'[s] /\ \A z \in Schedules : exists'[z] => exists[z]
    BY <1>0 DEF TypeOK, Deletes
  <1>2. row' \in [Runs -> Rows] /\ skip' \in [Runs -> Rows] /\ depth' \in [Runs -> 0..Window]
        /\ \A r \in Runs : depth[r] = Window => depth'[r] = Window
    BY <1>0 DEF TypeOK, Deletes, Rows
  <1>3. events' \in 0..MaxEvents BY <1>0 DEF TypeOK, Deletes, Change, Room
  <1>4. TypeOK' BY <1>0, <1>1, <1>2, <1>3 DEF TypeOK, Deletes, tick, hist
  <1>5. Fresh' /\ Known' BY DEF IInv, Fresh, Known, Deletes
  <1>6. Calm BY <1>1, <1>2 DEF Calm, Deletes, hist
  <1>7. \A d \in Callers : replacing'[d] \in {0, replacing[d]} BY DEF Deletes, tick
  <1> QED BY <1>4, <1>5, <1>6, <1>7 DEF Quiet

\* What a handler or an operator does to one run: it is touched no further,
\* and comes back to life only on record.
Touches(r) ==
  /\ UNCHANGED <<sched, created, owner, tick, instead, depth>>
  /\ \A q \in Runs : q # r => status'[q] = status[q] /\ item'[q] = item[q] /\ outcome'[q] = outcome[q]
  /\ status' \in [Runs -> Statuses]
  /\ item' \in [Runs -> {"none", "queued", "done"} \cup Handling]
  /\ row' \in [Runs -> Rows] /\ skip' \in [Runs -> Rows]
  /\ outcome' \in [Runs -> {"none", "waiting"} \cup Ends]
  /\ events' \in 0..MaxEvents
  /\ revived \subseteq revived' /\ revived' \subseteq Runs
  /\ status[r] # "none" /\ status'[r] # "none"
  /\ status'[r] \in Active => status[r] \in Active \/ r \in revived'
  /\ item'[r] = "ended" => outcome'[r] \in Ends

LEMMA TouchesQuiet ==
  ASSUME IInv, NEW r \in Runs, Touches(r)
  PROVE  Quiet
  <1>0. TypeOK /\ Fresh /\ Known BY DEF IInv
  <1>a. r <= created BY <1>0 DEF Fresh, Touches, TypeOK, Runs
  <1>1. TypeOK' BY <1>0 DEF TypeOK, Touches, sched, tick
  <1>2. Fresh'
    <2> SUFFICES ASSUME NEW q \in Runs
                 PROVE  IF q > created THEN status'[q] = "none" /\ item'[q] = "none"
                        ELSE status'[q] # "none"
      BY DEF Touches, Fresh
    <2>1. CASE q = r BY <1>0, <1>a, <2>1 DEF TypeOK, Runs, Touches
    <2>2. CASE q # r BY <1>0, <2>2 DEF Fresh, Touches
    <2> QED BY <2>1, <2>2
  <1>3. Known' BY <1>0 DEF Known, Touches
  <1>4. Calm BY DEF Calm, Touches, sched
  <1>5. \A d \in Callers : replacing'[d] \in {0, replacing[d]} BY DEF Touches, tick
  <1> QED BY <1>1, <1>2, <1>3, <1>4, <1>5 DEF Quiet

LEMMA HandlerQuiet ==
  ASSUME IInv, NEW r \in Runs, Handler(r)
  PROVE  Quiet
  <1>0. TypeOK /\ Fresh /\ Known BY DEF IInv
  <1>1. item[r] # "none" => status[r] \in Active \cup Ends
    BY <1>0 DEF Fresh, TypeOK, Statuses
  <1>2. ASSUME Takes(r) PROVE Touches(r)
    BY <1>0, <1>1, <1>2 DEF TypeOK, Touches, Takes, Step, Untouched, Handling, Active, Ends
  <1>3. ASSUME NEW f \in {"finished", "waiting"}, Refuses(r, f) PROVE Touches(r)
    BY <1>0, <1>1, <1>3 DEF TypeOK, Touches, Refuses, Step, Untouched, Statuses, Active, Ends
  <1>4. ASSUME Executes(r) PROVE Touches(r)
    BY <1>0, <1>1, <1>4 DEF TypeOK, Touches, Executes, Step, Untouched, Handling, Statuses, Active, Ends, Rows
  <1>5. ASSUME Reports(r) PROVE Touches(r)
    <2>1. Mapped(outcome[r]) \in Rows
      BY <1>0, <1>5 DEF Known, Reports, Step, Mapped, Rows, Ends
    <2>2. row' \in [Runs -> Rows] /\ skip' \in [Runs -> Rows]
      BY <1>0, <1>5, <2>1 DEF TypeOK, Reports, Reported
    <2> QED BY <1>0, <1>1, <1>5, <2>2 DEF TypeOK, Touches, Reports, Step, Untouched, Active, Ends
  <1>6. ASSUME NEW f \in Ends \cup {"waiting"}, Concludes(r, f) PROVE Touches(r)
    BY <1>0, <1>1, <1>6 DEF TypeOK, Touches, Concludes, Step, Untouched, Handling, Statuses, Active, Ends
  <1>7. Touches(r) => Quiet BY TouchesQuiet
  <1> QED BY <1>2, <1>3, <1>4, <1>5, <1>6, <1>7 DEF Handler

LEMMA OperatorAbortsQuiet ==
  ASSUME IInv, NEW r \in Runs, OperatorAborts(r)
  PROVE  Quiet
  <1>1. TypeOK /\ Known BY DEF IInv
  <1>2. Touches(r)
    BY <1>1 DEF TypeOK, Known, Touches, OperatorAborts, Overridden, Change, Room, Statuses, Ends, Active
  <1> QED BY <1>2, TouchesQuiet

LEMMA OperatorResumesQuiet ==
  ASSUME IInv, NEW r \in Runs, NEW f \in Ends, OperatorResumes(r, f)
  PROVE  Quiet
  <1>1. TypeOK /\ Known BY DEF IInv
  <1>2. Touches(r)
    BY <1>1 DEF TypeOK, Known, Touches, OperatorResumes, Change, Room, Statuses, Ends, Active
  <1> QED BY <1>2, TouchesQuiet

-----------------------------------------------------------------------------
(* Crashes, and the firings.                                               *)

LEMMA CrashQuiet == IInv /\ Crash => Quiet
  <1> SUFFICES ASSUME IInv, Crash PROVE Quiet OBVIOUS
  <1>0. TypeOK /\ Fresh BY DEF IInv
  <1>1. Restarted /\ item' = Reclaimed /\ events' \in 0..MaxEvents
    BY <1>0 DEF Crash, Crashes, Room, TypeOK
  <1>2. TypeOK' BY <1>0, <1>1, RestartedType, ReclaimedType DEF TypeOK, Crash, sched, hist
  <1>3. Known' BY <1>0, <1>1, ReclaimedType DEF Known
  <1>4. Fresh' BY <1>0, <1>1, ReclaimedType DEF Fresh, Crash
  <1>5. Calm BY DEF Calm, Crash, sched, hist
  <1> QED BY <1>0, <1>1, <1>2, <1>3, <1>4, <1>5, RestartedType DEF Quiet

\* What the writer of a firing leaves in memory.
Settled ==
  /\ batch' \subseteq Schedules /\ inFlight' \in BOOLEAN
  /\ replacing' \in [Callers -> 0..MaxRuns]
  /\ \A d \in Callers : replacing'[d] \in {0, replacing[d]}
  /\ outcome' \in [Runs -> {"none", "waiting"} \cup Ends]
  /\ events' \in 0..MaxEvents

\* A firing of s in the place of old (0: of none), in part or whole: on top of
\* what it writes on, with every active run of s it does not replace accounted for.
Firing(s, k, old, statuses, rows, items) ==
  /\ Written(s, k, old, statuses, rows, items) /\ Settled
  /\ s \in Schedules /\ k \in 1..4 /\ old \in 0..created
  /\ IF old = 0 THEN statuses = status /\ rows = row
     ELSE statuses = Overridden(old) /\ rows = Cancelled(old)
  /\ \/ items = item /\ UNCHANGED outcome
     \/ items = Reclaimed
  /\ \A a \in 1..created : a # old /\ owner[a] = s /\ Live(a) =>
       Lost(a) \/ (old # 0 /\ (a > old \/ CameInBetween(a, created)))

LEMMA FiringStep ==
  ASSUME IInv, NEW s, NEW k, NEW old, NEW statuses, NEW rows, NEW items,
         Firing(s, k, old, statuses, rows, items)
  PROVE  IInv'
  <1> USE DEF Firing
  <1>0. /\ TypeOK /\ Fresh /\ Known /\ Overlap /\ Awaited
        /\ created \in Nat /\ \A r \in 1..created : r \in Runs
    BY DEF IInv, TypeOK, Runs
  <1>1. statuses \in [Runs -> Statuses] /\ rows \in [Runs -> Rows]
        /\ items \in [Runs -> {"none", "queued", "done"} \cup Handling]
    BY <1>0, ReclaimedType DEF TypeOK, Overridden, Cancelled, Statuses, Ends, Rows
  <1>2. \A r \in 1..created : statuses[r] \in Active => status[r] \in Active /\ r # old
    BY <1>0 DEF TypeOK, Overridden, Active
  <1>3. \A r \in Runs : IF r > created THEN statuses[r] = "none" /\ items[r] = "none"
                        ELSE statuses[r] # "none"
    BY <1>0, ReclaimedType DEF TypeOK, Fresh, Overridden
  <1>a. \A r \in 1..created : statuses[r] \in Active => status[r] \in Active BY <1>2
  <1>4. /\ Added(s, old)
        /\ Fresh'
        /\ exists' \in [Schedules -> BOOLEAN] /\ held' \in [Schedules -> BOOLEAN]
        /\ agentOk' \in [Schedules -> BOOLEAN]
        /\ due' \in [Schedules -> BOOLEAN] /\ ran' \in [Schedules -> BOOLEAN]
        /\ created' \in 0..MaxRuns /\ owner' \in [Runs -> Schedules]
        /\ status' \in [Runs -> Statuses] /\ row' \in [Runs -> Rows]
        /\ skip' \in [Runs -> Rows] /\ depth' \in [Runs -> 0..Window]
        /\ item' \in [Runs -> {"none", "queued", "done"} \cup Handling]
        /\ revived' \subseteq Runs /\ instead' \in [Runs -> 0..MaxRuns]
        /\ \A r \in 1..created : status'[r] = statuses[r]
        /\ \A r \in Runs : item'[r] = "ended" => items[r] = "ended"
    <2>1. statuses \in [Runs -> Statuses] BY <1>1
    <2>2. rows \in [Runs -> Rows] BY <1>1
    <2>3. items \in [Runs -> {"none", "queued", "done"} \cup Handling] BY <1>1
    <2>4. TypeOK /\ Fresh BY <1>0
    <2> QED BY ONLY <1>a, <1>3, <2>1, <2>2, <2>3, <2>4, s \in Schedules, k \in 1..4,
              old \in 0..created, Written(s, k, old, statuses, rows, items),
              WrittenAdds, SMTT(30)
  <1>5. TypeOK' BY <1>4 DEF TypeOK, Settled
  <1>6. Known' BY <1>0, <1>4, ReclaimedType DEF Known
  <1>7. Awaited' BY <1>0, <1>4, AddedAwaited DEF Settled
  <1>8. Overlap'
    <2> SUFFICES ASSUME NEW a \in 1..created, owner[a] = s, Live(a)'
                 PROVE  Lost(a)' \/ CameInBetween(a, created)' \/ old \in 1..(a - 1)
      BY <1>0, <1>4, AddedOverlap
    <2>1. owner'[a] = owner[a] /\ created' = created + 1 /\ a # created + 1
          /\ \A d \in 1..created : owner'[d] = owner[d] /\ instead'[d] = instead[d]
      <3>1. Added(s, old) BY <1>4
      <3>2. created' = created + 1 /\ created + 1 \in Runs BY <1>0, <3>1 DEF Added, Runs
      <3>3. /\ owner' = [owner EXCEPT ![created + 1] = s]
            /\ instead' = [instead EXCEPT ![created + 1] = old]
        BY <3>1 DEF Added
      <3>4. \A d \in 1..created : d \in Runs /\ d # created + 1 BY <1>0
      <3> QED BY <1>0, <3>2, <3>3, <3>4 DEF TypeOK
    <2>2. Live(a) /\ a # old BY <1>2, <1>4, <2>1 DEF Live, Added
    <2>3. Lost(a) => Lost(a)' BY <1>4 DEF Lost, Added
    <2>4. old # 0 /\ a > old => old \in 1..(a - 1) BY <1>0
    <2>5. CameInBetween(a, created) => CameInBetween(a, created)'
      <3> SUFFICES ASSUME NEW d \in (a + 1)..created, owner[d] = owner[a],
                          instead[d] \in 1..(a - 1)
                   PROVE  CameInBetween(a, created)'
        BY DEF CameInBetween
      <3>1. d \in 1..created /\ d \in (a + 1)..created' BY <1>0, <2>1
      <3> QED BY <2>1, <3>1 DEF CameInBetween
    <2> QED BY <2>2, <2>3, <2>4, <2>5
  <1> QED BY <1>4, <1>5, <1>6, <1>7, <1>8 DEF IInv

\* The run a caller awaits, and what it left unlooked at.
LEMMA AwaitedRun ==
  ASSUME IInv, NEW c \in Callers, replacing[c] # 0
  PROVE  /\ replacing[c] \in 1..created /\ replacing[c] \in Runs
         /\ owner[replacing[c]] \in Schedules
         /\ \A a \in 1..created :
              a # replacing[c] /\ owner[a] = owner[replacing[c]] /\ Live(a)
              => Lost(a) \/ a > replacing[c] \/ CameInBetween(a, created)
  <1>1. TypeOK /\ Awaited BY DEF IInv
  <1>2. replacing[c] \in 1..MaxRuns BY <1>1 DEF TypeOK
  <1>3. replacing[c] <= created BY <1>1, <1>2 DEF Awaited
  <1>4. replacing[c] \in 1..created BY <1>1, <1>2, <1>3 DEF TypeOK
  <1>5. \A a \in 1..created :
              a # replacing[c] /\ owner[a] = owner[replacing[c]] /\ Live(a)
              => Lost(a) \/ a > replacing[c] \/ CameInBetween(a, created)
    BY <1>1, <1>2 DEF Awaited
  <1>6. owner[replacing[c]] \in Schedules BY <1>1, <1>2 DEF TypeOK, Runs
  <1> QED BY <1>2, <1>4, <1>5, <1>6 DEF Runs

\* Without an active run in sight, those there are have been lost.
LEMMA OutOfSight ==
  ASSUME IInv, NEW s \in Schedules, Policy[s] = "queue" \/ Visible(s) = {},
         NEW a \in 1..created, owner[a] = s, Live(a)
  PROVE  Lost(a)
  <1>1. depth[a] \in 0..Window BY DEF IInv, TypeOK, Runs
  <1>2. a \notin Visible(s) BY DEF Live
  <1>3. ~(depth[a] < Window) BY <1>2 DEF Visible, RunsOf, Live
  <1> QED BY <1>1, <1>3 DEF Lost

LEMMA ReturnsSettled ==
  ASSUME IInv, NEW c \in Callers, NEW s \in Schedules, Returns(c, s), UNCHANGED <<outcome, events>>
  PROVE  Settled
  <1>1. TypeOK BY DEF IInv
  <1>2. outcome' \in [Runs -> {"none", "waiting"} \cup Ends] /\ events' \in 0..MaxEvents
    BY <1>1 DEF TypeOK
  <1> QED BY <1>1, <1>2, ReturnsType DEF Settled

LEMMA RestartedSettled ==
  ASSUME IInv, Restarted, events' \in 0..MaxEvents
  PROVE  Settled
  BY RestartedType DEF IInv, Settled

LEMMA FiresStep ==
  ASSUME IInv, NEW c \in Callers, NEW s \in Schedules, Fires(c, s)
  PROVE  IInv'
  <1>1. Written(s, 4, 0, status, row, item) /\ Returns(c, s) /\ UNCHANGED <<outcome, events>>
    BY DEF Fires
  <1>2. Settled BY <1>1, ReturnsSettled
  <1>3. \A a \in 1..created : owner[a] = s /\ Live(a) => Lost(a)
    BY OutOfSight DEF Fires, MayFire
  <1>4. 0 \in 0..created BY DEF IInv, TypeOK
  <1>9. Firing(s, 4, 0, status, row, item) BY <1>1, <1>2, <1>3, <1>4 DEF Firing
  <1> QED BY <1>9, FiringStep

LEMMA CrashInFiringStep ==
  ASSUME IInv, NEW c \in Callers, NEW s \in Schedules, NEW k \in 1..3, CrashInFiring(c, s, k)
  PROVE  IInv'
  <1>1. Written(s, k, 0, status, row, Reclaimed) /\ Restarted /\ events' \in 0..MaxEvents
    BY DEF CrashInFiring, Crashes, Room, IInv, TypeOK
  <1>2. Settled BY <1>1, RestartedSettled
  <1>3. \A a \in 1..created : owner[a] = s /\ Live(a) => Lost(a)
    BY OutOfSight DEF CrashInFiring, MayFire
  <1>4. 0 \in 0..created /\ k \in 1..4 BY DEF IInv, TypeOK
  <1>9. Firing(s, k, 0, status, row, Reclaimed) BY <1>1, <1>2, <1>3, <1>4 DEF Firing
  <1> QED BY <1>9, FiringStep

LEMMA ReplacedStep ==
  ASSUME IInv, NEW c \in Callers, Replaced(c)
  PROVE  IInv'
  <1> DEFINE r == replacing[c]
             s == owner[r]
  <1>1. /\ r # 0
        /\ Written(s, 4, r, Overridden(r), Cancelled(r), item)
        /\ Returns(c, s) /\ UNCHANGED <<outcome, events>>
    BY DEF Replaced
  <1>2. r \in 0..created /\ s \in Schedules
        /\ \A a \in 1..created : a # r /\ owner[a] = s /\ Live(a) =>
             Lost(a) \/ a > r \/ CameInBetween(a, created)
    BY <1>1, AwaitedRun
  <1>3. Settled BY <1>1, <1>2, ReturnsSettled
  <1>4. \A a \in 1..created : a # r /\ owner[a] = s /\ Live(a) =>
          Lost(a) \/ (r # 0 /\ (a > r \/ CameInBetween(a, created)))
    BY <1>1, <1>2, Zenon
  <1>9. Firing(s, 4, r, Overridden(r), Cancelled(r), item)
    <2> HIDE DEF r, s
    <2>1. 4 \in 1..4 OBVIOUS
    <2> QED BY <1>1, <1>2, <1>3, <1>4, <2>1, Zenon DEF Firing
  <1> QED BY <1>9, FiringStep

LEMMA CrashInReplacementStep ==
  ASSUME IInv, NEW c \in Callers, NEW k \in 1..3, CrashInReplacement(c, k)
  PROVE  IInv'
  <1> DEFINE r == replacing[c]
             s == owner[r]
  <1>1. /\ r # 0
        /\ Written(s, k, r, Overridden(r), Cancelled(r), Reclaimed)
        /\ Restarted /\ events' \in 0..MaxEvents
    BY DEF CrashInReplacement, Crashes, Room, IInv, TypeOK
  <1>2. r \in 0..created /\ s \in Schedules /\ k \in 1..4
        /\ \A a \in 1..created : a # r /\ owner[a] = s /\ Live(a) =>
             Lost(a) \/ a > r \/ CameInBetween(a, created)
    BY <1>1, AwaitedRun
  <1>3. Settled BY <1>1, RestartedSettled
  <1>4. \A a \in 1..created : a # r /\ owner[a] = s /\ Live(a) =>
          Lost(a) \/ (r # 0 /\ (a > r \/ CameInBetween(a, created)))
    BY <1>1, <1>2, Zenon
  <1>9. Firing(s, k, r, Overridden(r), Cancelled(r), Reclaimed)
    <2> HIDE DEF r, s
    <2>1. 4 \in 1..4 OBVIOUS
    <2> QED BY <1>1, <1>2, <1>3, <1>4, <2>1, Zenon DEF Firing
  <1> QED BY <1>9, FiringStep

LEMMA DispatchesDeletedStep ==
  ASSUME IInv, NEW s \in Schedules, DispatchesDeleted(s)
  PROVE  IInv'
  <1>1. ~exists[s] /\ Restarted /\ events' \in 0..MaxEvents /\ TypeOK /\ Fresh
    BY DEF DispatchesDeleted, IInv, TypeOK
  <1>2. CASE agentOk[s]
    <2>1. Written(s, 1, 0, status, row, Reclaimed) BY <1>2 DEF DispatchesDeleted
    <2>2. \A a \in 1..created : owner[a] = s /\ Live(a) => Lost(a) BY <1>1 DEF Live
    <2>3. 0 \in 0..created /\ 1 \in 1..4 BY <1>1 DEF TypeOK
    <2>4. Settled BY <1>1, RestartedSettled
    <2>9. Firing(s, 1, 0, status, row, Reclaimed) BY <2>1, <2>2, <2>3, <2>4 DEF Firing
    <2> QED BY <2>9, FiringStep
  <1>3. CASE ~agentOk[s]
    <2>1. item' = Reclaimed
          /\ UNCHANGED <<sched, hist, created, owner, status, row, skip, depth, events>>
      BY <1>3 DEF DispatchesDeleted
    <2>2. TypeOK' BY <1>1, <2>1, RestartedType, ReclaimedType DEF TypeOK, sched, hist
    <2>3. Known' BY <1>1, <2>1, ReclaimedType DEF Known
    <2>4. Fresh' BY <1>1, <2>1, ReclaimedType DEF Fresh
    <2>5. Calm BY <2>1 DEF Calm, sched, hist
    <2>6. Quiet BY <1>1, <2>2, <2>3, <2>4, <2>5, RestartedType DEF Quiet
    <2> QED BY <2>6, QuietStep
  <1> QED BY <1>2, <1>3

\* A caller begins to wait for the newest active run in sight: an older one
\* still active has its cause already.
LEMMA ReplacesStep ==
  ASSUME IInv, NEW c \in Callers, NEW s \in Schedules, Replaces(c, s)
  PROVE  IInv'
  <1>0. TypeOK /\ Fresh /\ Known /\ Overlap /\ Awaited BY DEF IInv
  <1>1. PICK r \in Found(s) : replacing' = [replacing EXCEPT ![c] = r] BY DEF Replaces
  <1>2. r \in 1..created /\ r \in 1..MaxRuns
    BY <1>0 DEF Found, Visible, RunsOf, TypeOK
  <1>3. UNCHANGED <<exists, held, agentOk, due, ran, created, owner, status, row, skip, depth,
                    item, outcome, events, revived, instead, inFlight>>
    BY DEF Replaces, sched, runs, hist
  <1>4. batch' \subseteq Schedules BY <1>0 DEF Replaces, TypeOK
  <1>5. replacing' \in [Callers -> 0..MaxRuns] BY <1>0, <1>1, <1>2 DEF TypeOK
  <1>6. TypeOK' BY <1>0, <1>3, <1>4, <1>5 DEF TypeOK
  <1>7. Fresh' /\ Known' BY <1>0, <1>3 DEF Fresh, Known
  <1>8. Overlap' BY <1>0, <1>3 DEF Overlap, Live, Lost, CameInBetween
  <1>9. Awaited'
    <2> SUFFICES ASSUME NEW d \in Callers, NEW q \in 1..MaxRuns, replacing'[d] = q
                 PROVE  /\ q <= created
                        /\ \A a \in 1..created :
                             a # q /\ owner[a] = owner[q] /\ Live(a)
                             => Lost(a) \/ a > q \/ CameInBetween(a, created)
      BY <1>3 DEF Awaited, Live, Lost, CameInBetween
    <2>1. CASE d # c
      <3>1. replacing[d] = q BY <1>0, <1>1, <2>1 DEF TypeOK
      <3> QED BY <1>0, <3>1 DEF Awaited
    <2>2. CASE d = c
      <3>1. q = r BY <1>0, <1>1, <2>2 DEF TypeOK
      <3>2. ASSUME NEW a \in 1..created, a # r, owner[a] = owner[r], Live(a), ~(a > r)
            PROVE  Lost(a) \/ CameInBetween(a, created)
        <4>1. a \in 1..(r - 1) BY <1>2, <3>2
        <4>2. Lost(a) \/ CameInBetween(a, r) BY <1>0, <1>2, <3>2, <4>1 DEF Overlap
        <4>3. CameInBetween(a, r) => CameInBetween(a, created)
          BY <1>0, <1>2 DEF CameInBetween, TypeOK
        <4> QED BY <4>2, <4>3
      <3> QED BY <1>0, <1>2, <3>1, <3>2 DEF TypeOK
    <2> QED BY <2>1, <2>2
  <1> QED BY <1>6, <1>7, <1>8, <1>9 DEF IInv

-----------------------------------------------------------------------------
(* The theorems.                                                           *)

LEMMA InitIInv == Init => IInv
  <1> SUFFICES ASSUME Init PROVE IInv OBVIOUS
  <1>1. (CHOOSE s \in Schedules : TRUE) \in Schedules OBVIOUS
  <1>2. TypeOK
    <2>1. Window \in 0..Window /\ 0 \in 0..MaxRuns /\ 0 \in 0..MaxEvents OBVIOUS
    <2>2. /\ exists \in [Schedules -> BOOLEAN] /\ held \in [Schedules -> BOOLEAN]
          /\ agentOk \in [Schedules -> BOOLEAN] /\ due \in [Schedules -> BOOLEAN]
          /\ ran \in [Schedules -> BOOLEAN] /\ inFlight \in BOOLEAN
      BY DEF Init
    <2>3. owner \in [Runs -> Schedules] BY <1>1 DEF Init
    <2> QED BY <2>1, <2>2, <2>3 DEF Init, TypeOK, Statuses, Rows
  <1>3. Fresh /\ Known BY DEF Init, Fresh, Known, Runs
  <1>4. Overlap /\ Awaited BY DEF Init, Overlap, Awaited
  <1> QED BY <1>2, <1>3, <1>4 DEF IInv

LEMMA CallStep ==
  ASSUME IInv, NEW c \in Callers, Call(c)
  PROVE  IInv'
  BY BlockedQuiet, SkippedQuiet, ReplacesDeletedQuiet, QuietStep,
     ReplacesStep, FiresStep, ReplacedStep DEF Call

LEMMA NextIInv == IInv /\ [Next]_vars => IInv'
  <1> SUFFICES ASSUME IInv, [Next]_vars PROVE IInv' OBVIOUS
  <1>1. CASE Tick
    <2>1. "tick" \in Callers BY DEF Callers
    <2> QED BY <1>1, <2>1, TickStartsQuiet, QuietStep, CallStep, DispatchesDeletedStep DEF Tick
  <1>2. CASE \E r \in Runs : Handler(r) BY <1>2, HandlerQuiet, QuietStep
  <1>3. ASSUME Environment PROVE IInv'
    <2>1. CASE Call("manual")
      <3>1. "manual" \in Callers BY DEF Callers
      <3> QED BY <2>1, <3>1, CallStep
    <2>2. ASSUME NEW s \in Schedules,
                 TimePasses(s) \/ Pauses(s) \/ Resumes(s) \/ AgentToggles(s)
          PROVE  IInv'
      BY <2>2, FlagsQuiet, QuietStep
    <2>3. ASSUME NEW s \in Schedules, Deletes(s) PROVE IInv'
      BY <2>3, DeletesQuiet, QuietStep
    <2>4. ASSUME NEW r \in Runs, OperatorAborts(r) PROVE IInv'
      BY <2>4, OperatorAbortsQuiet, QuietStep
    <2>5. ASSUME NEW r \in Runs, NEW f \in Ends, OperatorResumes(r, f) PROVE IInv'
      BY <2>5, OperatorResumesQuiet, QuietStep
    <2>6. CASE Crash BY <2>6, CrashQuiet, QuietStep
    <2>7. ASSUME NEW c \in Callers, NEW k \in 1..3, CrashInReplacement(c, k) PROVE IInv'
      BY <2>7, CrashInReplacementStep
    <2>8. ASSUME NEW c \in Callers, NEW k \in 1..3, NEW s \in Schedules, CrashInFiring(c, s, k)
          PROVE  IInv'
      BY <2>8, CrashInFiringStep
    <2> QED BY <1>3, <2>1, <2>2, <2>3, <2>4, <2>5, <2>6, <2>7, <2>8 DEF Environment
  <1>4. CASE UNCHANGED vars
    BY <1>4 DEF vars, IInv, TypeOK, Fresh, Known, Overlap, Awaited, Live, Lost, CameInBetween
  <1> QED BY <1>1, <1>2, <1>3, <1>4 DEF Next

THEOREM Invariance == Spec => []IInv
  BY InitIInv, NextIInv, PTL DEF Spec

\* The dispatcher's variables keep their types.
THEOREM TypeCorrect == Spec => []TypeOK
  <1>1. IInv => TypeOK BY DEF IInv
  <1> QED BY <1>1, Invariance, PTL

\* A run active beside a newer one of a schedule that skips or replaces was
\* lost from the search, revived, or came in during another's replacement.
THEOREM OverlapAlwaysHasACause == Spec => []OverlapHasACause
  <1>1. IInv => OverlapHasACause
    BY DEF IInv, Overlap, OverlapHasACause, Live, Lost
  <1> QED BY <1>1, Invariance, PTL

\* A step that creates a run is a firing, and the new run belongs to the
\* schedule fired.
LEMMA NewRun ==
  ASSUME IInv, IInv', [Next]_vars, NEW r \in Runs, status[r] = "none", status'[r] # "none"
  PROVE  \E s \in Schedules :
           /\ owner'[r] = s
           /\ \/ \E c \in Callers, k \in 1..3 : Fires(c, s) \/ CrashInFiring(c, s, k)
              \/ \E c \in Callers : replacing[c] # 0 /\ owner[replacing[c]] = s
              \/ s \in batch /\ ~exists[s]
  <1>1. created \in Nat /\ created' \in Nat /\ r > created /\ r <= created'
        /\ owner \in [Runs -> Schedules] /\ r \in Nat
    BY DEF IInv, Fresh, TypeOK, Runs
  <1>2. created' # created BY <1>1
  <1>3. ASSUME NEW s, NEW k, NEW old, NEW statuses, NEW rows, NEW items,
               Written(s, k, old, statuses, rows, items)
        PROVE  owner'[r] = s
    <2>1. created' = created + 1 /\ owner' = [owner EXCEPT ![created + 1] = s]
      BY <1>3 DEF Written
    <2>2. r = created + 1 BY <1>1, <2>1
    <2> QED BY <1>1, <2>1, <2>2
  <1>4. ASSUME NEW c \in Callers, Replaced(c) \/ \E k \in 1..3 : CrashInReplacement(c, k)
        PROVE  replacing[c] # 0 /\ owner'[r] = owner[replacing[c]]
    BY <1>3, <1>4 DEF Replaced, CrashInReplacement
  <1>5. ASSUME NEW c \in Callers, replacing[c] # 0 PROVE owner[replacing[c]] \in Schedules
    BY <1>5, AwaitedRun
  <1>6. ASSUME NEW c \in Callers, Call(c)
        PROVE  Replaced(c) \/ \E s \in Schedules : Fires(c, s)
    BY <1>2, <1>6 DEF Call, Blocked, Skipped, Replaces, ReplacesDeleted, runs
  <1>7. CASE Tick
    <2>1. "tick" \in Callers BY DEF Callers
    <2>2. CASE Call("tick")
      BY <1>3, <1>4, <1>5, <1>6, <2>1, <2>2 DEF Fires
    <2>3. CASE \E s \in Schedules : DispatchesDeleted(s)
      BY <1>2, <1>3, <2>3 DEF DispatchesDeleted, Turn
    <2>4. ~TickStarts BY <1>2 DEF TickStarts, runs
    <2> QED BY <1>7, <2>2, <2>3, <2>4 DEF Tick
  <1>8. CASE \E q \in Runs : Handler(q)
    BY <1>2, <1>8 DEF Handler, Takes, Refuses, Executes, Reports, Concludes, Untouched
  <1>9. ASSUME Environment
        PROVE  \/ \E c \in Callers : Call(c)
               \/ \E c \in Callers, k \in 1..3 : \/ CrashInReplacement(c, k)
                                                 \/ \E s \in Schedules : CrashInFiring(c, s, k)
    <2>1. "manual" \in Callers BY DEF Callers
    <2> QED BY <1>2, <1>9, <2>1
        DEF Environment, TimePasses, Pauses, Resumes, Deletes, AgentToggles, OperatorAborts,
            OperatorResumes, Crash, runs
  <1>10. CASE Environment
    BY <1>3, <1>4, <1>5, <1>6, <1>9, <1>10 DEF Fires, CrashInFiring
  <1>11. ~UNCHANGED vars BY <1>2 DEF vars
  <1> QED BY <1>7, <1>8, <1>10, <1>11 DEF Next

\* Whoever pauses, disables or deletes a schedule gets no new run of it, but
\* for the replacement or the batch already under way.
THEOREM HeldIsNeverFired == Spec => HeldIsNotFired
  <1>1. ASSUME IInv, IInv', [Next]_vars, NEW s \in Schedules, NEW r \in Runs,
               status[r] = "none", status'[r] # "none", owner'[r] = s
        PROVE  \/ exists[s] /\ ~held[s]
               \/ \E c \in Callers : replacing[c] # 0 /\ owner[replacing[c]] = s
               \/ s \in batch /\ ~exists[s]
    <2>1. \/ \E c \in Callers, k \in 1..3 : Fires(c, s) \/ CrashInFiring(c, s, k)
          \/ \E c \in Callers : replacing[c] # 0 /\ owner[replacing[c]] = s
          \/ s \in batch /\ ~exists[s]
      BY <1>1, NewRun
    <2> QED BY <2>1 DEF Fires, CrashInFiring, MayFire, Usable
  <1>2. IInv /\ IInv' /\ [Next]_vars =>
          [\A s \in Schedules :
             (\E r \in Runs : status[r] = "none" /\ status'[r] # "none" /\ owner'[r] = s)
             => \/ exists[s] /\ ~held[s]
                \/ \E c \in Callers : replacing[c] # 0 /\ owner[replacing[c]] = s
                \/ s \in batch /\ ~exists[s]]_vars
    BY <1>1
  <1> QED BY <1>2, Invariance, PTL DEF Spec, HeldIsNotFired

-----------------------------------------------------------------------------
(* What a handler found out reaches the history.                           *)

\* A run's end is known from the end of its handler on; from then on its status
\* is that end or an abort, and once it is reported the rows agree with it.
Settles(r) ==
  /\ item[r] \in {"none", "queued", "taken", "running"} => outcome[r] = "none"
  /\ item[r] \in {"ended", "done"} /\ outcome[r] \in Ends => status[r] \in {outcome[r], "aborted"}
  /\ item[r] = "done" /\ outcome[r] \in Ends /\ status[r] = outcome[r]
     => Latest(r) \in {"none", Mapped(outcome[r])}

\* What a step does to a run whose handler does not move: its item waits again,
\* or it is active still, left alone, or aborted.
Aside(r) ==
  \/ item'[r] \in {"none", "queued"} /\ outcome'[r] = "none"
  \/ /\ item'[r] = item[r] /\ outcome'[r] = outcome[r]
     /\ \/ status[r] \in Active
        \/ status'[r] = status[r] /\ Latest(r)' \in {Latest(r), "none"}
        \/ status'[r] = "aborted" /\ Latest(r)' \in {Latest(r), "none", "cancelled"}

LEMMA AsideSettles == ASSUME TypeOK, NEW r \in Runs, Settles(r), Aside(r) PROVE Settles(r)'
  BY DEF TypeOK, Settles, Aside, Mapped, Ends, Active, Handling

LEMMA HandlerSettles ==
  ASSUME IInv, NEW r \in Runs, Handler(r), NEW q \in Runs, Settles(q)
  PROVE  Settles(q)'
  <1>0. TypeOK /\ Known BY DEF IInv
  <1>1. CASE q # r
    <2>1. /\ item'[q] = item[q] /\ status'[q] = status[q] /\ outcome'[q] = outcome[q]
          /\ row'[q] = row[q] /\ skip'[q] = skip[q]
      BY <1>0, <1>1 DEF TypeOK, Handler, Takes, Refuses, Executes, Concludes, Reports, Reported, Step
    <2>2. Aside(q) BY <2>1 DEF Aside, Latest
    <2> QED BY <1>0, <2>2, AsideSettles
  <1>2. CASE q = r
    <2>1. CASE Takes(r) BY <1>0, <1>2, <2>1 DEF TypeOK, Settles, Takes, Step, Ends, Active
    <2>2. ASSUME NEW f \in {"finished", "waiting"}, Refuses(r, f) PROVE Settles(q)'
      BY <1>0, <1>2, <2>2 DEF TypeOK, Settles, Refuses, Step, Ends
    <2>3. CASE Executes(r) BY <1>0, <1>2, <2>3 DEF TypeOK, Settles, Executes, Step
    <2>4. ASSUME NEW f \in Ends \cup {"waiting"}, Concludes(r, f) PROVE Settles(q)'
      BY <1>0, <1>2, <2>4 DEF TypeOK, Settles, Concludes, Step, Ends
    <2>5. CASE Reports(r)
      <3>1. Latest(r)' \in {"none", Mapped(outcome[r])} /\ outcome'[r] = outcome[r]
        BY <1>0, <2>5 DEF TypeOK, Known, Reports, Reported, Step, Latest, Mapped, Ends
      <3>2. item[r] = "ended" /\ item'[r] = "done" /\ status'[r] = status[r]
        BY <1>0, <2>5 DEF TypeOK, Reports, Step
      <3> QED BY <1>2, <3>1, <3>2 DEF Settles, Mapped
    <2> QED BY <2>1, <2>2, <2>3, <2>4, <2>5 DEF Handler
  <1> QED BY <1>1, <1>2

\* A restart: handlers that were at it have not found out anything.
LEMMA RestartedAside ==
  ASSUME TypeOK, Restarted, NEW q \in Runs, Settles(q)
  PROVE  /\ Reclaimed[q] # item[q] => Reclaimed[q] = "queued" /\ outcome'[q] = "none"
         /\ Reclaimed[q] = item[q] => outcome'[q] = outcome[q]
  BY DEF TypeOK, Restarted, Reclaimed, Handling

\* A firing: the run it creates, and any other, are aside.
LEMMA WrittenAside ==
  ASSUME IInv, NEW s \in Schedules, NEW k \in 1..4, NEW old, NEW statuses, NEW rows, NEW items,
         Written(s, k, old, statuses, rows, items), NEW q \in Runs, Settles(q),
         statuses \in [Runs -> Statuses], rows \in [Runs -> Rows],
         items \in [Runs -> {"none", "queued", "done"} \cup Handling],
         \/ items[q] = item[q] /\ outcome'[q] = outcome[q]
         \/ items[q] = "queued" /\ outcome'[q] = "none",
         \/ statuses[q] = status[q] /\ rows[q] = row[q]
         \/ statuses[q] = "aborted" /\ rows[q] = "cancelled",
         outcome[q] = "none" => outcome'[q] = "none"
  PROVE  Aside(q)
  <1>0. TypeOK /\ Fresh BY DEF IInv
  <1>1. created \in Nat /\ created + 1 \in Runs BY <1>0 DEF TypeOK, Written, Runs
  <1>2. skip' = skip BY DEF Written
  <1>3. CASE q = created + 1
    <2>1. item[q] = "none" BY <1>0, <1>1, <1>3 DEF Fresh
    <2>2. outcome'[q] = "none" BY <2>1 DEF Settles
    <2>3. item'[q] \in {"none", "queued"}
      BY <1>1, <1>3, <2>1 DEF Written
    <2> QED BY <2>2, <2>3 DEF Aside
  <1>4. CASE q # created + 1
    <2>1. item'[q] = items[q] /\ status'[q] = statuses[q] /\ row'[q] = rows[q]
      BY <1>1, <1>4 DEF Written
    <2>2. Latest(q)' = IF skip[q] # "none" THEN skip[q] ELSE rows[q] BY <1>2, <2>1 DEF Latest
    <2> QED BY <2>1, <2>2 DEF Aside, Latest
  <1> QED BY <1>3, <1>4

\* Every other step leaves every run aside.
LEMMA CallAside ==
  ASSUME IInv, NEW c \in Callers, Call(c), NEW q \in Runs, Settles(q)
  PROVE  Aside(q)
  <1>0. TypeOK BY DEF IInv
  <1>1. ASSUME NEW s \in Schedules, Blocked(c, s) \/ Replaces(c, s) PROVE Aside(q)
    BY <1>1 DEF Blocked, Replaces, runs, Aside, Latest
  <1>2. ASSUME NEW s \in Schedules, Skipped(c, s) PROVE Aside(q)
    <2>1. PICK r \in Found(s) : skip' = [skip EXCEPT ![r] = "skipped"] BY <1>2 DEF Skipped
    <2>2. r \in Runs /\ status[r] \in Active BY <1>0, <2>1 DEF Found, Visible, RunsOf, TypeOK, Runs
    <2>3. q # r => skip'[q] = skip[q] BY <1>0, <2>1 DEF TypeOK
    <2>4. UNCHANGED <<status, row, item, outcome>> BY <1>2 DEF Skipped
    <2> QED BY <2>2, <2>3, <2>4 DEF Aside, Latest
  <1>3. ASSUME NEW s \in Schedules, Fires(c, s) PROVE Aside(q)
    <2>1. Written(s, 4, 0, status, row, item) /\ outcome' = outcome BY <1>3 DEF Fires
    <2> QED BY <1>0, <2>1, WrittenAside DEF TypeOK
  <1>4. CASE Replaced(c)
    <2> DEFINE r == replacing[c]
    <2>1. r \in Runs /\ owner[r] \in Schedules BY <1>0, <1>4 DEF TypeOK, Replaced, Runs
    <2>2. Written(owner[r], 4, r, Overridden(r), Cancelled(r), item) /\ outcome' = outcome
      BY <1>4 DEF Replaced
    <2>3. Overridden(r) \in [Runs -> Statuses] /\ Cancelled(r) \in [Runs -> Rows]
      BY <1>0 DEF TypeOK, Overridden, Cancelled, Statuses, Rows, Ends
    <2>4. \/ Overridden(r)[q] = status[q] /\ Cancelled(r)[q] = row[q]
          \/ Overridden(r)[q] = "aborted" /\ Cancelled(r)[q] = "cancelled"
      BY <1>0 DEF TypeOK, Overridden, Cancelled
    <2> HIDE DEF r
    <2> QED BY <1>0, <2>1, <2>2, <2>3, <2>4, WrittenAside DEF TypeOK
  <1>5. CASE ReplacesDeleted(c)
    <2>1. status'[q] \in {status[q], "aborted"} /\ UNCHANGED <<row, skip>>
      BY <1>0, <1>5 DEF TypeOK, ReplacesDeleted, Overridden
    <2>2. CASE c = "tick"
      <3>1. Restarted /\ item' = Reclaimed BY <1>5, <2>2 DEF ReplacesDeleted
      <3> QED BY <1>0, <2>1, <3>1, RestartedAside DEF Aside, Latest
    <2>3. CASE c # "tick"
      <3>1. UNCHANGED <<item, outcome>> BY <1>5, <2>3 DEF ReplacesDeleted
      <3> QED BY <2>1, <3>1 DEF Aside, Latest
    <2> QED BY <2>2, <2>3
  <1> QED BY <1>1, <1>2, <1>3, <1>4, <1>5 DEF Call

LEMMA CrashAside ==
  ASSUME IInv, NEW q \in Runs, Settles(q),
         \/ Crash
         \/ \E s \in Schedules : DispatchesDeleted(s)
         \/ \E c \in Callers, k \in 1..3 : \/ CrashInReplacement(c, k)
                                           \/ \E s \in Schedules : CrashInFiring(c, s, k)
  PROVE  Aside(q)
  <1>0. TypeOK BY DEF IInv
  <1>1. Restarted BY DEF Crash, Crashes, DispatchesDeleted, CrashInReplacement, CrashInFiring
  <1>2. /\ Reclaimed[q] # item[q] => Reclaimed[q] = "queued" /\ outcome'[q] = "none"
        /\ Reclaimed[q] = item[q] => outcome'[q] = outcome[q]
    BY <1>0, <1>1, RestartedAside
  <1>3. outcome[q] = "none" => outcome'[q] = "none" BY <1>0, <1>1 DEF Restarted, TypeOK
  <1>4. Reclaimed \in [Runs -> {"none", "queued", "done"} \cup Handling]
    BY <1>0, ReclaimedType
  <1>5. ASSUME item' = Reclaimed, UNCHANGED <<status, row, skip>> PROVE Aside(q)
    BY <1>2, <1>5 DEF Aside, Latest
  <1>6. CASE Crash BY <1>5, <1>6 DEF Crash
  <1>7. ASSUME NEW s \in Schedules, DispatchesDeleted(s) PROVE Aside(q)
    <2>1. CASE agentOk[s]
      <3>1. Written(s, 1, 0, status, row, Reclaimed) BY <1>7, <2>1 DEF DispatchesDeleted
      <3> QED BY <1>0, <1>2, <1>3, <1>4, <3>1, WrittenAside DEF TypeOK
    <2>2. CASE ~agentOk[s] BY <1>5, <1>7, <2>2 DEF DispatchesDeleted
    <2> QED BY <2>1, <2>2
  <1>8. ASSUME NEW c \in Callers, NEW s \in Schedules, NEW k \in 1..3, CrashInFiring(c, s, k)
        PROVE  Aside(q)
    <2>1. Written(s, k, 0, status, row, Reclaimed) BY <1>8 DEF CrashInFiring
    <2> QED BY <1>0, <1>2, <1>3, <1>4, <2>1, WrittenAside DEF TypeOK
  <1>9. ASSUME NEW c \in Callers, NEW k \in 1..3, CrashInReplacement(c, k) PROVE Aside(q)
    <2> DEFINE r == replacing[c]
    <2>1. r \in Runs /\ owner[r] \in Schedules BY <1>0, <1>9 DEF TypeOK, CrashInReplacement, Runs
    <2>2. Written(owner[r], k, r, Overridden(r), Cancelled(r), Reclaimed)
      BY <1>9 DEF CrashInReplacement
    <2>3. Overridden(r) \in [Runs -> Statuses] /\ Cancelled(r) \in [Runs -> Rows]
      BY <1>0 DEF TypeOK, Overridden, Cancelled, Statuses, Rows, Ends
    <2>4. \/ Overridden(r)[q] = status[q] /\ Cancelled(r)[q] = row[q]
          \/ Overridden(r)[q] = "aborted" /\ Cancelled(r)[q] = "cancelled"
      BY <1>0 DEF TypeOK, Overridden, Cancelled
    <2> HIDE DEF r
    <2> QED BY <1>0, <1>2, <1>3, <1>4, <2>1, <2>2, <2>3, <2>4, WrittenAside DEF TypeOK
  <1> QED BY <1>6, <1>7, <1>8, <1>9

LEMMA EnvironmentAside ==
  ASSUME IInv, NEW q \in Runs, Settles(q),
         \/ TickStarts
         \/ \E s \in Schedules : \/ TimePasses(s) \/ Pauses(s) \/ Resumes(s)
                                 \/ Deletes(s) \/ AgentToggles(s)
         \/ \E r \in Runs : OperatorAborts(r) \/ \E f \in Ends : OperatorResumes(r, f)
  PROVE  Aside(q)
  <1>0. TypeOK BY DEF IInv
  <1>1. ASSUME UNCHANGED <<status, item, outcome>>, Latest(q)' \in {Latest(q), "none"}
        PROVE  Aside(q)
    BY <1>1 DEF Aside
  <1>2. CASE TickStarts BY <1>1, <1>2 DEF TickStarts, runs, Latest
  <1>3. ASSUME NEW s \in Schedules,
               TimePasses(s) \/ Pauses(s) \/ Resumes(s) \/ AgentToggles(s)
        PROVE  Aside(q)
    BY <1>1, <1>3 DEF TimePasses, Pauses, Resumes, AgentToggles, runs, Latest
  <1>4. ASSUME NEW s \in Schedules, Deletes(s) PROVE Aside(q)
    <2>1. row'[q] \in {row[q], "none"} /\ skip'[q] = (IF owner[q] = s THEN "none" ELSE skip[q])
          /\ row'[q] = (IF owner[q] = s THEN "none" ELSE row[q])
      BY <1>4 DEF Deletes
    <2>2. Latest(q)' \in {Latest(q), "none"} BY <2>1 DEF Latest
    <2> QED BY <1>1, <1>4, <2>2 DEF Deletes
  <1>5. ASSUME NEW r \in Runs, OperatorAborts(r) PROVE Aside(q)
    BY <1>0, <1>5 DEF TypeOK, OperatorAborts, Overridden, Aside, Latest
  <1>6. ASSUME NEW r \in Runs, NEW f \in Ends, OperatorResumes(r, f) PROVE Aside(q)
    <2>1. r = q => status[q] = "waiting" BY <1>6 DEF OperatorResumes
    <2>2. r # q => status'[q] = status[q] BY <1>0, <1>6 DEF TypeOK, OperatorResumes
    <2>3. UNCHANGED <<item, outcome, row, skip>> BY <1>6 DEF OperatorResumes
    <2> QED BY <2>1, <2>2, <2>3 DEF Aside, Latest, Active
  <1> QED BY <1>2, <1>3, <1>4, <1>5, <1>6

\* The rows agree with the handlers, at the start and from step to step.
Agreed == \A q \in Runs : Settles(q)

LEMMA NextAgreed == IInv /\ Agreed /\ [Next]_vars => Agreed'
  <1> SUFFICES ASSUME IInv, Agreed, [Next]_vars, NEW q \in Runs PROVE Settles(q)'
    BY DEF Agreed
  <1>0. TypeOK /\ Settles(q) BY DEF IInv, Agreed
  <1>1. Aside(q) => Settles(q)' BY <1>0, AsideSettles
  <1>2. "tick" \in Callers /\ "manual" \in Callers BY DEF Callers
  <1>3. CASE Tick BY <1>0, <1>1, <1>2, <1>3, CallAside, CrashAside, EnvironmentAside DEF Tick
  <1>4. CASE \E r \in Runs : Handler(r) BY <1>0, <1>4, HandlerSettles
  <1>5. CASE Environment
    BY <1>0, <1>1, <1>2, <1>5, CallAside, CrashAside, EnvironmentAside DEF Environment
  <1>6. CASE UNCHANGED vars BY <1>0, <1>6 DEF vars, Settles, Latest
  <1> QED BY <1>3, <1>4, <1>5, <1>6 DEF Next

\* Once a scheduled run's item is done, the latest history row naming the run
\* says what its handler found, if that is how the run ended.
THEOREM EndIsAlwaysReported == Spec => []EndIsReported
  <1>1. Init => Agreed BY DEF Init, Agreed, Settles, Latest, Runs
  <1>2. IInv /\ Agreed => EndIsReported BY DEF IInv, TypeOK, Agreed, Settles, EndIsReported
  <1> QED BY <1>1, <1>2, NextAgreed, Invariance, PTL DEF Spec

-----------------------------------------------------------------------------
(* The queue beneath the handlers.  A firing is an item of the abstract    *)
(* queue in the session of its schedule; what the dispatcher, the handlers *)
(* and crashes do to the items is a call that queue allows its clients.    *)

Phase(r) ==
  CASE item[r] = "none"   -> "none"
    [] item[r] = "queued" -> "waiting"
    [] item[r] = "done"   -> "settled"
    [] OTHER              -> "executing"

Firings == Schedules \X Runs
Phases  == [x \in Firings |-> IF owner[x[2]] = x[1] THEN Phase(x[2]) ELSE "none"]

WQ == INSTANCE WorkQueue
        WITH Items <- Firings, SessionOf <- [x \in Firings |-> x[1]], phase <- Phases

\* Where the item of run n, fired by s, can go by itself.
Moves(s, n, v) ==
  \/ Phase(n) = "none" /\ v \in {"none", "waiting"}
  \/ /\ owner[n] = s
     /\ \/ v = Phase(n)
        \/ Phase(n) \in {"waiting", "executing"} /\ v = "settled"
        \/ Phase(n) = "waiting" /\ v = "executing"
           /\ \A m \in Runs : owner[m] = s => Phase(m) # "executing"

\* What a crash, if there is one, leaves of phase v.
Remains(crash, v) == IF crash /\ v = "executing" THEN "waiting" ELSE v

\* A call seen run by run.
LEMMA CallIs ==
  ASSUME NEW s \in Schedules, NEW n \in Runs, NEW v, NEW crash \in BOOLEAN,
         Moves(s, n, v), owner'[n] = s, Phase(n)' = Remains(crash, v),
         \A m \in Runs : m # n => owner'[m] = owner[m] /\ Phase(m)' = Remains(crash, Phase(m))
  PROVE  WQ!Call
  <1> DEFINE x0 == <<s, n>>
             q  == [Phases EXCEPT ![x0] = v]
  <1>1. x0 \in Firings BY DEF Firings
  <1>2. \A m \in Runs : Phase(m) \in {"none", "waiting", "settled", "executing"} BY DEF Phase
  <1>3. \A t \in Schedules, m \in Runs :
          /\ <<t, m>> \in Firings
          /\ Phases[<<t, m>>] = IF owner[m] = t THEN Phase(m) ELSE "none"
    BY DEF Phases, Firings
  <1>4. WQ!Without(Phases, {}) = Phases
    BY DEF WQ!Without, Phases
  <1>5. v \in WQ!Onward(Phases, x0) \cup {Phases[x0]}
    <2>1. CASE Phase(n) = "none" /\ v \in {"none", "waiting"}
      <3>1. Phases[x0] = "none" BY <1>3, <2>1
      <3> QED BY <2>1, <3>1 DEF WQ!Onward
    <2>2. ASSUME owner[n] = s PROVE Phases[x0] = Phase(n)
      BY <1>3, <2>2
    <2>3. CASE owner[n] = s /\ v = Phase(n) BY <2>2, <2>3
    <2>4. CASE owner[n] = s /\ Phase(n) \in {"waiting", "executing"} /\ v = "settled"
      BY <2>2, <2>4 DEF WQ!Onward
    <2>5. CASE /\ owner[n] = s /\ Phase(n) = "waiting" /\ v = "executing"
               /\ \A m \in Runs : owner[m] = s => Phase(m) # "executing"
      <3> SUFFICES WQ!Free(Phases, x0) BY <2>2, <2>5 DEF WQ!Onward
      <3> SUFFICES ASSUME NEW t \in Schedules, NEW m \in Runs, t = s
                   PROVE  Phases[<<t, m>>] \notin {"executing", "orphan"}
        BY <1>1 DEF WQ!Free, WQ!Busy, Firings
      <3> QED BY <1>2, <1>3, <2>5
    <2> QED BY <2>1, <2>3, <2>4, <2>5 DEF Moves
  <1>6. Phases' = IF crash THEN WQ!Restarted(q) ELSE q
    <2>1. v # "orphan" BY <1>2 DEF Moves
    <2>2. ASSUME NEW x \in Firings PROVE Phases'[x] = Remains(crash, q[x])
      <3>1. PICK t \in Schedules, m \in Runs : x = <<t, m>> BY DEF Firings
      <3>2. Phases'[x] = IF owner'[m] = t THEN Phase(m)' ELSE "none"
        BY <2>2, <3>1 DEF Phases
      <3>3. q[x] = IF x = x0 THEN v ELSE Phases[x] BY <2>2 DEF Phases
      <3>4. CASE m # n BY <1>3, <3>1, <3>2, <3>3, <3>4 DEF Remains
      <3>5. CASE m = n /\ t = s BY <3>1, <3>2, <3>3, <3>5
      <3>6. CASE m = n /\ t # s
        <4>1. Phases[x] = "none" BY <1>3, <3>1, <3>6 DEF Moves
        <4> QED BY <3>1, <3>2, <3>3, <3>6, <4>1 DEF Remains
      <3> QED BY <3>4, <3>5, <3>6
    <2>3. \A x \in Firings : q[x] # "orphan"
      BY <1>2, <2>1 DEF Phases, Firings
    <2>4. WQ!Restarted(q) = [x \in Firings |-> IF q[x] = "executing" THEN "waiting" ELSE q[x]]
      BY <2>3 DEF WQ!Restarted, WQ!Interrupted
    <2>5. Phases' = [x \in Firings |-> Remains(crash, q[x])]
      BY <2>2 DEF Phases
    <2>6. q = [x \in Firings |-> q[x]] BY DEF Phases
    <2> HIDE DEF q
    <2> QED BY <2>4, <2>5, <2>6 DEF Remains
  <1> HIDE DEF q
  <1>7. {} \in SUBSET WQ!Rows OBVIOUS
  <1> QED BY <1>1, <1>4, <1>5, <1>6, <1>7 DEF WQ!Call, q

\* A step that leaves the items and their owners alone does not touch the queue.
LEMMA NoCall == UNCHANGED <<item, owner>> => UNCHANGED Phases
  <1> SUFFICES ASSUME UNCHANGED <<item, owner>> PROVE UNCHANGED Phases
    OBVIOUS
  <1>1. \A r \in Runs : Phase(r)' = Phase(r) BY DEF Phase
  <1> QED BY <1>1 DEF Phases, Firings

\* A crash with nothing written: every execution is put back.
LEMMA ReclaimedServes ==
  TypeOK /\ item' = Reclaimed /\ UNCHANGED owner => WQ!Call \/ UNCHANGED Phases
  <1> SUFFICES ASSUME TypeOK, item' = Reclaimed, UNCHANGED owner
               PROVE  WQ!Call \/ UNCHANGED Phases
    OBVIOUS
  <1>1. \A m \in Runs : Phase(m)' = Remains(TRUE, Phase(m))
    BY DEF TypeOK, Phase, Reclaimed, Remains, Handling
  <1>2. CASE Runs = {} BY <1>2 DEF Phases, Firings
  <1>3. ASSUME NEW n \in Runs PROVE WQ!Call
    <2>1. owner[n] \in Schedules /\ Moves(owner[n], n, Phase(n)) BY <1>3 DEF TypeOK, Moves
    <2> QED BY <1>1, <1>3, <2>1, CallIs
  <1> QED BY <1>2, <1>3

\* A firing, complete or cut short, submits at most the item of a run that had
\* none.
LEMMA WrittenCalls ==
  ASSUME TypeOK, Fresh, NEW s \in Schedules, NEW k \in 1..4, NEW old, NEW statuses, NEW rows,
         NEW items \in {item, Reclaimed}, Written(s, k, old, statuses, rows, items)
  PROVE  WQ!Call
  <1>0. PICK crash \in BOOLEAN : items = IF crash THEN Reclaimed ELSE item OBVIOUS
  <1>1. PICK n \in Runs : n = created + 1 BY DEF TypeOK, Written, Runs
  <1>2. item[n] = "none" /\ Phase(n) = "none" BY <1>1 DEF TypeOK, Fresh, Phase
  <1>3. items \in [Runs -> {"none", "queued", "done"} \cup Handling] BY ReclaimedType DEF TypeOK
  <1>4. items[n] = "none" BY <1>0, <1>2 DEF Reclaimed, Handling
  <1>5. owner' = [owner EXCEPT ![n] = s]
        /\ item' = IF k >= 3 THEN [items EXCEPT ![n] = "queued"] ELSE items
    BY <1>1 DEF Written
  <1>6. owner'[n] = s BY <1>5 DEF TypeOK
  <1>7. \A m \in Runs : m # n => owner'[m] = owner[m] /\ Phase(m)' = Remains(crash, Phase(m))
    <2> SUFFICES ASSUME NEW m \in Runs, m # n
                 PROVE  owner'[m] = owner[m] /\ Phase(m)' = Remains(crash, Phase(m))
      OBVIOUS
    <2>1. owner'[m] = owner[m] /\ item'[m] = items[m] BY <1>3, <1>5 DEF TypeOK
    <2>2. items[m] = IF crash /\ item[m] \in Handling THEN "queued" ELSE item[m] BY <1>0 DEF Reclaimed
    <2> QED BY <2>1, <2>2 DEF TypeOK, Phase, Remains, Handling
  <1> DEFINE v == IF k >= 3 THEN "waiting" ELSE "none"
  <1>8. item'[n] = IF k >= 3 THEN "queued" ELSE "none" BY <1>3, <1>4, <1>5
  <1>9. Phase(n)' = v BY <1>8 DEF Phase
  <1>10. Moves(s, n, v) /\ v = Remains(crash, v) BY <1>2 DEF Moves, Remains
  <1> HIDE DEF v
  <1> QED BY <1>6, <1>7, <1>9, <1>10, CallIs

\* One step of a handler takes an item up or gets on with it.
LEMMA HandlerCalls ==
  ASSUME TypeOK, NEW r \in Runs, Handler(r)
  PROVE  WQ!Call
  <1>1. UNCHANGED owner BY DEF Handler, Takes, Refuses, Executes, Concludes, Reports, Untouched
  <1>2. PICK to \in Handling \cup {"done"} :
          /\ item[r] \in {"queued"} \cup Handling
          /\ item' = [item EXCEPT ![r] = to]
          /\ item[r] = "queued" => \A q \in Runs : owner[q] = owner[r] => item[q] \notin Handling
    BY DEF Handler, Takes, Refuses, Executes, Concludes, Reports, Step, Handling
  <1>3. /\ Phase(r) = IF item[r] = "queued" THEN "waiting" ELSE "executing"
        /\ Phase(r)' = IF to = "done" THEN "settled" ELSE "executing"
        /\ \A q \in Runs : q # r => Phase(q)' = Phase(q)
    BY <1>2 DEF TypeOK, Phase, Handling
  <1>4. \A q \in Runs : item[q] \notin Handling => Phase(q) # "executing"
    BY DEF TypeOK, Phase
  <1>5. owner[r] \in Schedules /\ Moves(owner[r], r, Phase(r)') BY <1>2, <1>3, <1>4 DEF TypeOK, Moves
  <1> QED BY <1>1, <1>3, <1>5, CallIs DEF Remains

\* Every step of the model is a call of the queue, or nothing to it.
LEMMA QueueStep == TypeOK /\ Fresh /\ [Next]_vars => [WQ!Call]_Phases
  <1> SUFFICES ASSUME TypeOK, Fresh, [Next]_vars PROVE WQ!Call \/ UNCHANGED Phases
    OBVIOUS
  <1>1. ASSUME NEW c \in Callers, Call(c) PROVE WQ!Call \/ UNCHANGED Phases
    <2>1. ASSUME NEW s \in Schedules, Blocked(c, s) \/ Skipped(c, s) \/ Replaces(c, s)
          PROVE  UNCHANGED <<item, owner>>
      BY <2>1 DEF Blocked, Skipped, Replaces, runs
    <2>2. ASSUME NEW s \in Schedules, Fires(c, s) PROVE WQ!Call
      BY <2>2, WrittenCalls DEF Fires
    <2>3. CASE Replaced(c)
      <3>1. replacing[c] \in Runs BY <2>3 DEF Replaced, TypeOK, Runs
      <3>2. owner[replacing[c]] \in Schedules BY <3>1 DEF TypeOK
      <3> QED BY <2>3, <3>2, WrittenCalls DEF Replaced
    <2>4. CASE ReplacesDeleted(c)
      BY <2>4, ReclaimedServes, NoCall DEF ReplacesDeleted
    <2> QED BY <1>1, <2>1, <2>2, <2>3, <2>4, NoCall DEF Call
  <1>2. CASE TickStarts BY <1>2, NoCall DEF TickStarts, runs
  <1>3. ASSUME NEW s \in Schedules, DispatchesDeleted(s) PROVE WQ!Call \/ UNCHANGED Phases
    BY <1>3, WrittenCalls, ReclaimedServes DEF DispatchesDeleted
  <1>4. ASSUME NEW r \in Runs, Handler(r) PROVE WQ!Call
    BY <1>4, HandlerCalls
  <1>5. ASSUME NEW s \in Schedules,
               TimePasses(s) \/ Pauses(s) \/ Resumes(s) \/ Deletes(s) \/ AgentToggles(s)
        PROVE  UNCHANGED <<item, owner>>
    BY <1>5 DEF TimePasses, Pauses, Resumes, Deletes, AgentToggles, runs
  <1>6. ASSUME NEW r \in Runs, OperatorAborts(r) \/ \E f \in Ends : OperatorResumes(r, f)
        PROVE  UNCHANGED <<item, owner>>
    BY <1>6 DEF OperatorAborts, OperatorResumes
  <1>7. CASE Crash BY <1>7, ReclaimedServes DEF Crash
  <1>8. ASSUME NEW c \in Callers, NEW s \in Schedules, NEW k \in 1..3, CrashInFiring(c, s, k)
        PROVE  WQ!Call
    BY <1>8, WrittenCalls DEF CrashInFiring
  <1>9. ASSUME NEW c \in Callers, NEW k \in 1..3, CrashInReplacement(c, k)
        PROVE  WQ!Call
    <2>1. replacing[c] \in Runs BY <1>9 DEF CrashInReplacement, TypeOK, Runs
    <2>2. owner[replacing[c]] \in Schedules BY <2>1 DEF TypeOK
    <2> QED BY <1>9, <2>2, WrittenCalls DEF CrashInReplacement
  <1>10. CASE UNCHANGED vars BY <1>10, NoCall DEF vars
  <1>11. "tick" \in Callers /\ "manual" \in Callers BY DEF Callers
  <1>12. CASE Tick BY <1>1, <1>2, <1>3, <1>11, <1>12 DEF Tick
  <1>13. CASE Environment
    BY <1>1, <1>5, <1>6, <1>7, <1>8, <1>9, <1>11, <1>13, NoCall DEF Environment
  <1> QED BY <1>4, <1>10, <1>12, <1>13 DEF Next

\* However ticks, operators, handlers and crashes come between, a firing is
\* submitted once, the firings of a schedule execute one at a time, and one
\* that is done is not taken up again.
THEOREM QueueIsUsedAsPromised == Spec => WQ!CallSpec
  <1>1. Init => WQ!Init BY DEF Init, WQ!Init, Phases, Phase, Firings
  <1>2. IInv => TypeOK /\ Fresh BY DEF IInv
  <1> QED BY <1>1, <1>2, QueueStep, Invariance, PTL DEF Spec, WQ!CallSpec

-----------------------------------------------------------------------------
(* The guard of the tick.                                                  *)

\* scheduleDispatcherInFlight is set exactly while a tick has schedules to go
\* through or awaits an abort: a replacement that throws, a schedule deleted
\* meanwhile or a crash never leave it set, which would end all dispatching,
\* nor clear it early, which would let two ticks run into each other.
GuardIsTrue == inFlight <=> batch # {} \/ replacing["tick"] # 0

LEMMA ReturnsGuard ==
  ASSUME TypeOK, GuardIsTrue, NEW c \in Callers, NEW s, Returns(c, s)
  PROVE  GuardIsTrue'
  <1>1. replacing \in [Callers -> 0..MaxRuns] /\ "tick" \in Callers BY DEF TypeOK, Callers
  <1>2. CASE c = "tick"
    <2>1. replacing'["tick"] = 0 /\ (inFlight' <=> batch' # {}) BY <1>1, <1>2 DEF Returns
    <2> QED BY <2>1 DEF GuardIsTrue
  <1>3. CASE c # "tick"
    <2>1. replacing'["tick"] = replacing["tick"] /\ UNCHANGED <<batch, inFlight>>
      BY <1>1, <1>3 DEF Returns
    <2> QED BY <2>1 DEF GuardIsTrue
  <1> QED BY <1>2, <1>3

LEMMA RestartedGuard == Restarted => GuardIsTrue'
  BY DEF Restarted, GuardIsTrue, Callers

LEMMA StillGuard == GuardIsTrue /\ UNCHANGED <<batch, inFlight, replacing>> => GuardIsTrue'
  BY DEF GuardIsTrue

LEMMA CallGuard == ASSUME TypeOK, GuardIsTrue, NEW c \in Callers, Call(c) PROVE GuardIsTrue'
  <1>1. ASSUME NEW s \in Schedules, Replaces(c, s) PROVE GuardIsTrue'
    <2>1. /\ replacing[c] = 0 /\ (c = "tick" => s \in batch)
          /\ batch' = IF c = "tick" THEN batch \ {s} ELSE batch
          /\ UNCHANGED inFlight
      BY <1>1 DEF Replaces, Turn
    <2>2. PICK r \in Found(s) : replacing' = [replacing EXCEPT ![c] = r]
      BY <1>1 DEF Replaces
    <2>3. r # 0 BY <2>2 DEF Found, Visible, RunsOf
    <2>4. replacing \in [Callers -> 0..MaxRuns] /\ "tick" \in Callers BY DEF TypeOK, Callers
    <2>5. CASE c = "tick" BY <2>1, <2>2, <2>3, <2>4, <2>5 DEF GuardIsTrue
    <2>6. CASE c # "tick" BY <2>1, <2>2, <2>4, <2>6 DEF GuardIsTrue
    <2> QED BY <2>5, <2>6
  <1>2. CASE ReplacesDeleted(c)
    BY <1>2, ReturnsGuard, RestartedGuard DEF ReplacesDeleted
  <1> QED BY <1>1, <1>2, ReturnsGuard DEF Call, Blocked, Skipped, Fires, Replaced

\* The tick's guard tells the truth, whatever throws, is deleted or crashes.
THEOREM GuardIsAlwaysTrue == Spec => []GuardIsTrue
  <1>1. Init => GuardIsTrue BY DEF Init, GuardIsTrue, Callers
  <1>2. ASSUME TypeOK, GuardIsTrue, [Next]_vars PROVE GuardIsTrue'
    <2>1. CASE Tick
      <3>1. CASE TickStarts BY <3>1, <1>2 DEF TickStarts, GuardIsTrue
      <3>2. CASE Call("tick") BY <1>2, <3>2, CallGuard DEF Callers
      <3> QED BY <2>1, <3>1, <3>2, RestartedGuard DEF Tick, DispatchesDeleted
    <2>2. CASE \E r \in Runs : Handler(r)
      BY <1>2, <2>2, StillGuard DEF Handler, Takes, Refuses, Executes, Reports, Concludes,
         Untouched, tick
    <2>3. CASE Environment
      <3>1. CASE Call("manual") BY <1>2, <3>1, CallGuard DEF Callers
      <3>2. ASSUME NEW s \in Schedules,
                   TimePasses(s) \/ Pauses(s) \/ Resumes(s) \/ Deletes(s) \/ AgentToggles(s)
            PROVE  GuardIsTrue'
        BY <1>2, <3>2, StillGuard DEF TimePasses, Pauses, Resumes, Deletes, AgentToggles, tick
      <3>3. ASSUME NEW r \in Runs, OperatorAborts(r) \/ \E f \in Ends : OperatorResumes(r, f)
            PROVE  GuardIsTrue'
        BY <1>2, <3>3, StillGuard DEF OperatorAborts, OperatorResumes, tick
      <3>4. ASSUME Crashes PROVE GuardIsTrue' BY <3>4, RestartedGuard DEF Crashes
      <3> QED
        BY <2>3, <3>1, <3>2, <3>3, <3>4 DEF Environment, Crash, CrashInFiring, CrashInReplacement
    <2>4. CASE UNCHANGED vars BY <1>2, <2>4, StillGuard DEF vars
    <2> QED BY <1>2, <2>1, <2>2, <2>3, <2>4 DEF Next
  <1> QED BY <1>1, <1>2, TypeCorrect, PTL DEF Spec

=============================================================================
