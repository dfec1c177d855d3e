---------------------------- MODULE BacklogProofs ----------------------------
(***************************************************************************)
(* Proofs about the board of Backlog, for any items, agents, dependencies, *)
(* limits and bounds: the types, the limit on what ticks put in progress,  *)
(* the order of dependencies, and the table of transitions.                *)
(* BacklogRunProofs has those about runs.                                  *)
(***************************************************************************)
EXTENDS Backlog, FiniteSetTheorems, TLAPS

USE BacklogAssumption

-----------------------------------------------------------------------------
(* Types.                                                                  *)

BoardOK ==
  /\ state \in [Items -> States \cup {"gone"}]
  /\ deps \in [Items -> SUBSET Items]
  /\ link \in [Items -> Runs \cup {0}]
  /\ by \in [Items -> {"none", "tick", "reconcile", "override", "hand"}]
  /\ edited \subseteq Items

\* The foreign keys of the dependencies.
KeysOK == \A i \in Items : deps[i] \subseteq Present \ {i} /\ (deps[i] # {} => i \in Present)

DelegationsOK ==
  /\ created \in 0..MaxRuns
  /\ agent \in [Runs -> Agents] /\ mode \in [Runs -> Modes] /\ sess \in [Runs -> Runs]
  /\ forItem \in [Runs -> Items] /\ names \in [Runs -> Items] /\ twins \subseteq Runs

RunsOK ==
  /\ status \in [Runs -> Active \cup {"none", "ended"}]
  /\ item \in [Runs -> {"none", "queued", "taken", "done"}]
  /\ lost \subseteq Runs

ExecutionsOK ==
  /\ at \in [Runs -> {"idle", "preparing", "working", "reporting"}]
  /\ attr \in [Runs -> Items]
  /\ filed \in [Runs -> SUBSET Items] /\ revived \subseteq Runs

TicksOK ==
  /\ cands \in [Callers -> SUBSET Items] /\ slots \in [Callers -> 0..Limit]
  /\ phase \in [Callers -> {"idle", "awaiting", "looping"}]
  /\ looping \in Callers \cup {"none"} /\ overlapped \in BOOLEAN

OthersOK == on \in BOOLEAN /\ forcing \subseteq Items /\ events \in 0..MaxEvents

LEMMA TypeParts ==
  /\ TypeOK <=> /\ BoardOK /\ KeysOK /\ DelegationsOK /\ RunsOK
                /\ ExecutionsOK /\ TicksOK /\ OthersOK
  /\ TypeOK' <=> /\ BoardOK' /\ KeysOK' /\ DelegationsOK' /\ RunsOK'
                 /\ ExecutionsOK' /\ TicksOK' /\ OthersOK'
  BY Zenon DEF TypeOK, BoardOK, KeysOK, DelegationsOK, RunsOK, ExecutionsOK, TicksOK, OthersOK

\* Steps that leave a group alone keep its types.
LEMMA Kept ==
  /\ BoardOK /\ UNCHANGED board => BoardOK'
  /\ KeysOK /\ UNCHANGED <<state, deps>> => KeysOK'
  /\ DelegationsOK /\ UNCHANGED queued => DelegationsOK'
  /\ RunsOK /\ UNCHANGED <<status, item, lost>> => RunsOK'
  /\ ExecutionsOK /\ UNCHANGED <<at, attr, filed, revived>> => ExecutionsOK'
  /\ TicksOK /\ UNCHANGED ticks => TicksOK'
  /\ OthersOK /\ UNCHANGED <<on, forcing, events>> => OthersOK'
  <1>1. BoardOK /\ UNCHANGED board => BoardOK' BY DEF BoardOK, board
  <1>2. KeysOK /\ UNCHANGED <<state, deps>> => KeysOK' BY DEF KeysOK, Present
  <1>3. DelegationsOK /\ UNCHANGED queued => DelegationsOK' BY DEF DelegationsOK, queued
  <1>4. RunsOK /\ UNCHANGED <<status, item, lost>> => RunsOK' BY DEF RunsOK
  <1>5. ExecutionsOK /\ UNCHANGED <<at, attr, filed, revived>> => ExecutionsOK'
    BY DEF ExecutionsOK
  <1>6. TicksOK /\ UNCHANGED ticks => TicksOK' BY DEF TicksOK, ticks
  <1>7. OthersOK /\ UNCHANGED <<on, forcing, events>> => OthersOK' BY DEF OthersOK
  <1> QED BY <1>1, <1>2, <1>3, <1>4, <1>5, <1>6, <1>7

\* An item moves between states of items that are there: no foreign key breaks.
Moves == UNCHANGED deps /\ \A j \in Items : (state[j] = "gone") <=> (state'[j] = "gone")

LEMMA MovesKeys == KeysOK /\ Moves => KeysOK'
  BY DEF KeysOK, Moves, Present

LEMMA DelegatedTypes ==
  ASSUME TypeOK, created < MaxRuns,
         NEW i \in Items, NEW a \in Agents, NEW m \in Modes, NEW s \in Runs, NEW k \in 1..5,
         k = 5 => state[i] # "gone",
         NEW items \in [Runs -> {"none", "queued", "taken", "done"}],
         NEW gone \in SUBSET Runs, NEW how \in {"tick", "override"},
         Delegated(i, a, m, s, k, items, gone, how)
  PROVE  BoardOK' /\ KeysOK' /\ DelegationsOK' /\ RunsOK'
  <1>0. created \in 0..MaxRuns BY TypeParts DEF DelegationsOK
  <1>1. created + 1 \in Runs /\ created \in Nat BY <1>0 DEF Runs
  <1> USE TypeParts
  <1>2. state' \in [Items -> States \cup {"gone"}] /\ link' \in [Items -> Runs \cup {0}]
        /\ by' \in [Items -> {"none", "tick", "reconcile", "override", "hand"}]
        /\ edited' \subseteq Items /\ deps' = deps
    BY <1>1 DEF Delegated, BoardOK, States
  <1>3. BoardOK' BY <1>2 DEF BoardOK
  <1>4. Moves BY <1>2 DEF Delegated, Moves, BoardOK
  <1>5. /\ agent' \in [Runs -> Agents] /\ mode' \in [Runs -> Modes] /\ sess' \in [Runs -> Runs]
        /\ forItem' \in [Runs -> Items]
    BY <1>1 DEF Delegated, DelegationsOK
  <1>6. created' \in 0..MaxRuns /\ twins' \subseteq Runs /\ names' \in [Runs -> Items]
    BY <1>1 DEF Delegated, DelegationsOK
  <1>7. RunsOK' BY <1>1 DEF Delegated, RunsOK, Active
  <1> QED BY <1>3, <1>4, <1>5, <1>6, <1>7, MovesKeys DEF DelegationsOK

LEMMA ReconciledTypes ==
  ASSUME TypeOK, NEW i \in Items, NEW how \in {"reconcile", "hand"}, Reconciled(i, how)
  PROVE  BoardOK' /\ KeysOK'
  <1> USE TypeParts
  <1>1. PICK r \in Newest(ActiveFor(i)) : link' = [link EXCEPT ![i] = r] BY DEF Reconciled
  <1>2. r \in Runs BY DEF Newest, ActiveFor, DelegationsOK, Runs
  <1>3. BoardOK' BY <1>1, <1>2 DEF Reconciled, BoardOK, States
  <1>4. Moves BY DEF Reconciled, Moves, BoardOK
  <1> QED BY <1>3, <1>4, MovesKeys

\* Not everything can be put in progress.
LEMMA ReachBelow ==
  ASSUME BoardOK, NEW i \in Items
  PROVE  Reach(i) \in 3..5 /\ (Reach(i) = 5 <=>
           state[i] = "in_progress" \/ "in_progress" \in Allowed(state[i]))
         /\ (Reach(i) = 5 => state[i] \notin {"gone", "done", "archived"})
  BY DEF Reach, MayMove, Allowed, BoardOK

-----------------------------------------------------------------------------
(* Types are kept by every step.                                           *)

LEMMA TickTypes == TypeOK /\ (\E c \in Callers : Tick(c)) => TypeOK'
  <1> SUFFICES ASSUME TypeOK, NEW c \in Callers, Tick(c) PROVE TypeOK'
    OBVIOUS
  <1> USE TypeParts, Kept
  <1>0. BoardOK /\ TicksOK OBVIOUS
  <1>1. CASE TickReads(c)
    <2>1. Cardinality(Working) \in Nat
      BY FS_Subset, FS_CardinalityType DEF Working
    <2>2. TicksOK' BY <1>0, <1>1, <2>1 DEF TickReads, TicksOK
    <2> QED BY <1>1, <2>2 DEF TickReads, board, runs
  <1>2. CASE TickGoesOn(c)
    <2>1. TicksOK' BY <1>0, <1>2 DEF TickGoesOn, TicksOK
    <2> QED BY <1>2, <2>1 DEF TickGoesOn, board, runs
  <1>3. Ended(c) => TicksOK' BY <1>0 DEF Ended, TicksOK
  <1>4. CASE TickEnds(c) BY <1>3, <1>4 DEF TickEnds, board, runs
  <1>5. CASE TickRejected(c) BY <1>3, <1>5 DEF TickRejected, board, runs
  <1>6. ASSUME NEW i \in Items, NEW n \in 0..1, Considers(c, i), Passed(c, i, n) PROVE TicksOK'
    BY <1>0, <1>6 DEF Considers, Passed, TicksOK
  <1>7. ASSUME NEW i \in Items, SkipCandidate(c, i) PROVE TypeOK'
    <2>1. TicksOK' BY <1>6, <1>7 DEF SkipCandidate
    <2>2. BoardOK' /\ Moves BY <1>0, <1>7 DEF SkipCandidate, BoardOK, Moves, States, board
    <2> QED BY <1>7, <2>1, <2>2, MovesKeys DEF SkipCandidate, runs
  <1>8. ASSUME NEW i \in Items, ReconcileCandidate(c, i) PROVE TypeOK'
    <2>1. BoardOK' /\ KeysOK'
      BY <1>8, ReconciledTypes DEF ReconcileCandidate, board
    <2>2. TicksOK' BY <1>3, <1>6, <1>8 DEF ReconcileCandidate
    <2> QED BY <1>8, <2>1, <2>2 DEF ReconcileCandidate, runs
  <1>9. ASSUME NEW i \in Items, NEW s \in Runs, DelegateCandidate(c, i, s) PROVE TypeOK'
    <2>1. Target[i] \in Agents /\ "dispatch" \in Modes BY DEF Modes
    <2>2. Reach(i) \in 1..5 /\ (Reach(i) = 5 => state[i] # "gone") BY <1>0, ReachBelow
    <2>3. BoardOK' /\ KeysOK' /\ DelegationsOK' /\ RunsOK'
      BY <1>9, <2>1, <2>2, DelegatedTypes DEF DelegateCandidate, MayDelegate, Room, RunsOK
    <2>4. TicksOK' BY <1>3, <1>6, <1>9 DEF DelegateCandidate
    <2> QED BY <1>9, <2>3, <2>4 DEF DelegateCandidate
  <1> QED BY <1>1, <1>2, <1>4, <1>5, <1>7, <1>8, <1>9 DEF Tick

LEMMA ExecutionTypes == TypeOK /\ (\E r \in Runs : Execution(r)) => TypeOK'
  <1> SUFFICES ASSUME TypeOK, NEW r \in Runs, Execution(r) PROVE TypeOK'
    OBVIOUS
  <1> USE TypeParts, Kept
  <1>0. BoardOK /\ DelegationsOK /\ RunsOK /\ ExecutionsOK /\ OthersOK OBVIOUS
  <1>a. sess[r] \in Runs /\ names[sess[r]] \in Items BY <1>0 DEF DelegationsOK
  <1>b. ASSUME NEW kind, Event(kind) PROVE events' \in 0..MaxEvents
    BY <1>0, <1>b DEF Event, OthersOK
  <1>1. CASE StartRun(r)
    <2>1. RunsOK' BY <1>0, <1>1 DEF StartRun, RunsOK, Active
    <2>2. ExecutionsOK' BY <1>0, <1>a, <1>1 DEF StartRun, ExecutionsOK
    <2> QED BY <1>1, <2>1, <2>2 DEF StartRun, board
  <1>2. CASE SkipRun(r)
    <2>1. RunsOK' BY <1>0, <1>2 DEF SkipRun, RunsOK
    <2> QED BY <1>2, <2>1 DEF SkipRun, board
  <1>3. CASE BeginRun(r)
    <2>1. RunsOK' BY <1>0, <1>3 DEF BeginRun, RunsOK, Active
    <2>2. ExecutionsOK' BY <1>0, <1>3 DEF BeginRun, ExecutionsOK
    <2> QED BY <1>3, <2>1, <2>2 DEF BeginRun, board
  <1>4. CASE EndRun(r)
    <2>1. RunsOK' BY <1>0, <1>4 DEF EndRun, RunsOK
    <2>2. ExecutionsOK' BY <1>0, <1>4 DEF EndRun, ExecutionsOK
    <2> QED BY <1>4, <2>1, <2>2 DEF EndRun, board
  <1>5. ASSUME NEW v \in {"review", "blocked"}, ReportRun(r, v) PROVE TypeOK'
    <2>1. RunsOK' BY <1>0, <1>5 DEF ReportRun, Left, RunsOK
    <2>2. at' \in [Runs -> {"idle", "preparing", "working", "reporting"}] /\ filed' \in [Runs -> SUBSET Items]
      <3>1. Attributed(r) \subseteq Items BY <1>0 DEF Attributed, ExecutionsOK
      <3> QED BY <1>0, <1>5, <3>1 DEF ReportRun, Left, ExecutionsOK
    <2>3. BoardOK' /\ Moves
      <3>1. \/ state' = state
            \/ \E i \in Items : MayMove(i, v) /\ state' = [state EXCEPT ![i] = v]
        <4>1. Attributed(r) \subseteq Items BY <1>0 DEF Attributed, ExecutionsOK
        <4> QED BY <1>5, <4>1 DEF ReportRun
      <3>2. CASE state' = state
        BY <1>0, <1>5, <3>2 DEF ReportRun, BoardOK, Moves
      <3>3. ASSUME NEW i \in Items, MayMove(i, v), state' = [state EXCEPT ![i] = v]
            PROVE  BoardOK' /\ Moves
        BY <1>0, <1>5, <3>3 DEF ReportRun, BoardOK, Moves, MayMove, Allowed, States
      <3> QED BY <3>1, <3>2, <3>3
    <2>4. ExecutionsOK' BY <1>0, <1>5, <2>2 DEF ReportRun, ExecutionsOK
    <2> QED BY <1>5, <2>1, <2>3, <2>4, MovesKeys DEF ReportRun
  <1>6. CASE ThrowRun(r)
    <2>1. RunsOK' BY <1>0, <1>6 DEF ThrowRun, Left, RunsOK, Active
    <2>2. ExecutionsOK' BY <1>0, <1>6 DEF ThrowRun, Left, ExecutionsOK
    <2>3. OthersOK' BY <1>0, <1>b, <1>6 DEF ThrowRun, OthersOK
    <2> QED BY <1>6, <2>1, <2>2, <2>3 DEF ThrowRun, board
  <1>7. CASE WaitRun(r)
    <2>1. RunsOK' BY <1>0, <1>7 DEF WaitRun, Left, RunsOK, Active
    <2>2. ExecutionsOK' BY <1>0, <1>7 DEF WaitRun, Left, ExecutionsOK
    <2>3. OthersOK' BY <1>0, <1>b, <1>7 DEF WaitRun, OthersOK
    <2> QED BY <1>7, <2>1, <2>2, <2>3 DEF WaitRun, board
  <1>8. CASE ResumeRun(r)
    <2>1. RunsOK' BY <1>0, <1>8 DEF ResumeRun, RunsOK, Active
    <2>2. ExecutionsOK' BY <1>0, <1>a, <1>8 DEF ResumeRun, ExecutionsOK
    <2> QED BY <1>8, <2>1, <2>2 DEF ResumeRun, board
  <1>9. CASE AbortRun(r)
    <2>1. RunsOK' BY <1>0, <1>9 DEF AbortRun, RunsOK
    <2>3. OthersOK' BY <1>0, <1>b, <1>9 DEF AbortRun, OthersOK
    <2> QED BY <1>9, <2>1, <2>3 DEF AbortRun, board
  <1> QED BY <1>1, <1>2, <1>3, <1>4, <1>5, <1>6, <1>7, <1>8, <1>9 DEF Execution

LEMMA OperatorTypes == TypeOK /\ Operators => TypeOK'
  <1> SUFFICES ASSUME TypeOK, Operators PROVE TypeOK'
    OBVIOUS
  <1> USE TypeParts, Kept
  <1>0. BoardOK /\ KeysOK /\ RunsOK /\ OthersOK OBVIOUS
  <1>b. ASSUME NEW kind, Event(kind) PROVE events' \in 0..MaxEvents
    BY <1>0, <1>b DEF Event, OthersOK
  <1>1. ASSUME NEW i \in Items, NEW to \in States, MoveItem(i, to) PROVE TypeOK'
    <2>1. BoardOK' /\ Moves
      BY <1>0, <1>1 DEF MoveItem, BoardOK, Moves, MayMove, Allowed, States
    <2>2. OthersOK' BY <1>0, <1>b, <1>1 DEF MoveItem, OthersOK
    <2> QED BY <1>1, <2>1, <2>2, MovesKeys DEF MoveItem, runs
  <1>2. ASSUME NEW D \in SUBSET Items, DeleteItems(D) PROVE TypeOK'
    <2>1. BoardOK' BY <1>0, <1>2 DEF DeleteItems, Forgotten, BoardOK
    <2>2. KeysOK' BY <1>0, <1>2 DEF DeleteItems, Forgotten, KeysOK, Present, BoardOK
    <2>3. OthersOK' BY <1>0, <1>b, <1>2 DEF DeleteItems, OthersOK
    <2> QED BY <1>2, <2>1, <2>2, <2>3 DEF DeleteItems, runs
  <1>3. ASSUME NEW i \in Items, NEW D \in SUBSET Items, SetDependencies(i, D) PROVE TypeOK'
    <2>1. BoardOK' BY <1>0, <1>3 DEF SetDependencies, BoardOK
    <2>2. KeysOK' BY <1>0, <1>3 DEF SetDependencies, KeysOK, Present, BoardOK
    <2>3. OthersOK' BY <1>0, <1>b, <1>3 DEF SetDependencies, OthersOK
    <2> QED BY <1>3, <2>1, <2>2, <2>3 DEF SetDependencies, runs
  <1>4. CASE SwitchOrchestration
    <2>1. OthersOK' BY <1>0, <1>b, <1>4 DEF SwitchOrchestration, OthersOK
    <2> QED BY <1>4, <2>1 DEF SwitchOrchestration, board, runs
  <1>5. ASSUME NEW i \in Items, ForceAsked(i) PROVE TypeOK'
    <2>1. OthersOK' BY <1>0, <1>b, <1>5 DEF ForceAsked, OthersOK
    <2> QED BY <1>5, <2>1 DEF ForceAsked, board, runs
  <1>6. ASSUME NEW i \in Items, ForceRefused(i) PROVE TypeOK'
    <2>1. BoardOK' /\ KeysOK' BY <1>6, ReconciledTypes DEF ForceRefused, board
    <2>2. OthersOK' BY <1>0, <1>6 DEF ForceRefused, OthersOK
    <2> QED BY <1>6, <2>1, <2>2 DEF ForceRefused, runs
  <1>7. ASSUME NEW i \in Items, NEW a \in Agents, NEW s \in Runs, ForceDelegated(i, a, s)
        PROVE  TypeOK'
    <2>1. Reach(i) \in 1..5 /\ (Reach(i) = 5 => state[i] # "gone") /\ "override" \in Modes
      BY <1>0, ReachBelow DEF Modes
    <2>2. BoardOK' /\ KeysOK' /\ DelegationsOK' /\ RunsOK'
      BY <1>7, <2>1, DelegatedTypes DEF ForceDelegated, MayDelegate, Room, RunsOK
    <2>3. OthersOK' BY <1>0, <1>7 DEF ForceDelegated, OthersOK
    <2> QED BY <1>7, <2>2, <2>3 DEF ForceDelegated
  <1> QED BY <1>1, <1>2, <1>3, <1>4, <1>5, <1>6, <1>7 DEF Operators

LEMMA CrashTypes == TypeOK /\ Crashes => TypeOK'
  <1> SUFFICES ASSUME TypeOK, Crashes PROVE TypeOK'
    OBVIOUS
  <1> USE TypeParts, Kept
  <1>0. BoardOK /\ RunsOK /\ ExecutionsOK /\ TicksOK /\ OthersOK OBVIOUS
  <1>1. Reclaimed \in [Runs -> {"none", "queued", "taken", "done"}]
        /\ lost \cup Dropped \in SUBSET Runs
    BY <1>0 DEF Reclaimed, Dropped, RunsOK
  <1>2. Restarted => TicksOK' BY <1>0 DEF Restarted, TicksOK
  <1>3. Restarted /\ UNCHANGED <<attr, filed, revived>> => ExecutionsOK'
    BY <1>0 DEF Restarted, ExecutionsOK
  <1>4. ASSUME NEW kind, Restarted, Event(kind), UNCHANGED on PROVE OthersOK'
    BY <1>0, <1>4 DEF Restarted, Event, OthersOK
  <1>5. CASE Crash
    <2>1. RunsOK' BY <1>0, <1>1, <1>5 DEF Crash, RunsOK
    <2>2. TicksOK' /\ ExecutionsOK' /\ OthersOK' BY <1>2, <1>3, <1>4, <1>5 DEF Crash
    <2> QED BY <1>5, <2>1, <2>2 DEF Crash, board
  <1>6. ASSUME NEW i \in Items, NEW a \in Agents, NEW m \in Modes, NEW s \in Runs, NEW k \in 1..4,
               CrashDelegating(i, a, m, s, k)
        PROVE  TypeOK'
    <2>1. BoardOK' /\ KeysOK' /\ DelegationsOK' /\ RunsOK'
      <3>1. k \in 1..5 /\ k # 5 /\ created < MaxRuns
        BY <1>6 DEF CrashDelegating, MayDelegate, Room
      <3>2. Delegated(i, a, m, s, k, Reclaimed, lost \cup Dropped, "tick")
        BY <1>6 DEF CrashDelegating
      <3> QED BY <1>1, <3>1, <3>2, DelegatedTypes
    <2>2. TicksOK' /\ ExecutionsOK' /\ OthersOK' BY <1>2, <1>3, <1>4, <1>6 DEF CrashDelegating
    <2> QED BY <2>1, <2>2
  <1> QED BY <1>5, <1>6 DEF Crashes

LEMMA InitTypes == Init => TypeOK
  <1> SUFFICES ASSUME Init PROVE TypeOK
    OBVIOUS
  <1>1. PICK x \in Items : TRUE OBVIOUS
  <1>2. (CHOOSE i \in Items : TRUE) \in Items OBVIOUS
  <1>3. (CHOOSE a \in Agents : TRUE) \in Agents
    <2>1. Target[x] \in Agents OBVIOUS
    <2> QED BY <2>1
  <1>4. BoardOK /\ RunsOK
    BY DEF Init, BoardOK, RunsOK, States, Active
  <1>8. on \in BOOLEAN /\ overlapped \in BOOLEAN /\ looping \in Callers \cup {"none"}
        /\ forcing \subseteq Items
    BY Zenon DEF Init
  <1>9. /\ cands \in [Callers -> SUBSET Items] /\ slots \in [Callers -> 0..Limit]
        /\ phase \in [Callers -> {"idle", "awaiting", "looping"}] /\ events \in 0..MaxEvents
    BY DEF Init
  <1>5. KeysOK BY DEF Init, KeysOK, Present
  <1>6. DelegationsOK BY <1>2, <1>3 DEF Init, DelegationsOK, Modes
  <1>7. ExecutionsOK BY <1>2 DEF Init, ExecutionsOK
  <1> QED BY <1>4, <1>5, <1>6, <1>7, <1>8, <1>9, TypeParts DEF TicksOK, OthersOK

\* The types hold in every reachable state.
THEOREM TypeCorrect == Spec => []TypeOK
  <1>1. TypeOK /\ [Next]_vars => TypeOK'
    <2>1. TypeOK /\ UNCHANGED vars => TypeOK'
      BY TypeParts, Kept DEF vars, board, queued, ticks
    <2> QED BY <2>1, TickTypes, ExecutionTypes, OperatorTypes, CrashTypes DEF Next
  <1> QED BY <1>1, InitTypes, PTL DEF Spec

-----------------------------------------------------------------------------
(* The limit.  What makes the bound inductive is the slots of the ticks    *)
(* under way: the items in progress and these slots together stay within   *)
(* the limit, or twice the limit once two ticks overlapped.                *)

Bound == IF overlapped THEN 2 * Limit ELSE Limit

Wip ==
  /\ \A c \in Callers : phase[c] = "idle" => slots[c] = 0
  /\ overlapped \/ phase["scheduler"] = "idle" \/ phase["operator"] = "idle"
  /\ Cardinality(ByTick) + slots["scheduler"] + slots["operator"] <= Bound

LEMMA Counts ==
  /\ Cardinality(ByTick) \in Nat /\ Cardinality(ByTick') \in Nat
  /\ Cardinality(Working) \in Nat /\ Cardinality(ByTick) <= Cardinality(Working)
  /\ ByTick' \subseteq ByTick => Cardinality(ByTick') <= Cardinality(ByTick)
  /\ \A i \in Items : ByTick' \subseteq ByTick \cup {i} => Cardinality(ByTick') <= Cardinality(ByTick) + 1
  <1>1. /\ IsFiniteSet(ByTick) /\ IsFiniteSet(ByTick') /\ IsFiniteSet(Working)
        /\ ByTick \subseteq Working
    BY FS_Subset DEF ByTick, Working
  <1>2. \A i \in Items : IsFiniteSet(ByTick \cup {i}) /\ Cardinality(ByTick \cup {i}) <= Cardinality(ByTick) + 1
    <2> SUFFICES ASSUME NEW i \in Items
                 PROVE IsFiniteSet(ByTick \cup {i}) /\ Cardinality(ByTick \cup {i}) <= Cardinality(ByTick) + 1
      OBVIOUS
    <2>1. Cardinality(ByTick) \in Nat BY <1>1, FS_CardinalityType
    <2>2. IsFiniteSet(ByTick \cup {i})
          /\ Cardinality(ByTick \cup {i}) = IF i \in ByTick THEN Cardinality(ByTick) ELSE Cardinality(ByTick) + 1
      BY <1>1, FS_AddElement, Zenon
    <2> QED BY <2>1, <2>2
  <1>3. \A i \in Items : ByTick' \subseteq ByTick \cup {i} => Cardinality(ByTick') <= Cardinality(ByTick \cup {i})
                            /\ Cardinality(ByTick') \in Nat /\ Cardinality(ByTick \cup {i}) \in Nat
    BY <1>1, <1>2, FS_Subset, FS_CardinalityType
  <1>4. Cardinality(ByTick) \in Nat BY <1>1, FS_CardinalityType
  <1>5. ASSUME NEW i \in Items, ByTick' \subseteq ByTick \cup {i}
        PROVE  Cardinality(ByTick') <= Cardinality(ByTick) + 1
    <2>1. Cardinality(ByTick') <= Cardinality(ByTick \cup {i}) /\ Cardinality(ByTick') \in Nat
          /\ Cardinality(ByTick \cup {i}) \in Nat
      BY <1>3, <1>5, Zenon
    <2>2. Cardinality(ByTick \cup {i}) <= Cardinality(ByTick) + 1 BY <1>2, Zenon
    <2> QED BY <1>4, <2>1, <2>2
  <1> QED BY <1>1, <1>4, <1>5, FS_Subset, FS_CardinalityType

\* The ways a step can treat the ticks.
LEMMA SteadyWip == Wip /\ UNCHANGED ticks /\ ByTick' \subseteq ByTick /\ TicksOK => Wip'
  BY Counts DEF Wip, Bound, ticks, TicksOK, Callers

LEMMA EndedWip ==
  ASSUME Wip, TicksOK, NEW c \in Callers, Ended(c), ByTick' \subseteq ByTick
  PROVE  Wip'
  BY Counts DEF Wip, Bound, Ended, TicksOK, Callers

LEMMA PassedWip ==
  ASSUME Wip, TicksOK, NEW c \in Callers, NEW i \in Items, NEW n \in 0..1,
         Considers(c, i), Passed(c, i, n),
         ByTick' \subseteq IF n = 1 THEN ByTick \cup {i} ELSE ByTick
  PROVE  Wip'
  <1>1. Cardinality(ByTick') <= Cardinality(ByTick) + n BY Counts
  <1>2. slots' = [slots EXCEPT ![c] = @ - n] /\ UNCHANGED <<phase, overlapped>> /\ slots[c] > 0
    BY DEF Passed, Considers
  <1> QED BY <1>1, <1>2, Counts DEF Wip, Bound, TicksOK, Callers

LEMMA RestartedWip == Wip /\ TicksOK /\ Restarted /\ ByTick' \subseteq ByTick => Wip'
  BY Counts DEF Wip, Bound, Restarted, TicksOK, Callers

\* What delegations and reconciliations put in progress.
LEMMA DelegatedByTick ==
  ASSUME BoardOK, NEW i \in Items, NEW a, NEW m, NEW s, NEW k \in 1..5,
         NEW items, NEW gone, NEW how,
         Delegated(i, a, m, s, k, items, gone, how)
  PROVE  /\ ByTick' \subseteq ByTick \cup {i}
         /\ k <= 4 \/ how = "override" => ByTick' \subseteq ByTick
  <1>1. UNCHANGED <<state, by>> \/ (k >= 5 /\ state' = [state EXCEPT ![i] = "in_progress"]
                                           /\ by' = [by EXCEPT ![i] = how])
    BY DEF Delegated
  <1>2. k <= 4 => UNCHANGED <<state, by>> BY DEF Delegated
  <1> QED BY <1>1, <1>2 DEF ByTick, BoardOK

LEMMA ReconciledByTick ==
  ASSUME BoardOK, NEW i \in Items, NEW how, Reconciled(i, how)
  PROVE  /\ ByTick' \subseteq ByTick \cup {i}
         /\ how = "hand" => ByTick' \subseteq ByTick
  BY DEF Reconciled, ByTick, BoardOK

LEMMA TickWip == TypeOK /\ Wip /\ (\E c \in Callers : Tick(c)) => Wip'
  <1> SUFFICES ASSUME TypeOK, Wip, NEW c \in Callers, Tick(c) PROVE Wip'
    OBVIOUS
  <1>0. BoardOK /\ TicksOK BY TypeParts
  <1>s. UNCHANGED board => ByTick' = ByTick BY DEF board, ByTick
  <1>1. CASE TickReads(c)
    <2>1. ByTick' = ByTick BY <1>1, <1>s DEF TickReads
    <2>2. slots' = [slots EXCEPT ![c] = Limit - Cardinality(Working)]
          /\ Cardinality(Working) < Limit /\ slots[c] = 0
          /\ phase' = [phase EXCEPT ![c] = "awaiting"]
          /\ overlapped' = (overlapped \/ \E d \in Callers \ {c} : phase[d] # "idle")
      BY <1>1 DEF TickReads, Wip
    <2>3. overlapped => overlapped' BY <2>2
    <2>4. \A d \in Callers \ {c} : ~overlapped' => phase[d] = "idle" BY <2>2
    <2>5. Cardinality(ByTick') = Cardinality(ByTick) BY <2>1
    <2> HIDE <2>1
    <2> QED BY <1>0, <2>2, <2>3, <2>4, <2>5, Counts DEF Wip, Bound, TicksOK, Callers
  <1>2. CASE TickGoesOn(c)
    <2>1. ByTick' = ByTick BY <1>2, <1>s DEF TickGoesOn
    <2> QED BY <1>0, <1>2, <2>1, Counts DEF TickGoesOn, Wip, Bound, TicksOK, Callers
  <1>3. CASE TickEnds(c) BY <1>0, <1>s, <1>3, EndedWip DEF TickEnds
  <1>4. CASE TickRejected(c) BY <1>0, <1>s, <1>4, EndedWip DEF TickRejected
  <1>5. ASSUME NEW i \in Items, SkipCandidate(c, i) PROVE Wip'
    <2>1. ByTick' \subseteq ByTick BY <1>0, <1>5 DEF SkipCandidate, ByTick, BoardOK, board
    <2>2. Considers(c, i) /\ Passed(c, i, 0) BY <1>5 DEF SkipCandidate
    <2> QED BY <1>0, <2>1, <2>2, PassedWip
  <1>6. ASSUME NEW i \in Items, ReconcileCandidate(c, i) PROVE Wip'
    <2>1. CASE state[i] = "gone"
      BY <1>0, <1>s, <1>6, <2>1, EndedWip DEF ReconcileCandidate
    <2>2. CASE state[i] # "gone"
      <3>1. Considers(c, i) /\ Passed(c, i, 1) /\ Reconciled(i, "reconcile")
        BY <1>6, <2>2 DEF ReconcileCandidate
      <3>2. ByTick' \subseteq ByTick \cup {i} BY <1>0, <3>1, ReconciledByTick
      <3> QED BY <1>0, <3>1, <3>2, PassedWip
    <2> QED BY <2>1, <2>2
  <1>7. ASSUME NEW i \in Items, NEW s \in Runs, DelegateCandidate(c, i, s) PROVE Wip'
    <2>1. Reach(i) \in 1..5 BY <1>0, ReachBelow
    <2>2. Delegated(i, Target[i], "dispatch", s, Reach(i), item, lost, "tick")
      BY <1>7 DEF DelegateCandidate
    <2>3. CASE state[i] = "gone"
      <3>1. Reach(i) = 3 BY <2>3 DEF Reach
      <3>2. ByTick' \subseteq ByTick BY <1>0, <2>1, <2>2, <3>1, DelegatedByTick
      <3> QED BY <1>0, <1>7, <2>3, <3>2, EndedWip DEF DelegateCandidate
    <2>4. CASE state[i] # "gone"
      <3>1. Considers(c, i) /\ Passed(c, i, 1) BY <1>7, <2>4 DEF DelegateCandidate
      <3>2. ByTick' \subseteq ByTick \cup {i} BY <1>0, <2>1, <2>2, DelegatedByTick
      <3> QED BY <1>0, <3>1, <3>2, PassedWip
    <2> QED BY <2>3, <2>4
  <1> QED BY <1>1, <1>2, <1>3, <1>4, <1>5, <1>6, <1>7 DEF Tick

LEMMA ExecutionWip == TypeOK /\ Wip /\ (\E r \in Runs : Execution(r)) => Wip'
  <1> SUFFICES ASSUME TypeOK, Wip, NEW r \in Runs, Execution(r) PROVE Wip'
    OBVIOUS
  <1>0. BoardOK /\ TicksOK /\ ExecutionsOK BY TypeParts
  <1>1. UNCHANGED ticks
    BY DEF Execution, StartRun, SkipRun, BeginRun, EndRun, ReportRun, ThrowRun, WaitRun, ResumeRun, AbortRun
  <1>2. CASE \E v \in {"review", "blocked"} : ReportRun(r, v)
    <2>1. PICK v \in {"review", "blocked"} : ReportRun(r, v) BY <1>2
    <2>2. Attributed(r) \subseteq Items BY <1>0 DEF Attributed, ExecutionsOK
    <2>3. UNCHANGED by /\ (\/ state' = state
                           \/ \E i \in Items : MayMove(i, v) /\ state' = [state EXCEPT ![i] = v])
      BY <2>1, <2>2 DEF ReportRun
    <2>4. ByTick' \subseteq ByTick BY <1>0, <2>1, <2>3 DEF ByTick, MayMove, Allowed, BoardOK
    <2> QED BY <1>0, <1>1, <2>4, SteadyWip
  <1>3. CASE ~\E v \in {"review", "blocked"} : ReportRun(r, v)
    <2>1. UNCHANGED board
      BY <1>3 DEF Execution, StartRun, SkipRun, BeginRun, EndRun, ThrowRun, WaitRun, ResumeRun, AbortRun
    <2>2. ByTick' = ByTick BY <2>1 DEF board, ByTick
    <2> QED BY <1>0, <1>1, <2>2, SteadyWip
  <1> QED BY <1>2, <1>3

LEMMA OperatorWip == TypeOK /\ Wip /\ Operators => Wip'
  <1> SUFFICES ASSUME TypeOK, Wip, Operators PROVE Wip'
    OBVIOUS
  <1>0. BoardOK /\ TicksOK BY TypeParts
  <1>1. UNCHANGED ticks
    BY DEF Operators, MoveItem, DeleteItems, SetDependencies, SwitchOrchestration, ForceAsked,
           ForceRefused, ForceDelegated
  <1>2. ASSUME NEW i \in Items, NEW to \in States, MoveItem(i, to) PROVE ByTick' \subseteq ByTick
    BY <1>0, <1>2 DEF MoveItem, MayMove, Allowed, ByTick, BoardOK
  <1>3. ASSUME NEW D \in SUBSET Items, DeleteItems(D) PROVE ByTick' \subseteq ByTick
    BY <1>0, <1>3 DEF DeleteItems, ByTick, BoardOK
  <1>4. ASSUME NEW i \in Items, NEW D \in SUBSET Items, SetDependencies(i, D)
        PROVE  ByTick' \subseteq ByTick
    BY <1>4 DEF SetDependencies, ByTick
  <1>5. ASSUME NEW i \in Items, SwitchOrchestration \/ ForceAsked(i) PROVE ByTick' \subseteq ByTick
    BY <1>5 DEF SwitchOrchestration, ForceAsked, ByTick, board
  <1>6. ASSUME NEW i \in Items, ForceRefused(i) PROVE ByTick' \subseteq ByTick
    <2>1. UNCHANGED board => ByTick' = ByTick BY DEF board, ByTick
    <2> QED BY <1>0, <1>6, <2>1, ReconciledByTick DEF ForceRefused
  <1>7. ASSUME NEW i \in Items, NEW a \in Agents, NEW s \in Runs, ForceDelegated(i, a, s)
        PROVE  ByTick' \subseteq ByTick
    <2>1. Reach(i) \in 1..5 BY <1>0, ReachBelow
    <2> QED BY <1>0, <1>7, <2>1, DelegatedByTick DEF ForceDelegated
  <1>8. ByTick' \subseteq ByTick
    <2>1. CASE SwitchOrchestration
      <3>1. PICK i \in Items : TRUE OBVIOUS
      <3> QED BY <1>5, <2>1, <3>1
    <2> QED BY <1>2, <1>3, <1>4, <1>5, <1>6, <1>7, <2>1 DEF Operators
  <1> QED BY <1>0, <1>1, <1>8, SteadyWip

LEMMA CrashWip == TypeOK /\ Wip /\ Crashes => Wip'
  <1> SUFFICES ASSUME TypeOK, Wip, Crashes PROVE Wip'
    OBVIOUS
  <1>0. BoardOK /\ TicksOK BY TypeParts
  <1>1. CASE Crash
    <2>1. ByTick' = ByTick BY <1>1 DEF Crash, board, ByTick
    <2> QED BY <1>0, <1>1, <2>1, RestartedWip DEF Crash
  <1>2. ASSUME NEW i \in Items, NEW a \in Agents, NEW m \in Modes, NEW s \in Runs, NEW k \in 1..4,
               CrashDelegating(i, a, m, s, k)
        PROVE  Wip'
    <2>1. Restarted /\ Delegated(i, a, m, s, k, Reclaimed, lost \cup Dropped, "tick")
      BY <1>2 DEF CrashDelegating
    <2>2. k \in 1..5 /\ k <= 4 OBVIOUS
    <2>3. ByTick' \subseteq ByTick BY <1>0, <2>1, <2>2, DelegatedByTick
    <2> QED BY <1>0, <2>1, <2>3, RestartedWip
  <1> QED BY <1>1, <1>2 DEF Crashes

\* Ticks put no more in progress than the limit, or twice the limit where the
\* timer's tick and one asked for overlap.
THEOREM WipIsRespected == Spec => []WipRespected
  <1>1. Init => Wip
    <2> SUFFICES ASSUME Init PROVE Wip
      OBVIOUS
    <2>1. ByTick = {} BY DEF Init, ByTick
    <2>2. Cardinality(ByTick) = 0 BY <2>1, FS_EmptySet
    <2> QED BY <2>2 DEF Init, Wip, Bound, Callers
  <1>2. TypeOK /\ Wip /\ [Next]_vars => Wip'
    <2>1. TypeOK /\ Wip /\ UNCHANGED vars => Wip'
      <3> SUFFICES ASSUME TypeOK, Wip, UNCHANGED vars PROVE Wip'
        OBVIOUS
      <3>1. ByTick' = ByTick /\ UNCHANGED ticks BY DEF vars, ByTick, ticks
      <3> QED BY <3>1, SteadyWip, TypeParts
    <2> QED BY <2>1, TickWip, ExecutionWip, OperatorWip, CrashWip DEF Next
  <1>3. TypeOK /\ Wip => WipRespected
    <2> SUFFICES ASSUME TypeOK, Wip PROVE WipRespected
      OBVIOUS
    <2>1. TicksOK BY TypeParts
    <2> QED BY <2>1, Counts DEF Wip, Bound, WipRespected, TicksOK, Callers
  <1> QED BY <1>1, <1>2, <1>3, TypeCorrect, PTL DEF Spec

-----------------------------------------------------------------------------
(* The order of dependencies: what is done or archived stays so.           *)

Finished(d) == state[d] \in {"done", "archived"}
Started(i)  == state[i] = "done" \/ (i \in Working /\ by[i] = "tick")

\* Dependencies and what is finished stay, and what gets started now has its
\* dependencies behind it.
Forward ==
  /\ UNCHANGED deps
  /\ \A d \in Items : Finished(d) => Finished(d)'
  /\ \A i \in Items \ edited' : Started(i)' => (i \notin edited /\ Started(i)) \/ Resolved(i)

LEMMA ForwardOrder == BoardOK /\ OrderKept /\ Forward => OrderKept'
  <1> SUFFICES ASSUME BoardOK, OrderKept, Forward, NEW i \in Items \ edited', Started(i)'
               PROVE  Resolved(i)'
    BY DEF OrderKept, Started
  <1>1. Resolved(i) BY DEF Forward, OrderKept, Started
  <1>2. deps[i] \subseteq Items BY DEF BoardOK
  <1> QED BY <1>1, <1>2 DEF Forward, Resolved, Finished

LEMMA StillForward == UNCHANGED board => Forward
  BY DEF board, Forward, Finished, Started, Working

LEMMA DelegatedForward ==
  ASSUME BoardOK, NEW i \in Items, NEW a, NEW m, NEW s, NEW k \in 1..5,
         NEW items, NEW gone, NEW how \in {"tick", "override"},
         Delegated(i, a, m, s, k, items, gone, how),
         k = 5 => state[i] \notin {"gone", "done", "archived"},
         how = "tick" => Resolved(i)
  PROVE  Forward
  <1>1. CASE k < 5 BY <1>1 DEF Delegated, Forward, Finished, Started, Working
  <1>2. CASE k = 5
    <2>1. state' = [state EXCEPT ![i] = "in_progress"] /\ by' = [by EXCEPT ![i] = how]
          /\ edited' = edited \ {i} /\ UNCHANGED deps
      BY <1>2 DEF Delegated
    <2>2. \A d \in Items : Finished(d) => Finished(d)' BY <1>2, <2>1 DEF Finished, BoardOK
    <2>3. ASSUME NEW j \in Items \ edited', Started(j)'
          PROVE  (j \notin edited /\ Started(j)) \/ Resolved(j)
      BY <2>1, <2>3 DEF Started, Working, BoardOK
    <2> QED BY <2>1, <2>2, <2>3 DEF Forward
  <1> QED BY <1>1, <1>2

LEMMA ReconciledForward ==
  ASSUME BoardOK, NEW i \in Items, NEW how \in {"reconcile", "hand"}, Reconciled(i, how)
  PROVE  Forward
  <1>1. UNCHANGED <<deps, edited>> BY DEF Reconciled
  <1>2. CASE UNCHANGED <<state, by>> BY <1>1, <1>2 DEF Forward, Finished, Started, Working
  <1>3. CASE /\ state[i] \in {"planned", "blocked"}
             /\ state' = [state EXCEPT ![i] = "in_progress"] /\ by' = [by EXCEPT ![i] = how]
    <2>1. \A d \in Items : Finished(d) => Finished(d)' BY <1>3 DEF Finished, BoardOK
    <2>2. \A j \in Items : Started(j)' => Started(j) BY <1>3 DEF Started, Working, BoardOK
    <2> QED BY <1>1, <2>1, <2>2 DEF Forward
  <1> QED BY <1>2, <1>3 DEF Reconciled

\* An item is moved along an edge of the table, not into progress by a tick.
LEMMA MovedForward ==
  ASSUME BoardOK, NEW i \in Items, NEW to \in States, MayMove(i, to),
         state' = [state EXCEPT ![i] = to], UNCHANGED deps,
         by' = IF to = "in_progress" THEN [by EXCEPT ![i] = "hand"] ELSE by,
         edited' = IF to = "done" THEN edited \ {i} ELSE edited
  PROVE  Forward
  <1>1. \A d \in Items : Finished(d) => Finished(d)' BY DEF Finished, BoardOK, MayMove, Allowed
  <1>2. ASSUME NEW j \in Items \ edited', Started(j)', j # i PROVE j \notin edited /\ Started(j)
    BY <1>2 DEF Started, Working, BoardOK
  <1>3. ASSUME i \notin edited', Started(i)' PROVE (i \notin edited /\ Started(i)) \/ Resolved(i)
    <2>1. CASE to = "done" BY <2>1 DEF MayMove
    <2>2. CASE to = "review" BY <1>3, <2>2 DEF Started, Working, BoardOK, MayMove, Allowed
    <2>3. CASE to = "in_progress" BY <1>3, <2>3 DEF Started, Working, BoardOK
    <2>4. CASE to \notin {"done", "review", "in_progress"}
      BY <1>3, <2>4 DEF Started, Working, BoardOK
    <2> QED BY <2>1, <2>2, <2>3, <2>4
  <1> QED BY <1>1, <1>2, <1>3 DEF Forward

LEMMA TickOrder == TypeOK /\ OrderKept /\ (\E c \in Callers : Tick(c)) => OrderKept'
  <1> SUFFICES ASSUME TypeOK, OrderKept, NEW c \in Callers, Tick(c) PROVE Forward
    BY ForwardOrder, TypeParts
  <1>0. BoardOK BY TypeParts
  <1>1. CASE TickReads(c) \/ TickGoesOn(c) \/ TickEnds(c) \/ TickRejected(c)
    BY <1>1, StillForward DEF TickReads, TickGoesOn, TickEnds, TickRejected
  <1>2. ASSUME NEW i \in Items, SkipCandidate(c, i) PROVE Forward
    <2>1. \/ UNCHANGED board
          \/ /\ state[i] = "planned" /\ state' = [state EXCEPT ![i] = "blocked"]
             /\ UNCHANGED <<deps, link, by, edited>>
      BY <1>2 DEF SkipCandidate, board
    <2>2. CASE UNCHANGED board BY <2>2, StillForward
    <2>3. CASE /\ state[i] = "planned" /\ state' = [state EXCEPT ![i] = "blocked"]
               /\ UNCHANGED <<deps, link, by, edited>>
      BY <1>0, <2>3 DEF Forward, Finished, Started, Working, BoardOK
    <2> QED BY <2>1, <2>2, <2>3
  <1>3. ASSUME NEW i \in Items, ReconcileCandidate(c, i) PROVE Forward
    BY <1>0, <1>3, StillForward, ReconciledForward DEF ReconcileCandidate
  <1>4. ASSUME NEW i \in Items, NEW s \in Runs, DelegateCandidate(c, i, s) PROVE Forward
    <2>1. Reach(i) \in 1..5 /\ (Reach(i) = 5 => state[i] \notin {"gone", "done", "archived"})
      BY <1>0, ReachBelow
    <2> QED BY <1>0, <1>4, <2>1, DelegatedForward DEF DelegateCandidate
  <1> QED BY <1>1, <1>2, <1>3, <1>4 DEF Tick

LEMMA ExecutionOrder == TypeOK /\ OrderKept /\ (\E r \in Runs : Execution(r)) => OrderKept'
  <1> SUFFICES ASSUME TypeOK, OrderKept, NEW r \in Runs, Execution(r) PROVE Forward
    BY ForwardOrder, TypeParts
  <1>0. BoardOK /\ ExecutionsOK BY TypeParts
  <1>1. ASSUME NEW v \in {"review", "blocked"}, ReportRun(r, v) PROVE Forward
    <2>1. Attributed(r) \subseteq Items BY <1>0 DEF Attributed, ExecutionsOK
    <2>2. UNCHANGED <<deps, link, by, edited>>
          /\ (\/ state' = state
              \/ \E i \in Items : MayMove(i, v) /\ state' = [state EXCEPT ![i] = v])
      BY <1>1, <2>1 DEF ReportRun
    <2>3. CASE state' = state BY <2>2, <2>3, StillForward DEF board
    <2>4. ASSUME NEW i \in Items, MayMove(i, v), state' = [state EXCEPT ![i] = v] PROVE Forward
      BY <1>0, <2>2, <2>4, MovedForward DEF States
    <2> QED BY <2>2, <2>3, <2>4
  <1>2. CASE UNCHANGED board BY <1>2, StillForward
  <1> QED
    BY <1>1, <1>2 DEF Execution, StartRun, SkipRun, BeginRun, EndRun, ThrowRun, WaitRun,
                      ResumeRun, AbortRun

LEMMA OperatorOrder == TypeOK /\ OrderKept /\ Operators => OrderKept'
  <1> SUFFICES ASSUME TypeOK, OrderKept, Operators PROVE OrderKept'
    OBVIOUS
  <1>0. BoardOK /\ KeysOK BY TypeParts
  <1> USE ForwardOrder
  <1>1. ASSUME NEW i \in Items, NEW to \in States, MoveItem(i, to) PROVE OrderKept'
    BY <1>0, <1>1, MovedForward DEF MoveItem
  <1>2. ASSUME NEW D \in SUBSET Items, DeleteItems(D) PROVE OrderKept'
    <2> SUFFICES ASSUME NEW i \in Items \ edited', Started(i)' PROVE Resolved(i)'
      BY DEF OrderKept, Started
    <2>1. i \notin D /\ i \notin edited /\ Started(i)
      BY <1>0, <1>2 DEF DeleteItems, Started, Working, BoardOK
    <2>2. Resolved(i) BY <2>1 DEF OrderKept, Started
    <2> QED BY <1>0, <1>2, <2>1, <2>2 DEF DeleteItems, Forgotten, Resolved, BoardOK
  <1>3. ASSUME NEW i \in Items, NEW D \in SUBSET Items, SetDependencies(i, D) PROVE OrderKept'
    BY <1>0, <1>3 DEF SetDependencies, OrderKept, Resolved, Working, BoardOK
  <1>4. ASSUME NEW i \in Items, SwitchOrchestration \/ ForceAsked(i) PROVE OrderKept'
    BY <1>0, <1>4, StillForward DEF SwitchOrchestration, ForceAsked
  <1>5. ASSUME NEW i \in Items, ForceRefused(i) PROVE OrderKept'
    BY <1>0, <1>5, StillForward, ReconciledForward DEF ForceRefused
  <1>6. ASSUME NEW i \in Items, NEW a \in Agents, NEW s \in Runs, ForceDelegated(i, a, s)
        PROVE  OrderKept'
    <2>1. Reach(i) \in 1..5 /\ (Reach(i) = 5 => state[i] \notin {"gone", "done", "archived"})
      BY <1>0, ReachBelow
    <2> QED BY <1>0, <1>6, <2>1, DelegatedForward DEF ForceDelegated
  <1>7. CASE SwitchOrchestration
    <2>1. PICK i \in Items : TRUE OBVIOUS
    <2> QED BY <1>4, <1>7, <2>1
  <1> QED BY <1>1, <1>2, <1>3, <1>4, <1>5, <1>6, <1>7 DEF Operators

LEMMA CrashOrder == TypeOK /\ OrderKept /\ Crashes => OrderKept'
  <1> SUFFICES ASSUME TypeOK, OrderKept, Crashes PROVE Forward
    BY ForwardOrder, TypeParts
  <1>0. BoardOK BY TypeParts
  <1>1. CASE Crash BY <1>1, StillForward DEF Crash
  <1>2. ASSUME NEW i \in Items, NEW a \in Agents, NEW m \in Modes, NEW s \in Runs, NEW k \in 1..4,
               CrashDelegating(i, a, m, s, k)
        PROVE  Forward
    <2>1. k < 5 /\ Delegated(i, a, m, s, k, Reclaimed, lost \cup Dropped, "tick")
      BY <1>2 DEF CrashDelegating
    <2> QED BY <2>1 DEF Delegated, Forward, Finished, Started, Working
  <1> QED BY <1>1, <1>2 DEF Crashes

\* What a tick started, and what is done, keeps its dependencies behind it.
THEOREM OrderIsKept == Spec => []OrderKept
  <1>1. Init => OrderKept BY DEF Init, OrderKept, Working
  <1>2. TypeOK /\ OrderKept /\ [Next]_vars => OrderKept'
    <2>1. OrderKept /\ UNCHANGED vars => OrderKept'
      BY DEF vars, OrderKept, Resolved, Working
    <2> QED BY <2>1, TickOrder, ExecutionOrder, OperatorOrder, CrashOrder DEF Next
  <1> QED BY <1>1, <1>2, TypeCorrect, PTL DEF Spec

-----------------------------------------------------------------------------
\* The table of transitions.  Every writer goes through transitionBacklogItem,
\* which throws at a move that is not in the table.  Backlog has this exception
\* where it can occur (MayMove); where it has none, at reconciliations, blocks
\* and delegations of an item read before, the move is always in the table.

\* Item i keeps its state, takes an edge of the table, or is deleted.
Follows(i) == \/ state'[i] = state[i]
              \/ MayMove(i, state'[i])
              \/ state[i] # "gone" /\ state'[i] = "gone"

\* Nobody moves an item against allowedBacklogTransitions, nothing is done
\* before its dependencies, nothing finished is opened again, and a deleted
\* item does not come back, with two ticks, operators and crashes in between.
TableIsFollowed == [][\A i \in Items : Follows(i)]_vars

LEMMA StillFollows ==
  ASSUME UNCHANGED state
  PROVE  \A i \in Items : Follows(i)
  BY DEF Follows

LEMMA MovedFollows ==
  ASSUME BoardOK, NEW i \in Items, NEW to, MayMove(i, to), state' = [state EXCEPT ![i] = to]
  PROVE  \A j \in Items : Follows(j)
  BY DEF Follows, BoardOK

LEMMA ReachAllows == \A i \in Items : Reach(i) = 5 => state[i] = "in_progress" \/ MayMove(i, "in_progress")
  BY DEF Reach

LEMMA DelegatedFollows ==
  ASSUME BoardOK, NEW i \in Items, NEW a, NEW m, NEW s, NEW k \in 1..5,
         NEW items, NEW gone, NEW how,
         Delegated(i, a, m, s, k, items, gone, how),
         k = 5 => Reach(i) = 5
  PROVE  \A j \in Items : Follows(j)
  <1>1. CASE k < 5 BY <1>1, StillFollows DEF Delegated
  <1>2. CASE k = 5
    <2>1. state' = [state EXCEPT ![i] = "in_progress"] BY <1>2 DEF Delegated
    <2>2. CASE state[i] = "in_progress"
      <3>1. \A j \in Items : state'[j] = state[j] BY <2>1, <2>2 DEF BoardOK
      <3> QED BY <3>1 DEF Follows
    <2>3. CASE MayMove(i, "in_progress") BY <2>1, <2>3, MovedFollows
    <2> QED BY <1>2, <2>2, <2>3, ReachAllows
  <1> QED BY <1>1, <1>2

LEMMA ReconciledFollows ==
  ASSUME BoardOK, NEW i \in Items, NEW how, Reconciled(i, how)
  PROVE  \A j \in Items : Follows(j)
  <1>1. CASE UNCHANGED state BY <1>1, StillFollows
  <1>2. CASE state[i] \in {"planned", "blocked"} /\ state' = [state EXCEPT ![i] = "in_progress"]
    <2>1. MayMove(i, "in_progress") BY <1>2 DEF MayMove, Allowed
    <2> QED BY <1>2, <2>1, MovedFollows
  <1> QED BY <1>1, <1>2 DEF Reconciled

LEMMA TickFollows == TypeOK /\ (\E c \in Callers : Tick(c)) => \A i \in Items : Follows(i)
  <1> SUFFICES ASSUME TypeOK, NEW c \in Callers, Tick(c) PROVE \A i \in Items : Follows(i)
    OBVIOUS
  <1>0. BoardOK BY TypeParts
  <1>1. CASE TickReads(c) \/ TickGoesOn(c) \/ TickEnds(c) \/ TickRejected(c)
    BY <1>1, StillFollows DEF TickReads, TickGoesOn, TickEnds, TickRejected, board
  <1>2. ASSUME NEW i \in Items, SkipCandidate(c, i) PROVE \A j \in Items : Follows(j)
    <2>1. CASE UNCHANGED state BY <2>1, StillFollows
    <2>2. CASE state[i] = "planned" /\ state' = [state EXCEPT ![i] = "blocked"]
      <3>1. MayMove(i, "blocked") BY <2>2 DEF MayMove, Allowed
      <3> QED BY <1>0, <2>2, <3>1, MovedFollows
    <2> QED BY <1>2, <2>1, <2>2 DEF SkipCandidate, board
  <1>3. ASSUME NEW i \in Items, ReconcileCandidate(c, i) PROVE \A j \in Items : Follows(j)
    BY <1>0, <1>3, StillFollows, ReconciledFollows DEF ReconcileCandidate, board
  <1>4. ASSUME NEW i \in Items, NEW s \in Runs, DelegateCandidate(c, i, s)
        PROVE  \A j \in Items : Follows(j)
    <2>1. Reach(i) \in 1..5 BY <1>0, ReachBelow
    <2> QED BY <1>0, <1>4, <2>1, DelegatedFollows DEF DelegateCandidate
  <1> QED BY <1>1, <1>2, <1>3, <1>4 DEF Tick

LEMMA ExecutionFollows ==
  TypeOK /\ (\E r \in Runs : Execution(r)) => \A i \in Items : Follows(i)
  <1> SUFFICES ASSUME TypeOK, NEW r \in Runs, Execution(r) PROVE \A i \in Items : Follows(i)
    OBVIOUS
  <1>0. BoardOK /\ ExecutionsOK BY TypeParts
  <1>1. ASSUME NEW v \in {"review", "blocked"}, ReportRun(r, v) PROVE \A i \in Items : Follows(i)
    <2>1. Attributed(r) \subseteq Items BY <1>0 DEF Attributed, ExecutionsOK
    <2>2. \/ UNCHANGED state
          \/ \E i \in Items : MayMove(i, v) /\ state' = [state EXCEPT ![i] = v]
      BY <1>1, <2>1 DEF ReportRun
    <2> QED BY <1>0, <2>2, StillFollows, MovedFollows
  <1>2. CASE UNCHANGED board BY <1>2, StillFollows DEF board
  <1> QED
    BY <1>1, <1>2 DEF Execution, StartRun, SkipRun, BeginRun, EndRun, ThrowRun, WaitRun,
                      ResumeRun, AbortRun

LEMMA OperatorFollows == TypeOK /\ Operators => \A i \in Items : Follows(i)
  <1> SUFFICES ASSUME TypeOK, Operators PROVE \A i \in Items : Follows(i)
    OBVIOUS
  <1>0. BoardOK BY TypeParts
  <1>1. ASSUME NEW i \in Items, NEW to \in States, MoveItem(i, to) PROVE \A j \in Items : Follows(j)
    BY <1>0, <1>1, MovedFollows DEF MoveItem
  <1>2. ASSUME NEW D \in SUBSET Items, DeleteItems(D) PROVE \A i \in Items : Follows(i)
    BY <1>2 DEF DeleteItems, Follows, Present
  <1>3. ASSUME NEW i \in Items, NEW D \in SUBSET Items, SetDependencies(i, D)
        PROVE  \A j \in Items : Follows(j)
    BY <1>3, StillFollows DEF SetDependencies
  <1>4. ASSUME NEW i \in Items, ForceAsked(i) \/ ForceRefused(i) PROVE \A j \in Items : Follows(j)
    BY <1>0, <1>4, StillFollows, ReconciledFollows DEF ForceAsked, ForceRefused, board
  <1>5. ASSUME NEW i \in Items, NEW a \in Agents, NEW s \in Runs, ForceDelegated(i, a, s)
        PROVE  \A j \in Items : Follows(j)
    <2>1. Reach(i) \in 1..5 BY <1>0, ReachBelow
    <2> QED BY <1>0, <1>5, <2>1, DelegatedFollows DEF ForceDelegated
  <1>6. CASE SwitchOrchestration BY <1>6, StillFollows DEF SwitchOrchestration, board
  <1> QED BY <1>1, <1>2, <1>3, <1>4, <1>5, <1>6 DEF Operators

LEMMA CrashFollows == Crashes => \A i \in Items : Follows(i)
  <1> SUFFICES ASSUME Crashes PROVE \A i \in Items : Follows(i)
    OBVIOUS
  <1>1. UNCHANGED state BY DEF Crashes, Crash, CrashDelegating, Delegated, board
  <1> QED BY <1>1, StillFollows

\* Every change of an item's state is an edge of the table or its deletion.
THEOREM TransitionsFollowTheTable == Spec => TableIsFollowed
  <1>1. TypeOK /\ [Next]_vars => [\A i \in Items : Follows(i)]_vars
    BY TickFollows, ExecutionFollows, OperatorFollows, CrashFollows DEF Next
  <1> QED BY <1>1, TypeCorrect, PTL DEF Spec, TableIsFollowed

=============================================================================
