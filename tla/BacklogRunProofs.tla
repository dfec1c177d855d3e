--------------------------- MODULE BacklogRunProofs ---------------------------
(***************************************************************************)
(* Proofs about the runs Backlog delegates, for any items, agents, limits  *)
(* and bounds: that an item has one active run, that a run's end is filed  *)
(* under the item it was queued for, although the session that tells the   *)
(* item goes on to others, and that no item stays in progress without a    *)
(* run whose end will be reported, each up to the causes it names; and that *)
(* the runs use the queue only as it promises.                             *)
(***************************************************************************)
EXTENDS BacklogProofs

USE BacklogAssumption

-----------------------------------------------------------------------------
(* The induction.  A session names the item of its active run unless it is *)
(* Shared or the run came back (Named); from this, what an execution read  *)
(* at its start and what the items are linked to is right as well.         *)

Excused(r) == Shared(sess[r]) \/ r \in revived

\* Runs that were not created yet left no trace; those that were have a
\* session, opened by a run before them or by themselves.
Fresh ==
  /\ \A r \in Runs : r > created =>
       status[r] = "none" /\ item[r] = "none" /\ at[r] = "idle" /\ filed[r] = {}
  /\ \A r \in 1..created :
       status[r] # "none" /\ sess[r] \in 1..created /\ sess[sess[r]] = sess[r]

Named == \A r \in 1..created : status[r] \in Active => names[sess[r]] = forItem[r] \/ Excused(r)

\* A run another one of its item was queued after is over, or excused.
Alone ==
  \A r, q \in 1..created :
    r < q /\ forItem[r] = forItem[q] /\ status[r] \in Active => Excused(r)

Known == \A r \in 1..created : at[r] # "idle" => attr[r] = forItem[r] \/ Excused(r)

Linked ==
  \A i \in Items : link[i] # 0 =>
    link[i] \in 1..created /\ (forItem[link[i]] = i \/ Excused(link[i]))

Filed == \A r \in 1..created : filed[r] \subseteq {forItem[r]} \/ Excused(r)

Faithful == Fresh /\ Named /\ Alone /\ Known /\ Linked /\ Filed

\* What a step without a delegation may do to the runs.
Calm ==
  /\ UNCHANGED queued /\ revived \subseteq revived'
  /\ \A r \in Runs : status'[r] \in Active => status[r] \in Active \/ r \in revived' \/ status[r] = "none"
  /\ \A r \in Runs : status[r] # "none" => status'[r] # "none"
  /\ \A r \in Runs : status[r] = "none" /\ item[r] = "none" /\ at[r] = "idle" =>
       status'[r] = "none" /\ item'[r] = "none" /\ at'[r] = "idle" /\ filed'[r] = filed[r]
  /\ \A r \in Runs : at'[r] # "idle" =>
       \/ at[r] # "idle" /\ attr'[r] = attr[r]
       \/ status[r] \in Active /\ attr'[r] = names[sess[r]]
  /\ \A i \in Items : link'[i] \in {link[i], 0} \cup ActiveFor(i)
  /\ \A r \in Runs : filed'[r] = filed[r] \/ (at[r] # "idle" /\ filed'[r] \subseteq filed[r] \cup Attributed(r))

LEMMA RunsAre ==
  ASSUME DelegationsOK
  PROVE  created \in Nat /\ 1..created \subseteq Runs /\ created <= MaxRuns
  BY DEF DelegationsOK, Runs

LEMMA CalmFaithful ==
  ASSUME TypeOK, Faithful, Calm
  PROVE  Faithful'
  <1>0. BoardOK /\ DelegationsOK /\ ExecutionsOK /\ 1..created \subseteq Runs BY TypeParts, RunsAre
  <1>1. created' = created /\ sess' = sess /\ forItem' = forItem /\ names' = names
        /\ agent' = agent /\ twins' = twins
    BY DEF Calm, queued
  <1>2. \A r \in Runs : Excused(r) => Excused(r)' BY <1>1 DEF Excused, Shared, Calm
  <1>3. Fresh' BY <1>0, <1>1 DEF Faithful, Fresh, Calm
  <1>4. Named'
    <2> SUFFICES ASSUME NEW r \in 1..created, status'[r] \in Active
                 PROVE  names[sess[r]] = forItem[r] \/ Excused(r)'
      BY <1>1 DEF Named
    <2>1. status[r] # "none" BY DEF Faithful, Fresh
    <2>2. status[r] \in Active \/ r \in revived' BY <1>0, <2>1 DEF Calm
    <2> QED BY <1>0, <1>2, <2>2 DEF Faithful, Named, Excused
  <1>5. Alone'
    <2> SUFFICES ASSUME NEW r \in 1..created, NEW q \in 1..created, r < q,
                        forItem[r] = forItem[q], status'[r] \in Active
                 PROVE  Excused(r)'
      BY <1>1 DEF Alone
    <2>1. status[r] # "none" BY DEF Faithful, Fresh
    <2>2. status[r] \in Active \/ r \in revived' BY <1>0, <2>1 DEF Calm
    <2> QED BY <1>0, <1>2, <2>2 DEF Faithful, Alone, Excused
  <1>6. Known'
    <2> SUFFICES ASSUME NEW r \in 1..created, at'[r] # "idle"
                 PROVE  attr'[r] = forItem[r] \/ Excused(r)'
      BY <1>1 DEF Known
    <2>1. \/ at[r] # "idle" /\ attr'[r] = attr[r]
          \/ status[r] \in Active /\ attr'[r] = names[sess[r]]
      BY <1>0 DEF Calm
    <2> QED BY <1>0, <1>2, <2>1 DEF Faithful, Known, Named
  <1>7. Linked'
    <2> SUFFICES ASSUME NEW i \in Items, NEW r, r = link'[i], r # 0
                 PROVE  r \in 1..created /\ (forItem[r] = i \/ Excused(r)')
      BY <1>1 DEF Linked, Excused
    <2>1. CASE r = link[i] BY <1>0, <1>2, <2>1 DEF Faithful, Linked
    <2>2. CASE r \in ActiveFor(i)
      <3>1. r \in 1..created /\ status[r] \in Active /\ names[sess[r]] = i
        BY <2>2 DEF ActiveFor
      <3> QED BY <1>0, <1>2, <3>1 DEF Faithful, Named
    <2> QED BY <2>1, <2>2 DEF Calm
  <1>8. Filed'
    <2> SUFFICES ASSUME NEW r \in 1..created PROVE filed'[r] \subseteq {forItem[r]} \/ Excused(r)'
      BY <1>1 DEF Filed
    <2>1. filed[r] \subseteq {forItem[r]} \/ Excused(r) BY DEF Faithful, Filed
    <2>2. CASE filed'[r] = filed[r] BY <1>0, <1>2, <2>1, <2>2
    <2>3. CASE at[r] # "idle" /\ filed'[r] \subseteq filed[r] \cup Attributed(r)
      <3>1. attr[r] = forItem[r] \/ Excused(r) BY <2>3 DEF Faithful, Known
      <3>2. \A i \in Items : link[i] = r => forItem[r] = i \/ Excused(r)
        BY <1>0 DEF Faithful, Linked, Runs
      <3>3. Attributed(r) \subseteq {forItem[r]} \/ Excused(r) BY <3>1, <3>2 DEF Attributed
      <3> QED BY <1>0, <1>2, <2>1, <2>3, <3>3
    <2> QED BY <1>0, <2>2, <2>3 DEF Calm
  <1> QED BY <1>3, <1>4, <1>5, <1>6, <1>7, <1>8 DEF Faithful

-----------------------------------------------------------------------------
(* Steps without a delegation are calm.                                    *)

LEMMA StillCalm ==
  UNCHANGED <<queued, link, status, item, at, attr, filed, revived>> => Calm
  BY DEF Calm

LEMMA ReconciledCalm ==
  ASSUME BoardOK, NEW i \in Items, NEW how, Reconciled(i, how),
         UNCHANGED <<queued, status, item, at, attr, filed, revived>>
  PROVE  Calm
  <1>1. PICK r \in Newest(ActiveFor(i)) : link' = [link EXCEPT ![i] = r] BY DEF Reconciled
  <1>2. r \in ActiveFor(i) BY DEF Newest
  <1>3. \A j \in Items : link'[j] \in {link[j], 0} \cup ActiveFor(j) BY <1>1, <1>2 DEF BoardOK
  <1> QED BY <1>3 DEF Calm

LEMMA ExecutionCalm ==
  ASSUME TypeOK, NEW r \in Runs, Execution(r)
  PROVE  Calm
  <1>0. RunsOK /\ ExecutionsOK BY TypeParts
  <1> USE DEF RunsOK, ExecutionsOK, Calm, board
  <1>1. CASE StartRun(r) BY <1>0, <1>1 DEF StartRun, Active
  <1>2. CASE SkipRun(r) BY <1>0, <1>2 DEF SkipRun
  <1>3. CASE BeginRun(r) BY <1>0, <1>3 DEF BeginRun, Active
  <1>4. CASE EndRun(r) BY <1>0, <1>4 DEF EndRun, Active
  <1>5. ASSUME NEW v \in {"review", "blocked"}, ReportRun(r, v) PROVE Calm
    <2>1. \A q \in Runs : filed'[q] = filed[q]
            \/ (at[q] # "idle" /\ filed'[q] \subseteq filed[q] \cup Attributed(q))
      BY <1>0, <1>5 DEF ReportRun
    <2>2. \A q \in Runs : status[q] = "none" /\ item[q] = "none" /\ at[q] = "idle" =>
            status'[q] = "none" /\ item'[q] = "none" /\ at'[q] = "idle" /\ filed'[q] = filed[q]
      BY <1>0, <1>5 DEF ReportRun, Left
    <2> QED BY <1>0, <1>5, <2>1, <2>2 DEF ReportRun, Left
  <1>6. CASE ThrowRun(r) BY <1>0, <1>6 DEF ThrowRun, Left, Active
  <1>7. CASE WaitRun(r) BY <1>0, <1>7 DEF WaitRun, Left, Active
  <1>8. CASE ResumeRun(r) BY <1>0, <1>8 DEF ResumeRun, Active
  <1>9. CASE AbortRun(r) BY <1>0, <1>9 DEF AbortRun, Active
  <1> QED BY <1>1, <1>2, <1>3, <1>4, <1>5, <1>6, <1>7, <1>8, <1>9 DEF Execution

LEMMA CrashCalm ==
  ASSUME TypeOK, Crash
  PROVE  Calm
  <1>0. RunsOK /\ ExecutionsOK BY TypeParts
  <1> QED BY <1>0 DEF Crash, Restarted, Reclaimed, Calm, RunsOK, ExecutionsOK, board

-----------------------------------------------------------------------------
(* A delegation.  The session it takes is new, or no run of it is active,  *)
(* or it is shared.                                                        *)

Delegates(i, a, m, s, k, items, gone, how) ==
  /\ MayDelegate(i) /\ s \in SessionsFor(a, m)
  /\ Delegated(i, a, m, s, k, items, gone, how)
  /\ \A r \in Runs : item[r] = "none" => items[r] = "none"
  /\ \A r \in Runs : at'[r] # "idle" => at'[r] = at[r]
  /\ UNCHANGED <<attr, filed, revived>>

LEMMA SessionTaken ==
  ASSUME TypeOK, Faithful, NEW i \in Items, NEW a \in Agents, NEW m \in Modes, NEW s \in Runs,
         NEW k \in 1..5, NEW items, NEW gone, NEW how, Delegates(i, a, m, s, k, items, gone, how)
  PROVE  \/ s = created + 1
         \/ /\ s \in 1..created /\ sess[s] = s
            /\ \A r \in 1..created : sess[r] = s /\ status[r] \in Active => Shared(s) \/ s \in twins'
  <1>0. DelegationsOK /\ created \in Nat /\ 1..created \subseteq Runs BY TypeParts, RunsAre
  <1>1. SUFFICES ASSUME s # created + 1
                 PROVE  /\ s \in 1..created /\ sess[s] = s
                        /\ \A r \in 1..created : sess[r] = s /\ status[r] \in Active =>
                             Shared(s) \/ s \in twins'
    OBVIOUS
  <1>2. s \in SessionsFor(a, m) BY DEF Delegates
  <1>3. s \in Opened(a, m) BY <1>1, <1>2 DEF SessionsFor
  <1>4. s \in 1..created /\ sess[s] = s /\ agent[s] = a /\ s <= created
    BY <1>0, <1>3 DEF Opened
  <1>5. CASE IsBase(s)
    <2>1. s \in {b \in Opened(a, m) : IsBase(b)} BY <1>3, <1>5
    <2>2. a \in Spawning => ~Busy(s) BY <1>1, <1>2, <2>1 DEF SessionsFor
    <2> QED BY <1>4, <2>2 DEF Busy, Shared
  <1>6. CASE ~IsBase(s)
    <2>1. s \in twins' BY <1>4, <1>6 DEF Delegates, Delegated
    <2> QED BY <1>4, <2>1
  <1> QED BY <1>5, <1>6

LEMMA DelegatedFaithful ==
  ASSUME TypeOK, Faithful, NEW i \in Items, NEW a \in Agents, NEW m \in Modes, NEW s \in Runs,
         NEW k \in 1..5, NEW items \in [Runs -> {"none", "queued", "taken", "done"}], NEW gone,
         NEW how, Delegates(i, a, m, s, k, items, gone, how)
  PROVE  Faithful'
  <1> DEFINE n == created + 1
  <1>0. /\ BoardOK /\ DelegationsOK /\ RunsOK /\ ExecutionsOK
        /\ created \in Nat /\ 1..created \subseteq Runs /\ n \in Runs /\ created \notin {n}
    BY TypeParts, RunsAre DEF Delegates, MayDelegate, Room, Runs
  <1>t. Delegated(i, a, m, s, k, items, gone, how) /\ UNCHANGED <<attr, filed, revived>>
    BY DEF Delegates
  \* Of the runs that are there, nothing changes but what the session names.
  <1>1. \A r \in 1..created : /\ r \in Runs /\ r # n
                             /\ agent'[r] = agent[r] /\ sess'[r] = sess[r]
                             /\ forItem'[r] = forItem[r] /\ status'[r] = status[r]
    BY <1>0, <1>t DEF Delegated, DelegationsOK, RunsOK
  <1>2. twins \subseteq twins' BY <1>t DEF Delegated
  <1>3. \A r \in 1..created : sess[r] \in 1..created BY DEF Faithful, Fresh
  <1>4. \A r \in 1..created : Excused(r) => Excused(r)'
    BY <1>t, <1>1, <1>2, <1>3 DEF Excused, Shared
  \* An active run of the session is excused, so the others keep their names.
  <1>5. ASSUME NEW r \in 1..created, status[r] \in Active
        PROVE  names'[sess[r]] = names[sess[r]] \/ Excused(r)'
    <2>1. CASE sess[r] # s BY <1>0, <1>3, <1>t, <2>1 DEF Delegated, DelegationsOK
    <2>2. CASE sess[r] = s
      <3>1. s # created + 1 BY <1>0, <1>3, <2>2
      <3>2. Shared(s) \/ s \in twins' BY <1>5, <2>2, <3>1, SessionTaken
      <3> QED BY <1>1, <1>2, <1>3, <2>2, <3>2 DEF Excused, Shared
    <2> QED BY <2>1, <2>2
  <1>6. created' \in {created, n} /\ (created' = n <=> k >= 2) BY <1>0, <1>t DEF Delegated
  <1>7. ASSUME k >= 2
        PROVE  /\ sess'[n] = s /\ forItem'[n] = i /\ names'[s] = i /\ status'[n] = "queued"
               /\ at'[n] = "idle" /\ filed'[n] = {}
    <2>1. status[n] = "none" /\ at[n] = "idle" /\ filed[n] = {} BY <1>0 DEF Faithful, Fresh
    <2> QED BY <1>0, <1>t, <1>7, <2>1 DEF Delegates, Delegated, DelegationsOK, RunsOK
  <1>8. 1..created' = IF k >= 2 THEN (1..created) \cup {n} ELSE 1..created
    <2>1. CASE k >= 2
      <3>1. created' = created + 1 BY <1>6, <2>1
      <3>2. 1..(created + 1) = (1..created) \cup {created + 1} BY <1>0
      <3> QED BY <2>1, <3>1, <3>2
    <2>2. CASE ~(k >= 2)
      <3>1. created' = created BY <1>6, <2>2
      <3> QED BY <2>2, <3>1
    <2> QED BY <2>1, <2>2
  <1>9. Fresh'
    <2>1. ASSUME NEW r \in Runs, r > created'
          PROVE  status'[r] = "none" /\ item'[r] = "none" /\ at'[r] = "idle" /\ filed'[r] = {}
      <3>0. r > created /\ (k >= 2 => r # n) BY <1>0, <1>6, <2>1 DEF Runs
      <3>1. status[r] = "none" /\ item[r] = "none" /\ at[r] = "idle" /\ filed[r] = {}
        BY <3>0 DEF Faithful, Fresh
      <3>2. status'[r] = status[r] BY <1>0, <1>t, <3>0 DEF Delegated, RunsOK
      <3>3. item'[r] = items[r]
        BY <1>0, <1>t, <3>0 DEF Delegated
      <3> QED BY <1>t, <3>1, <3>2, <3>3 DEF Delegates
    <2>2. ASSUME NEW r \in 1..created'
          PROVE  status'[r] # "none" /\ sess'[r] \in 1..created' /\ sess'[sess'[r]] = sess'[r]
      <3>1. CASE r \in 1..created
        <4>1. status[r] # "none" /\ sess[r] \in 1..created /\ sess[sess[r]] = sess[r]
          BY <3>1 DEF Faithful, Fresh
        <4> QED BY <1>1, <1>8, <3>1, <4>1
      <3>2. CASE r \notin 1..created
        <4>1. r = n /\ k >= 2 BY <1>8, <2>2, <3>2
        <4>2. CASE s = n BY <1>7, <1>8, <4>1, <4>2
        <4>3. CASE s \in 1..created /\ sess[s] = s BY <1>1, <1>7, <1>8, <4>1, <4>3
        <4> QED BY <4>2, <4>3, SessionTaken
      <3> QED BY <3>1, <3>2
    <2> QED BY <2>1, <2>2 DEF Fresh
  <1>10. Named'
    <2> SUFFICES ASSUME NEW r \in 1..created', status'[r] \in Active
                 PROVE  names'[sess'[r]] = forItem'[r] \/ Excused(r)'
      BY DEF Named
    <2>1. CASE r \in 1..created BY <1>1, <1>4, <1>5, <2>1 DEF Faithful, Named
    <2>2. CASE r \notin 1..created BY <1>7, <1>8, <2>2
    <2> QED BY <2>1, <2>2
  <1>11. Alone'
    <2> SUFFICES ASSUME NEW r \in 1..created', NEW q \in 1..created', r < q,
                        forItem'[r] = forItem'[q], status'[r] \in Active
                 PROVE  Excused(r)'
      BY DEF Alone
    <2>1. r \in 1..created
      <3>1. r \in (1..created) \cup {n} /\ q \in (1..created) \cup {n} BY <1>8
      <3> QED BY <1>0, <3>1
    <2>2. CASE q \in 1..created BY <1>1, <1>4, <2>1, <2>2 DEF Faithful, Alone
    <2>3. CASE q \notin 1..created
      <3>1. forItem[r] = i /\ status[r] \in Active BY <1>1, <1>7, <1>8, <2>1, <2>3
      <3>2. names[sess[r]] # i BY <2>1, <3>1 DEF Delegates, MayDelegate, ActiveFor
      <3> QED BY <1>4, <2>1, <3>1, <3>2 DEF Faithful, Named
    <2> QED BY <2>2, <2>3
  <1>12. Known'
    <2> SUFFICES ASSUME NEW r \in 1..created', at'[r] # "idle"
                 PROVE  attr'[r] = forItem'[r] \/ Excused(r)'
      BY DEF Known
    <2>1. r \in 1..created BY <1>7, <1>8
    <2>2. at[r] # "idle" BY <1>1, <2>1 DEF Delegates
    <2> QED BY <1>1, <1>4, <1>t, <2>1, <2>2 DEF Faithful, Known
  <1>13. Linked'
    <2> SUFFICES ASSUME NEW j \in Items, NEW r, r = link'[j], r # 0
                 PROVE  r \in 1..created' /\ (forItem'[r] = j \/ Excused(r)')
      BY DEF Linked, Excused
    <2>1. CASE r = link[j] BY <1>1, <1>4, <1>8, <2>1 DEF Faithful, Linked
    <2>2. CASE r # link[j]
      <3>1. k >= 4 /\ j = i /\ r = n BY <1>0, <1>t, <2>2 DEF Delegated, BoardOK
      <3>2. k >= 2 BY <3>1
      <3>3. r \in 1..created' BY <1>8, <3>1, <3>2
      <3>4. forItem'[r] = j BY <1>7, <3>1, <3>2
      <3> QED BY <3>3, <3>4
    <2> QED BY <2>1, <2>2
  <1>14. Filed'
    <2> SUFFICES ASSUME NEW r \in 1..created' PROVE filed'[r] \subseteq {forItem'[r]} \/ Excused(r)'
      BY DEF Filed
    <2>1. CASE r \in 1..created BY <1>1, <1>4, <1>t, <2>1 DEF Faithful, Filed
    <2>2. CASE r \notin 1..created BY <1>7, <1>8, <2>2
    <2> QED BY <2>1, <2>2
  <1> QED BY <1>9, <1>10, <1>11, <1>12, <1>13, <1>14 DEF Faithful

-----------------------------------------------------------------------------
(* Every step is calm or delegates.                                        *)

CalmOrDelegates ==
  \/ Calm
  \/ \E i \in Items, a \in Agents, m \in Modes, s \in Runs, k \in 1..5, how \in {"tick", "override"} :
       \/ Delegates(i, a, m, s, k, item, lost, how)
       \/ Delegates(i, a, m, s, k, Reclaimed, lost \cup Dropped, how)

LEMMA TickRuns == TypeOK /\ (\E c \in Callers : Tick(c)) => CalmOrDelegates
  <1> SUFFICES ASSUME TypeOK, NEW c \in Callers, Tick(c) PROVE CalmOrDelegates
    OBVIOUS
  <1>0. BoardOK BY TypeParts
  <1>1. CASE TickReads(c) \/ TickGoesOn(c) \/ TickEnds(c) \/ TickRejected(c)
    <2>1. Calm BY <1>1, StillCalm DEF TickReads, TickGoesOn, TickEnds, TickRejected, board, runs
    <2> QED BY <2>1 DEF CalmOrDelegates
  <1>2. ASSUME NEW i \in Items, SkipCandidate(c, i) PROVE Calm
    BY <1>2, StillCalm DEF SkipCandidate, board, runs
  <1>3. ASSUME NEW i \in Items, ReconcileCandidate(c, i) PROVE Calm
    BY <1>0, <1>3, StillCalm, ReconciledCalm DEF ReconcileCandidate, board, runs
  <1>4. ASSUME NEW i \in Items, NEW s \in Runs, DelegateCandidate(c, i, s)
        PROVE  Delegates(i, Target[i], "dispatch", s, Reach(i), item, lost, "tick")
    BY <1>4 DEF DelegateCandidate, Delegates
  <1>5. ASSUME NEW i \in Items, NEW s \in Runs, DelegateCandidate(c, i, s) PROVE CalmOrDelegates
    <2>1. Reach(i) \in 1..5 /\ Target[i] \in Agents /\ "dispatch" \in Modes
      BY <1>0, ReachBelow DEF Modes
    <2> QED BY <1>4, <1>5, <2>1 DEF CalmOrDelegates
  <1> QED BY <1>1, <1>2, <1>3, <1>5 DEF Tick, CalmOrDelegates

LEMMA OperatorRuns == TypeOK /\ Operators => CalmOrDelegates
  <1> SUFFICES ASSUME TypeOK, Operators PROVE CalmOrDelegates
    OBVIOUS
  <1>0. BoardOK BY TypeParts
  <1> USE DEF runs, board
  <1>1. ASSUME NEW i \in Items, NEW to \in States, MoveItem(i, to) PROVE Calm
    BY <1>1, StillCalm DEF MoveItem
  <1>2. ASSUME NEW D \in SUBSET Items, DeleteItems(D) PROVE Calm
    BY <1>0, <1>2 DEF DeleteItems, Calm
  <1>3. ASSUME NEW i \in Items, NEW D \in SUBSET Items, SetDependencies(i, D) PROVE Calm
    BY <1>3, StillCalm DEF SetDependencies
  <1>4. CASE SwitchOrchestration BY <1>4, StillCalm DEF SwitchOrchestration, CalmOrDelegates
  <1>5. ASSUME NEW i \in Items, ForceAsked(i) PROVE Calm
    BY <1>5, StillCalm DEF ForceAsked
  <1>6. ASSUME NEW i \in Items, ForceRefused(i) PROVE Calm
    BY <1>0, <1>6, StillCalm, ReconciledCalm DEF ForceRefused
  <1>7. ASSUME NEW i \in Items, NEW a \in Agents, NEW s \in Runs, ForceDelegated(i, a, s)
        PROVE  CalmOrDelegates
    <2>1. Reach(i) \in 1..5 /\ "override" \in Modes BY <1>0, ReachBelow DEF Modes
    <2>2. Delegates(i, a, "override", s, Reach(i), item, lost, "override")
      BY <1>7 DEF ForceDelegated, Delegates
    <2> QED BY <2>1, <2>2 DEF CalmOrDelegates
  <1> QED BY <1>1, <1>2, <1>3, <1>4, <1>5, <1>6, <1>7 DEF Operators, CalmOrDelegates

LEMMA CrashRuns == TypeOK /\ Crashes => CalmOrDelegates
  <1> SUFFICES ASSUME TypeOK, Crashes PROVE CalmOrDelegates
    OBVIOUS
  <1>1. CASE Crash BY <1>1, CrashCalm DEF CalmOrDelegates
  <1>2. ASSUME NEW i \in Items, NEW a \in Agents, NEW m \in Modes, NEW s \in Runs, NEW k \in 1..4,
               CrashDelegating(i, a, m, s, k)
        PROVE  CalmOrDelegates
    <2>1. /\ MayDelegate(i) /\ s \in SessionsFor(a, m) /\ Restarted
          /\ Delegated(i, a, m, s, k, Reclaimed, lost \cup Dropped, "tick")
          /\ UNCHANGED <<attr, filed, revived>>
      BY <1>2 DEF CrashDelegating
    <2>2. \A r \in Runs : at'[r] = "idle" BY <2>1 DEF Restarted
    <2>3. \A r \in Runs : item[r] = "none" => Reclaimed[r] = "none" BY DEF Reclaimed
    <2>4. Delegates(i, a, m, s, k, Reclaimed, lost \cup Dropped, "tick")
      BY <2>1, <2>2, <2>3 DEF Delegates
    <2>5. k \in 1..5 OBVIOUS
    <2> QED BY <2>4, <2>5 DEF CalmOrDelegates
  <1> QED BY <1>1, <1>2 DEF Crashes

LEMMA NextFaithful == TypeOK /\ Faithful /\ [Next]_vars => Faithful'
  <1> SUFFICES ASSUME TypeOK, Faithful, [Next]_vars PROVE Faithful'
    OBVIOUS
  <1>0. item \in [Runs -> {"none", "queued", "taken", "done"}]
        /\ Reclaimed \in [Runs -> {"none", "queued", "taken", "done"}]
    BY TypeParts DEF RunsOK, Reclaimed
  <1>1. CASE CalmOrDelegates
    BY <1>0, <1>1, CalmFaithful, DelegatedFaithful DEF CalmOrDelegates
  <1>2. CASE UNCHANGED vars
    <2>1. Calm BY <1>2, StillCalm DEF vars, queued
    <2> QED BY <2>1, CalmFaithful
  <1>3. ASSUME NEW r \in Runs, Execution(r) PROVE CalmOrDelegates
    BY <1>3, ExecutionCalm DEF CalmOrDelegates
  <1> QED BY <1>1, <1>2, <1>3, TickRuns, OperatorRuns, CrashRuns DEF Next

LEMMA FaithfulAlways == Spec => []Faithful
  <1>1. Init => Faithful
    BY DEF Init, Faithful, Fresh, Named, Alone, Known, Linked, Filed
  <1> QED BY <1>1, NextFaithful, TypeCorrect, PTL DEF Spec

\* Requeueing, overriding, overlapping ticks and crashes give no item a second
\* run beside an active one, unless the session of the first went on to another
\* item or it was aborted and came back.
THEOREM OneRunAtATime == Spec => []OneRunPerItem
  <1>1. Faithful => OneRunPerItem
    BY DEF Faithful, Alone, Excused, OneRunPerItem
  <1> QED BY <1>1, FaithfulAlways, PTL

\* The end of a run is filed under the item the run was queued for, unless its
\* session went on to another item while the run was active.
THEOREM EndsAreFiledRight == Spec => []EndIsFiledRight
  <1>1. Faithful => EndIsFiledRight
    BY DEF Faithful, Filed, Excused, EndIsFiledRight
  <1> QED BY <1>1, FaithfulAlways, PTL

-----------------------------------------------------------------------------
(* Nobody waits for an end that is not reported.  A run that is active is  *)
(* served, or lost; an item in progress is linked to one of these, or to a *)
(* run whose end was filed under another item.                             *)

Cared(r, i) == Served(r) \/ r \in lost \/ filed[r] \ {i} # {}

Accounted(r) ==
  /\ at[r] = "reporting" => status[r] = "ended"
  /\ at[r] # "idle" => item[r] \in {"taken", "done"}
  /\ status[r] = "waiting" => item[r] = "done"
  /\ item[r] = "taken" => at[r] # "idle"
  /\ r <= created /\ item[r] = "none" => r \in lost
  /\ r <= created /\ status[r] \in Active => Served(r) \/ r \in lost

Moving ==
  \A i \in Items :
    state[i] = "in_progress" /\ by[i] \in {"tick", "override"} =>
      link[i] \in 1..created /\ Cared(link[i], i)

Cares == (\A r \in Runs : Accounted(r)) /\ Moving

\* What happens to the runs, apart from the items.
Keeps(i) == \A r \in 1..created : Cared(r, i) => Cared(r, i)'

LEMMA UntouchedCares ==
  UNCHANGED <<created, status, item, at, lost, filed>> =>
    /\ \A r \in Runs : Accounted(r) => Accounted(r)'
    /\ \A i \in Items : Keeps(i)
  BY DEF Accounted, Served, Cared, Keeps

\* What puts an item in progress, or links it, leaves it with an active run.
LEMMA MovingKept ==
  ASSUME BoardOK, DelegationsOK, \A r \in Runs : Accounted(r), Moving,
         NEW i \in Items, Keeps(i), UNCHANGED created,
         state'[i] = "in_progress" /\ by'[i] \in {"tick", "override"} =>
           state[i] = "in_progress" /\ by[i] \in {"tick", "override"},
         \/ link'[i] = link[i]
         \/ link'[i] \in ActiveFor(i),
         state'[i] = "in_progress", by'[i] \in {"tick", "override"}
  PROVE  link'[i] \in 1..created /\ \A r \in 1..created : r = link'[i] => Cared(r, i)'
  <1>0. 1..created \subseteq Runs /\ created \in Nat BY RunsAre
  <1>1. CASE link'[i] = link[i] BY <1>1 DEF Moving, Keeps
  <1>2. CASE link'[i] \in ActiveFor(i)
    <2>1. link'[i] \in 1..created /\ status[link'[i]] \in Active BY <1>2 DEF ActiveFor
    <2>2. Accounted(link'[i]) BY <1>0, <2>1
    <2>3. Cared(link'[i], i) BY <1>0, <2>1, <2>2 DEF Accounted, Cared
    <2> QED BY <2>1, <2>3 DEF Keeps
  <1> QED BY <1>1, <1>2

LEMMA MovingNext ==
  ASSUME UNCHANGED created,
         \A i \in Items : state'[i] = "in_progress" /\ by'[i] \in {"tick", "override"} =>
           link'[i] \in 1..created /\ \A r \in 1..created : r = link'[i] => Cared(r, i)'
  PROVE  Moving'
  <1> SUFFICES ASSUME NEW i \in Items, state'[i] = "in_progress", by'[i] \in {"tick", "override"},
                      NEW r, r = link'[i]
               PROVE  r \in 1..created /\ Cared(r, i)'
    BY DEF Moving, Cared, Served
  <1> QED OBVIOUS

-----------------------------------------------------------------------------
(* Executions.                                                             *)

LEMMA ExecutionAccounted ==
  ASSUME TypeOK, \A q \in Runs : Accounted(q), NEW r \in Runs, Execution(r)
  PROVE  \A q \in Runs : Accounted(q)'
  <1>0. RunsOK /\ ExecutionsOK BY TypeParts
  <1>1. UNCHANGED created
    BY DEF Execution, StartRun, SkipRun, BeginRun, EndRun, ReportRun, ThrowRun, WaitRun, ResumeRun,
           AbortRun, queued
  <1>2. ASSUME NEW q \in Runs, q # r PROVE Accounted(q)'
    <2>1. at'[q] = at[q] /\ item'[q] = item[q] /\ status'[q] = status[q] /\ lost \subseteq lost'
      BY <1>0, <1>2
      DEF Execution, StartRun, SkipRun, BeginRun, EndRun, ReportRun, ThrowRun, WaitRun, ResumeRun,
          AbortRun, Left, RunsOK, ExecutionsOK
    <2>2. Accounted(q) BY <1>2
    <2> QED BY <1>1, <2>1, <2>2 DEF Accounted, Served
  <1>3. Accounted(r)'
    <2>0. Accounted(r) OBVIOUS
    <2> USE DEF RunsOK, ExecutionsOK, Accounted, Served, Active
    <2>1. CASE StartRun(r) BY <1>0, <1>1, <2>0, <2>1 DEF StartRun
    <2>2. CASE SkipRun(r) BY <1>0, <1>1, <2>0, <2>2 DEF SkipRun
    <2>3. CASE BeginRun(r) BY <1>0, <1>1, <2>0, <2>3 DEF BeginRun
    <2>4. CASE EndRun(r) BY <1>0, <1>1, <2>0, <2>4 DEF EndRun
    <2>5. ASSUME NEW v \in {"review", "blocked"}, ReportRun(r, v) PROVE Accounted(r)'
      BY <1>0, <1>1, <2>0, <2>5 DEF ReportRun, Left
    <2>6. CASE ThrowRun(r) BY <1>0, <1>1, <2>0, <2>6 DEF ThrowRun, Left
    <2>7. CASE WaitRun(r) BY <1>0, <1>1, <2>0, <2>7 DEF WaitRun, Left
    <2>8. CASE ResumeRun(r) BY <1>0, <1>1, <2>0, <2>8 DEF ResumeRun
    <2>9. CASE AbortRun(r) BY <1>0, <1>1, <2>0, <2>9 DEF AbortRun
    <2> QED BY <2>1, <2>2, <2>3, <2>4, <2>5, <2>6, <2>7, <2>8, <2>9 DEF Execution
  <1> QED BY <1>2, <1>3

\* Only a report takes the care from an item, and it moves the item.
LEMMA ExecutionKeeps ==
  ASSUME TypeOK, \A q \in Runs : Accounted(q), NEW r \in Runs, Execution(r),
         ~\E v \in {"review", "blocked"} : ReportRun(r, v), NEW i \in Items
  PROVE  Keeps(i)
  <1>0. RunsOK /\ ExecutionsOK /\ DelegationsOK BY TypeParts
  <1>1. SUFFICES ASSUME NEW q \in 1..created, Cared(q, i) PROVE Cared(q, i)'
    BY DEF Keeps
  <1>2. q \in Runs BY <1>0, RunsAre
  <1>3. filed' = filed /\ lost \subseteq lost'
    BY DEF Execution, StartRun, SkipRun, BeginRun, EndRun, ThrowRun, WaitRun, ResumeRun, AbortRun
  <1>4. CASE q # r
    BY <1>0, <1>1, <1>2, <1>3, <1>4
    DEF Execution, StartRun, SkipRun, BeginRun, EndRun, ThrowRun, WaitRun, ResumeRun, AbortRun,
        Left, Cared, Served, RunsOK, ExecutionsOK
  <1>5. CASE q = r
    <2>0. Accounted(r) OBVIOUS
    <2> USE DEF RunsOK, ExecutionsOK, Accounted, Cared, Served, Active
    <2>1. CASE StartRun(r) BY <1>0, <1>3, <1>5, <2>1 DEF StartRun
    <2>2. CASE SkipRun(r) BY <1>0, <1>1, <1>3, <1>5, <2>2 DEF SkipRun
    <2>3. CASE BeginRun(r) BY <1>0, <1>3, <1>5, <2>3 DEF BeginRun
    <2>4. CASE EndRun(r) BY <1>0, <1>3, <1>5, <2>4 DEF EndRun
    <2>5. CASE ThrowRun(r) BY <1>0, <1>3, <1>5, <2>5 DEF ThrowRun, Left
    <2>6. CASE WaitRun(r) BY <1>0, <1>3, <1>5, <2>6 DEF WaitRun, Left
    <2>7. CASE ResumeRun(r) BY <1>0, <1>3, <1>5, <2>7 DEF ResumeRun
    <2>8. CASE AbortRun(r) BY <1>0, <1>1, <1>3, <1>5, <2>0, <2>8 DEF AbortRun
    <2> QED BY <2>1, <2>2, <2>3, <2>4, <2>5, <2>6, <2>7, <2>8 DEF Execution
  <1> QED BY <1>4, <1>5

LEMMA ReportMoving ==
  ASSUME TypeOK, Moving, NEW r \in Runs, NEW v \in {"review", "blocked"}, ReportRun(r, v)
  PROVE  Moving'
  <1>0. BoardOK /\ RunsOK /\ ExecutionsOK /\ DelegationsOK BY TypeParts
  <1>1. UNCHANGED <<created, link, by, status, lost>> BY DEF ReportRun, queued
  <1>a. Attributed(r) \subseteq Items BY <1>0 DEF Attributed, ExecutionsOK
  <1>2. SUFFICES ASSUME NEW i \in Items, state'[i] = "in_progress", by[i] \in {"tick", "override"}
                 PROVE  link[i] \in 1..created /\ \A q \in 1..created : q = link[i] => Cared(q, i)'
    BY <1>1, MovingNext
  <1>3. state[i] = "in_progress"
    BY <1>0, <1>2, <1>a DEF ReportRun, BoardOK
  <1>4. link[i] \in 1..created /\ Cared(link[i], i) BY <1>2, <1>3 DEF Moving
  <1>5. SUFFICES ASSUME NEW q \in 1..created, q = link[i] PROVE Cared(q, i)'
    BY <1>4
  <1>6. CASE q # r
    BY <1>0, <1>1, <1>4, <1>5, <1>6, RunsAre DEF ReportRun, Left, Cared, Served, RunsOK, ExecutionsOK
  <1>7. CASE q = r
    <2>1. Attributed(r) # {} BY <1>5, <1>7 DEF Attributed
    <2>2. PICK j \in Attributed(r) :
            /\ filed' = [filed EXCEPT ![r] = @ \cup {j}]
            /\ state' = IF state[j] \in ReportMoves(v) /\ MayMove(j, v)
                        THEN [state EXCEPT ![j] = v] ELSE state
      BY <2>1 DEF ReportRun
    <2>3. j # i
      <3>1. SUFFICES ASSUME j = i PROVE FALSE
        OBVIOUS
      <3>2. state[i] \in ReportMoves(v) /\ MayMove(i, v)
        BY <1>3 DEF ReportMoves, MayMove, Allowed
      <3> QED BY <1>0, <1>2, <2>2, <3>1, <3>2 DEF BoardOK
    <2>4. j \in filed'[r] BY <1>0, <2>2 DEF ExecutionsOK
    <2> QED BY <1>7, <2>3, <2>4 DEF Cared
  <1> QED BY <1>6, <1>7

LEMMA ExecutionCares ==
  ASSUME TypeOK, Cares, NEW r \in Runs, Execution(r)
  PROVE  Cares'
  <1>1. \A q \in Runs : Accounted(q)' BY ExecutionAccounted DEF Cares
  <1>2. CASE \E v \in {"review", "blocked"} : ReportRun(r, v)
    <2>1. Moving' BY <1>2, ReportMoving DEF Cares
    <2> QED BY <1>1, <2>1 DEF Cares
  <1>3. CASE ~\E v \in {"review", "blocked"} : ReportRun(r, v)
    <2>1. UNCHANGED <<state, link, by, created>>
      BY <1>3 DEF Execution, StartRun, SkipRun, BeginRun, EndRun, ThrowRun, WaitRun, ResumeRun,
                  AbortRun, board, queued
    <2>2. \A i \in Items : Keeps(i) BY <1>3, ExecutionKeeps DEF Cares
    <2>3. Moving' BY <2>1, <2>2, MovingNext DEF Cares, Moving, Keeps
    <2> QED BY <1>1, <2>3 DEF Cares
  <1> QED BY <1>2, <1>3

-----------------------------------------------------------------------------
(* Delegations and crashes.                                                *)

\* What a delegation, a crash or both leave of the runs that were there.
Survives(items, gone) ==
  \/ items = item /\ gone = lost /\ UNCHANGED at
  \/ items = Reclaimed /\ gone = lost \cup Dropped /\ Restarted

LEMMA SurvivesAccounted ==
  ASSUME TypeOK, NEW items, NEW gone, Survives(items, gone), NEW r \in Runs, Accounted(r),
         created' >= r => created >= r, status'[r] = status[r], item'[r] = items[r],
         gone \subseteq lost', UNCHANGED filed
  PROVE  Accounted(r)' /\ \A i \in Items : Cared(r, i) => Cared(r, i)'
  <1>0. RunsOK /\ ExecutionsOK /\ DelegationsOK BY TypeParts
  <1>1. created \in Nat /\ r \in Nat BY <1>0, RunsAre DEF Runs
  <1>2. CASE items = item /\ gone = lost /\ UNCHANGED at
    BY <1>0, <1>1, <1>2 DEF Accounted, Cared, Served, Runs, DelegationsOK
  <1>3. CASE items = Reclaimed /\ gone = lost \cup Dropped /\ Restarted
    <2>1. at'[r] = "idle" BY <1>3 DEF Restarted
    <2>2. item'[r] = IF item[r] = "taken" THEN "queued" ELSE item[r] BY <1>3 DEF Reclaimed
    <2>3. at[r] # "idle" /\ item[r] = "done" => r \in lost' BY <1>3 DEF Dropped
    <2>4. r \in lost => r \in lost' BY <1>3
    <2>5. Accounted(r)'
      BY <1>0, <1>1, <2>1, <2>2, <2>3, <2>4 DEF Accounted, Served, RunsOK, ExecutionsOK
    <2>6. ASSUME NEW i \in Items, Cared(r, i) PROVE Cared(r, i)'
      BY <1>0, <2>1, <2>2, <2>3, <2>4, <2>6 DEF Accounted, Cared, Served, RunsOK, ExecutionsOK
    <2> QED BY <2>5, <2>6
  <1> QED BY <1>2, <1>3 DEF Survives

LEMMA DelegatedCares ==
  ASSUME TypeOK, Faithful, Cares, NEW i \in Items, NEW a, NEW m, NEW s, NEW k \in 1..5,
         NEW items \in [Runs -> {"none", "queued", "taken", "done"}], NEW gone, NEW how,
         Delegates(i, a, m, s, k, items, gone, how), Survives(items, gone)
  PROVE  Cares'
  <1>n. PICK n \in Runs : n = created + 1
    BY TypeParts, RunsAre DEF Delegates, MayDelegate, Room, Runs
  <1>0. /\ BoardOK /\ DelegationsOK /\ RunsOK /\ ExecutionsOK /\ n = created + 1
        /\ created \in Nat /\ 1..created \subseteq Runs
    BY <1>n, TypeParts, RunsAre
  <1>t. Delegated(i, a, m, s, k, items, gone, how) /\ UNCHANGED filed
    BY DEF Delegates
  <1>1. gone \subseteq lost' BY <1>t DEF Delegated
  <1>2. ASSUME NEW r \in Runs, r # n
        PROVE  Accounted(r)' /\ \A j \in Items : Cared(r, j) => Cared(r, j)'
    <2>1. status'[r] = status[r] /\ item'[r] = items[r]
      BY <1>0, <1>t, <1>2 DEF Delegated, RunsOK
    <2>2. created' >= r => created >= r BY <1>0, <1>t, <1>2 DEF Delegated, Runs
    <2>3. Accounted(r) BY DEF Cares
    <2> QED BY <1>1, <1>t, <2>1, <2>2, <2>3, SurvivesAccounted
  <1>3. status[n] = "none" /\ item[n] = "none" /\ at[n] = "idle" BY <1>0 DEF Faithful, Fresh
  <1>4. at'[n] = "idle" /\ items[n] = "none" BY <1>0, <1>3 DEF Delegates
  <1>5. k >= 3 => item'[n] = "queued" BY <1>0, <1>t DEF Delegated
  <1>6. Accounted(n)'
    <2>1. CASE k = 1
      <3>1. status'[n] = "none" /\ item'[n] = "none" BY <1>3, <1>4, <1>t, <2>1 DEF Delegated
      <3>2. created' = created BY <1>t, <2>1 DEF Delegated
      <3> QED BY <1>0, <1>4, <3>1, <3>2 DEF Accounted, Active
    <2>2. CASE k >= 2
      <3>1. status'[n] = "queued" BY <1>0, <1>t, <2>2 DEF Delegated, RunsOK
      <3>2. item'[n] = "queued" \/ (item'[n] = "none" /\ n \in lost')
        <4>1. CASE k = 2 BY <1>0, <1>4, <1>t, <4>1 DEF Delegated
        <4>2. CASE k >= 3 BY <1>5, <4>2
        <4> QED BY <2>2, <4>1, <4>2
      <3> QED BY <1>4, <3>1, <3>2 DEF Accounted, Served, Active
    <2> QED BY <2>1, <2>2
  <1>7. Moving'
    <2> SUFFICES ASSUME NEW j \in Items, state'[j] = "in_progress", by'[j] \in {"tick", "override"},
                        NEW r, r = link'[j]
                 PROVE  r \in 1..created' /\ Cared(r, j)'
      BY DEF Moving, Cared, Served
    <2>1. CASE r = n /\ k >= 4
      <3>1. created' = created + 1 BY <1>t, <2>1 DEF Delegated
      <3>2. item'[n] = "queued" BY <1>5, <2>1
      <3> QED BY <1>0, <2>1, <3>1, <3>2 DEF Cared, Served
    <2>2. CASE ~(r = n /\ k >= 4)
      <3>1. j # i \/ k < 4 BY <1>0, <1>t, <2>2 DEF Delegated, BoardOK
      <3>2. r = link[j] /\ state[j] = "in_progress" /\ by[j] \in {"tick", "override"}
        BY <1>0, <1>t, <3>1 DEF Delegated, BoardOK
      <3>3. r \in 1..created /\ Cared(r, j) BY <3>2 DEF Cares, Moving
      <3>4. r # n /\ r \in Runs BY <1>0, <3>3
      <3>5. r \in 1..created' BY <1>0, <1>t, <3>3 DEF Delegated
      <3> QED BY <1>2, <3>3, <3>4, <3>5
    <2> QED BY <2>1, <2>2
  <1>8. \A r \in Runs : Accounted(r)' BY <1>2, <1>6
  <1> QED BY <1>7, <1>8 DEF Cares

LEMMA CrashCares ==
  ASSUME TypeOK, Cares, Crash
  PROVE  Cares'
  <1>0. DelegationsOK BY TypeParts
  <1>1. /\ Survives(Reclaimed, lost \cup Dropped) /\ item' = Reclaimed
        /\ lost' = lost \cup Dropped /\ UNCHANGED <<status, filed, created, state, link, by>>
    BY DEF Crash, Survives, board, queued
  <1>2. \A r \in Runs : Accounted(r)' /\ \A i \in Items : Cared(r, i) => Cared(r, i)'
    BY <1>1, SurvivesAccounted DEF Cares
  <1>3. \A i \in Items : Keeps(i) BY <1>0, <1>2, RunsAre DEF Keeps
  <1>4. Moving' BY <1>1, <1>3, MovingNext DEF Cares, Moving, Keeps
  <1> QED BY <1>2, <1>4 DEF Cares

-----------------------------------------------------------------------------
(* The other steps leave the runs alone, and the theorem.                  *)

\* They take items out of progress, or link them to active runs.
Steers ==
  /\ UNCHANGED <<created, status, item, at, lost, filed>>
  /\ \A i \in Items :
       state'[i] = "in_progress" /\ by'[i] \in {"tick", "override"} =>
         /\ state[i] = "in_progress" /\ by[i] \in {"tick", "override"}
         /\ link'[i] = link[i] \/ link'[i] \in ActiveFor(i)

LEMMA SteersCares == TypeOK /\ Cares /\ Steers => Cares'
  <1> SUFFICES ASSUME TypeOK, Cares, Steers PROVE Cares'
    OBVIOUS
  <1>0. BoardOK /\ DelegationsOK BY TypeParts
  <1>1. (\A r \in Runs : Accounted(r)') /\ \A i \in Items : Keeps(i)
    BY UntouchedCares DEF Cares, Steers
  <1>2. ASSUME NEW i \in Items, state'[i] = "in_progress", by'[i] \in {"tick", "override"}
        PROVE  link'[i] \in 1..created /\ \A r \in 1..created : r = link'[i] => Cared(r, i)'
    BY <1>0, <1>1, <1>2, MovingKept DEF Cares, Steers
  <1>3. Moving' BY <1>2, MovingNext DEF Steers
  <1> QED BY <1>1, <1>3 DEF Cares

LEMMA StillSteers ==
  UNCHANGED <<board, created, status, item, at, lost, filed>> => Steers
  BY DEF Steers, board

LEMMA ReconciledSteers ==
  ASSUME BoardOK, NEW i \in Items, NEW how \in {"reconcile", "hand"}, Reconciled(i, how),
         UNCHANGED <<created, status, item, at, lost, filed>>
  PROVE  Steers
  <1>1. PICK r \in Newest(ActiveFor(i)) : link' = [link EXCEPT ![i] = r] BY DEF Reconciled
  <1>2. r \in ActiveFor(i) BY DEF Newest
  <1>3. \A j \in Items : link'[j] = link[j] \/ link'[j] \in ActiveFor(j) BY <1>1, <1>2 DEF BoardOK
  <1>4. ASSUME NEW j \in Items, state'[j] = "in_progress", by'[j] \in {"tick", "override"}
        PROVE  state[j] = "in_progress" /\ by[j] \in {"tick", "override"}
    BY <1>4 DEF Reconciled, BoardOK
  <1> QED BY <1>3, <1>4 DEF Steers

LEMMA TickCares == TypeOK /\ Faithful /\ Cares /\ (\E c \in Callers : Tick(c)) => Cares'
  <1> SUFFICES ASSUME TypeOK, Faithful, Cares, NEW c \in Callers, Tick(c) PROVE Cares'
    OBVIOUS
  <1>0. BoardOK /\ RunsOK BY TypeParts
  <1> USE DEF queued, runs
  <1>1. CASE TickReads(c) \/ TickGoesOn(c) \/ TickEnds(c) \/ TickRejected(c)
    <2>1. Steers BY <1>1, StillSteers DEF TickReads, TickGoesOn, TickEnds, TickRejected
    <2> QED BY <2>1, SteersCares
  <1>2. ASSUME NEW i \in Items, SkipCandidate(c, i) PROVE Cares'
    <2>1. UNCHANGED <<link, by, created, status, item, at, lost, filed>>
          /\ (state' = state \/ state' = [state EXCEPT ![i] = "blocked"])
      BY <1>2 DEF SkipCandidate, board
    <2>2. Steers BY <1>0, <2>1 DEF Steers, BoardOK
    <2> QED BY <2>2, SteersCares
  <1>3. ASSUME NEW i \in Items, ReconcileCandidate(c, i) PROVE Steers
    BY <1>0, <1>3, StillSteers, ReconciledSteers DEF ReconcileCandidate
  <1>4. ASSUME NEW i \in Items, NEW s \in Runs, DelegateCandidate(c, i, s) PROVE Cares'
    <2>1. Delegates(i, Target[i], "dispatch", s, Reach(i), item, lost, "tick")
          /\ Survives(item, lost)
      BY <1>4 DEF DelegateCandidate, Delegates, Survives
    <2>2. Reach(i) \in 1..5 BY <1>0, ReachBelow
    <2> QED BY <1>0, <2>1, <2>2, DelegatedCares DEF RunsOK
  <1> QED BY <1>1, <1>2, <1>3, <1>4, SteersCares DEF Tick

LEMMA OperatorCares == TypeOK /\ Faithful /\ Cares /\ Operators => Cares'
  <1> SUFFICES ASSUME TypeOK, Faithful, Cares, Operators PROVE Cares'
    OBVIOUS
  <1>0. BoardOK /\ RunsOK BY TypeParts
  <1> USE DEF queued, runs
  <1>1. ASSUME NEW i \in Items, NEW to \in States, MoveItem(i, to) PROVE Steers
    BY <1>0, <1>1 DEF MoveItem, Steers, BoardOK
  <1>2. ASSUME NEW D \in SUBSET Items, DeleteItems(D) PROVE Steers
    BY <1>0, <1>2 DEF DeleteItems, Steers, BoardOK
  <1>3. ASSUME NEW i \in Items, NEW D \in SUBSET Items, SetDependencies(i, D) PROVE Steers
    BY <1>3 DEF SetDependencies, Steers
  <1>4. SwitchOrchestration => Steers
    BY StillSteers DEF SwitchOrchestration
  <1>5. ASSUME NEW i \in Items, ForceAsked(i) PROVE Steers
    BY <1>5, StillSteers DEF ForceAsked
  <1>6. ASSUME NEW i \in Items, ForceRefused(i) PROVE Steers
    BY <1>0, <1>6, StillSteers, ReconciledSteers DEF ForceRefused
  <1>7. ASSUME NEW i \in Items, NEW a \in Agents, NEW s \in Runs, ForceDelegated(i, a, s)
        PROVE  Cares'
    <2>1. Delegates(i, a, "override", s, Reach(i), item, lost, "override") /\ Survives(item, lost)
      BY <1>7 DEF ForceDelegated, Delegates, Survives
    <2>2. Reach(i) \in 1..5 BY <1>0, ReachBelow
    <2> QED BY <1>0, <2>1, <2>2, DelegatedCares DEF RunsOK
  <1> QED BY <1>1, <1>2, <1>3, <1>4, <1>5, <1>6, <1>7, SteersCares DEF Operators

LEMMA CrashesCares == TypeOK /\ Faithful /\ Cares /\ Crashes => Cares'
  <1> SUFFICES ASSUME TypeOK, Faithful, Cares, Crashes PROVE Cares'
    OBVIOUS
  <1>0. Reclaimed \in [Runs -> {"none", "queued", "taken", "done"}]
    BY TypeParts DEF RunsOK, Reclaimed
  <1>1. CASE Crash BY <1>1, CrashCares
  <1>2. ASSUME NEW i \in Items, NEW a \in Agents, NEW m \in Modes, NEW s \in Runs, NEW k \in 1..4,
               CrashDelegating(i, a, m, s, k)
        PROVE  Cares'
    <2>1. /\ MayDelegate(i) /\ s \in SessionsFor(a, m) /\ Restarted
          /\ Delegated(i, a, m, s, k, Reclaimed, lost \cup Dropped, "tick")
          /\ UNCHANGED <<attr, filed, revived>>
      BY <1>2 DEF CrashDelegating
    <2>2. \A r \in Runs : at'[r] = "idle" BY <2>1 DEF Restarted
    <2>3. \A r \in Runs : item[r] = "none" => Reclaimed[r] = "none" BY DEF Reclaimed
    <2>4. Delegates(i, a, m, s, k, Reclaimed, lost \cup Dropped, "tick")
          /\ Survives(Reclaimed, lost \cup Dropped) /\ k \in 1..5
      BY <2>1, <2>2, <2>3 DEF Delegates, Survives
    <2> QED BY <1>0, <2>4, DelegatedCares
  <1> QED BY <1>1, <1>2 DEF Crashes

LEMMA NextCares == TypeOK /\ Faithful /\ Cares /\ [Next]_vars => Cares'
  <1>1. TypeOK /\ Cares /\ UNCHANGED vars => Cares'
    <2>1. UNCHANGED vars => Steers BY StillSteers DEF vars, board
    <2> QED BY <2>1, SteersCares
  <1> QED BY <1>1, TickCares, ExecutionCares, OperatorCares, CrashesCares DEF Next

LEMMA CaresAlways == Spec => []Cares
  <1>1. Init => Cares
    <2>1. Init => \A r \in Runs : Accounted(r) BY DEF Init, Accounted, Runs
    <2>2. Init => Moving BY DEF Init, Moving
    <2> QED BY <2>1, <2>2 DEF Cares
  <1> QED BY <1>1, NextCares, TypeCorrect, FaithfulAlways, PTL DEF Spec

\* An item that was delegated does not stay in progress with nobody working on
\* it, unless its run was dropped or its end filed under another item.
THEOREM StuckAlwaysHasACause == Spec => []StuckHasACause
  <1>1. Cares => StuckHasACause
    BY DEF Cares, Moving, Cared, StuckHasACause
  <1> QED BY <1>1, CaresAlways, PTL

-----------------------------------------------------------------------------
(* The queue beneath the executions.  A delegated run is an item of the    *)
(* abstract queue in the session it was delegated to; what ticks,          *)
(* operators, executions and crashes do to the items is a call that queue  *)
(* allows its clients.                                                     *)

Phase(r) ==
  CASE item[r] = "none"   -> "none"
    [] item[r] = "queued" -> "waiting"
    [] item[r] = "done"   -> "settled"
    [] OTHER              -> "executing"

Sent   == Runs \X Runs   \* sessions and runs
Phases == [x \in Sent |-> IF sess[x[2]] = x[1] THEN Phase(x[2]) ELSE "none"]

WQ == INSTANCE WorkQueue
        WITH Items <- Sent, SessionOf <- [x \in Sent |-> x[1]], phase <- Phases

\* Where the item of run n, delegated to session s, can go by itself.
ItemMoves(s, n, v) ==
  \/ Phase(n) = "none" /\ v \in {"none", "waiting"}
  \/ /\ sess[n] = s
     /\ \/ v = Phase(n)
        \/ Phase(n) = "waiting" /\ v = "settled"
        \/ Phase(n) = "executing" /\ v \in {"settled", "waiting"}
        \/ Phase(n) = "waiting" /\ v = "executing"
           /\ \A m \in Runs : sess[m] = s => Phase(m) # "executing"

\* What a crash, if there is one, leaves of phase v.
Remains(crash, v) == IF crash /\ v = "executing" THEN "waiting" ELSE v

\* A call seen run by run.
LEMMA CallSeen ==
  ASSUME NEW s \in Runs, NEW n \in Runs, NEW v, NEW crash \in BOOLEAN,
         ItemMoves(s, n, v), sess'[n] = s, Phase(n)' = Remains(crash, v),
         \A m \in Runs : m # n => sess'[m] = sess[m] /\ Phase(m)' = Remains(crash, Phase(m))
  PROVE  WQ!Call
  <1> DEFINE x0 == <<s, n>>
             q  == [Phases EXCEPT ![x0] = v]
  <1>1. x0 \in Sent BY DEF Sent
  <1>2. \A m \in Runs : Phase(m) \in {"none", "waiting", "settled", "executing"} BY DEF Phase
  <1>3. \A t \in Runs, m \in Runs :
          /\ <<t, m>> \in Sent
          /\ Phases[<<t, m>>] = IF sess[m] = t THEN Phase(m) ELSE "none"
    BY DEF Phases, Sent
  <1>4. WQ!Without(Phases, {}) = Phases
    BY DEF WQ!Without, Phases
  <1>5. v \in WQ!Onward(Phases, x0) \cup {Phases[x0]}
    <2>1. CASE Phase(n) = "none" /\ v \in {"none", "waiting"}
      <3>1. Phases[x0] = "none" BY <1>3, <2>1
      <3> QED BY <2>1, <3>1 DEF WQ!Onward
    <2>2. ASSUME sess[n] = s PROVE Phases[x0] = Phase(n)
      BY <1>3, <2>2
    <2>3. CASE sess[n] = s /\ v = Phase(n) BY <2>2, <2>3
    <2>4. CASE /\ sess[n] = s
               /\ \/ Phase(n) = "waiting" /\ v = "settled"
                  \/ Phase(n) = "executing" /\ v \in {"settled", "waiting"}
      BY <2>2, <2>4 DEF WQ!Onward
    <2>5. CASE /\ sess[n] = s /\ Phase(n) = "waiting" /\ v = "executing"
               /\ \A m \in Runs : sess[m] = s => Phase(m) # "executing"
      <3> SUFFICES WQ!Free(Phases, x0) BY <2>2, <2>5 DEF WQ!Onward
      <3> SUFFICES ASSUME NEW t \in Runs, NEW m \in Runs, t = s
                   PROVE  Phases[<<t, m>>] \notin {"executing", "orphan"}
        BY <1>1 DEF WQ!Free, WQ!Busy, Sent
      <3> QED BY <1>2, <1>3, <2>5
    <2> QED BY <2>1, <2>3, <2>4, <2>5 DEF ItemMoves
  <1>6. Phases' = IF crash THEN WQ!Restarted(q) ELSE q
    <2>1. v # "orphan" BY <1>2 DEF ItemMoves
    <2>2. ASSUME NEW x \in Sent PROVE Phases'[x] = Remains(crash, q[x])
      <3>1. PICK t \in Runs, m \in Runs : x = <<t, m>> BY DEF Sent
      <3>2. Phases'[x] = IF sess'[m] = t THEN Phase(m)' ELSE "none"
        BY <2>2, <3>1 DEF Phases
      <3>3. q[x] = IF x = x0 THEN v ELSE Phases[x] BY <2>2 DEF Phases
      <3>4. CASE m # n BY <1>3, <3>1, <3>2, <3>3, <3>4 DEF Remains
      <3>5. CASE m = n /\ t = s BY <3>1, <3>2, <3>3, <3>5
      <3>6. CASE m = n /\ t # s
        <4>1. Phases[x] = "none" BY <1>3, <3>1, <3>6 DEF ItemMoves
        <4> QED BY <3>1, <3>2, <3>3, <3>6, <4>1 DEF Remains
      <3> QED BY <3>4, <3>5, <3>6
    <2>3. \A x \in Sent : q[x] # "orphan"
      BY <1>2, <2>1 DEF Phases, Sent
    <2>4. WQ!Restarted(q) = [x \in Sent |-> IF q[x] = "executing" THEN "waiting" ELSE q[x]]
      BY <2>3 DEF WQ!Restarted, WQ!Interrupted
    <2>5. Phases' = [x \in Sent |-> Remains(crash, q[x])]
      BY <2>2 DEF Phases
    <2>6. q = [x \in Sent |-> q[x]] BY DEF Phases
    <2> HIDE DEF q
    <2> QED BY <2>4, <2>5, <2>6 DEF Remains
  <1> HIDE DEF q
  <1>7. {} \in SUBSET WQ!Rows OBVIOUS
  <1> QED BY <1>1, <1>4, <1>5, <1>6, <1>7 DEF WQ!Call, q

\* A step that leaves the items and their sesss alone does not touch the queue.
LEMMA NoCall == UNCHANGED <<item, sess>> => UNCHANGED Phases
  <1> SUFFICES ASSUME UNCHANGED <<item, sess>> PROVE UNCHANGED Phases
    OBVIOUS
  <1>1. \A r \in Runs : Phase(r)' = Phase(r) BY DEF Phase
  <1> QED BY <1>1 DEF Phases, Sent

\* A delegation, complete or cut short, submits at most the item of a run that
\* had none.
LEMMA DelegatedCalls ==
  ASSUME TypeOK, Fresh, created < MaxRuns, NEW i, NEW a, NEW m, NEW s \in Runs, NEW k \in 1..5,
         NEW items \in {item, Reclaimed}, NEW gone, NEW how,
         Delegated(i, a, m, s, k, items, gone, how)
  PROVE  WQ!Call
  <1>0. PICK crash \in BOOLEAN : items = IF crash THEN Reclaimed ELSE item OBVIOUS
  <1>a. DelegationsOK /\ RunsOK BY TypeParts
  <1>1. PICK n \in Runs : n = created + 1 BY <1>a DEF DelegationsOK, Runs
  <1>2. item[n] = "none" /\ Phase(n) = "none" BY <1>a, <1>1 DEF DelegationsOK, Fresh, Phase
  <1>3. items \in [Runs -> {"none", "queued", "taken", "done"}] BY <1>a DEF RunsOK, Reclaimed
  <1>4. items[n] = "none" BY <1>0, <1>2 DEF Reclaimed
  <1>5. sess' = (IF k >= 2 THEN [sess EXCEPT ![n] = s] ELSE sess)
        /\ item' = IF k >= 3 THEN [items EXCEPT ![n] = "queued"] ELSE items
    BY <1>1 DEF Delegated
  <1>6. \A q \in Runs : q # n => sess'[q] = sess[q] /\ Phase(q)' = Remains(crash, Phase(q))
    <2> SUFFICES ASSUME NEW q \in Runs, q # n
                 PROVE  sess'[q] = sess[q] /\ Phase(q)' = Remains(crash, Phase(q))
      OBVIOUS
    <2>1. sess'[q] = sess[q] /\ item'[q] = items[q] BY <1>a, <1>3, <1>5 DEF DelegationsOK
    <2>2. items[q] = IF crash /\ item[q] = "taken" THEN "queued" ELSE item[q]
      BY <1>0 DEF Reclaimed
    <2> QED BY <1>a, <2>1, <2>2 DEF RunsOK, Phase, Remains
  <1> DEFINE v == IF k >= 3 THEN "waiting" ELSE "none"
  <1>7. item'[n] = IF k >= 3 THEN "queued" ELSE "none" BY <1>3, <1>4, <1>5
  <1>8. Phase(n)' = v BY <1>7 DEF Phase
  <1>9. v = Remains(crash, v) BY DEF Remains
  <1>10. PICK z \in Runs : sess'[n] = z BY <1>a, <1>5 DEF DelegationsOK
  <1>11. ItemMoves(z, n, v) BY <1>2 DEF ItemMoves
  <1> HIDE DEF v
  <1> QED BY <1>6, <1>8, <1>9, <1>10, <1>11, CallSeen

\* What an execution does to the item of its run.
LEMMA ExecutionCalls ==
  ASSUME TypeOK, Fresh, NEW r \in Runs, Accounted(r), Execution(r)
  PROVE  WQ!Call
  <1>0. DelegationsOK /\ RunsOK /\ ExecutionsOK BY TypeParts
  <1>1. UNCHANGED sess
    BY DEF Execution, StartRun, SkipRun, BeginRun, EndRun, ReportRun, ThrowRun, WaitRun, ResumeRun,
           AbortRun, queued
  <1>2. \A q \in Runs : q # r => item'[q] = item[q]
    BY <1>0 DEF Execution, StartRun, SkipRun, BeginRun, EndRun, ReportRun, ThrowRun, WaitRun,
                ResumeRun, AbortRun, Left, RunsOK
  <1>3. \/ item'[r] = item[r]
        \/ item[r] \in {"queued", "taken"} /\ item'[r] = "done"
        \/ item[r] = "taken" /\ item'[r] = "queued"
        \/ /\ item[r] = "queued" /\ item'[r] = "taken"
           /\ \A q \in 1..created : sess[q] = sess[r] => item[q] # "taken"
    <2> USE <1>0 DEF RunsOK, ExecutionsOK, Accounted
    <2>1. CASE StartRun(r) BY <2>1 DEF StartRun
    <2>2. CASE SkipRun(r) BY <2>2 DEF SkipRun
    <2>3. CASE BeginRun(r) \/ EndRun(r) \/ ResumeRun(r) \/ AbortRun(r)
      BY <2>3 DEF BeginRun, EndRun, ResumeRun, AbortRun
    <2>4. ASSUME NEW v \in {"review", "blocked"}, ReportRun(r, v)
          PROVE  item[r] \in {"taken", "done"} /\ item'[r] = "done"
      BY <2>4 DEF ReportRun, Left
    <2>5. CASE ThrowRun(r) BY <2>5 DEF ThrowRun, Left
    <2>6. CASE WaitRun(r) BY <2>6 DEF WaitRun, Left
    <2> QED BY <2>1, <2>2, <2>3, <2>4, <2>5, <2>6 DEF Execution
  <1>4. \A q \in Runs : q # r => sess'[q] = sess[q] /\ Phase(q)' = Phase(q)
    BY <1>1, <1>2 DEF Phase
  <1>5. PICK s \in Runs : s = sess[r] BY <1>0 DEF DelegationsOK
  <1>6. CASE item[r] = "taken" /\ item'[r] = "queued"
    <2>1. Phase(r) = "executing" /\ Phase(r)' = "waiting" BY <1>6 DEF Phase
    <2>2. ItemMoves(s, r, Phase(r)') BY <1>5, <2>1 DEF ItemMoves
    <2> QED BY <1>1, <1>4, <1>5, <2>2, CallSeen DEF Remains
  <1>7. CASE item'[r] = item[r] \/ (item[r] \in {"queued", "taken"} /\ item'[r] = "done")
    <2>1. ItemMoves(s, r, Phase(r)') BY <1>5, <1>7 DEF Phase, ItemMoves
    <2> QED BY <1>1, <1>4, <1>5, <2>1, CallSeen DEF Remains
  <1>8. CASE /\ item[r] = "queued" /\ item'[r] = "taken"
             /\ \A q \in 1..created : sess[q] = sess[r] => item[q] # "taken"
    <2>1. \A q \in Runs : sess[q] = sess[r] => item[q] # "taken"
      BY <1>0, <1>8 DEF Fresh, Runs, DelegationsOK
    <2>2. \A q \in Runs : item[q] # "taken" => Phase(q) # "executing"
      BY <1>0 DEF Phase, RunsOK
    <2>3. Phase(r) = "waiting" /\ Phase(r)' = "executing" BY <1>8 DEF Phase
    <2>4. ItemMoves(s, r, Phase(r)') BY <1>5, <2>1, <2>2, <2>3 DEF ItemMoves
    <2> QED BY <1>1, <1>4, <1>5, <2>4, CallSeen DEF Remains
  <1> QED BY <1>3, <1>6, <1>7, <1>8

\* Every step of the model is a call of the queue, or nothing to it.
LEMMA QueueStep == TypeOK /\ Fresh /\ Cares /\ [Next]_vars => [WQ!Call]_Phases
  <1> SUFFICES ASSUME TypeOK, Fresh, Cares, [Next]_vars PROVE WQ!Call \/ UNCHANGED Phases
    OBVIOUS
  <1>0. BoardOK /\ DelegationsOK /\ RunsOK BY TypeParts
  <1>1. ASSUME NEW c \in Callers, Tick(c) PROVE WQ!Call \/ UNCHANGED Phases
    <2>1. ASSUME TickReads(c) \/ TickGoesOn(c) \/ TickEnds(c) \/ TickRejected(c)
          PROVE  UNCHANGED <<item, sess>>
      BY <2>1 DEF TickReads, TickGoesOn, TickEnds, TickRejected, queued, runs
    <2>2. ASSUME NEW i \in Items, SkipCandidate(c, i) \/ ReconcileCandidate(c, i)
          PROVE  UNCHANGED <<item, sess>>
      BY <2>2 DEF SkipCandidate, ReconcileCandidate, queued, runs
    <2>3. ASSUME NEW i \in Items, NEW s \in Runs, DelegateCandidate(c, i, s) PROVE WQ!Call
      <3>1. Reach(i) \in 1..5 /\ created < MaxRuns
        BY <1>0, <2>3, ReachBelow DEF DelegateCandidate, MayDelegate, Room
      <3> QED BY <2>3, <3>1, DelegatedCalls DEF DelegateCandidate
    <2> QED BY <1>1, <2>1, <2>2, <2>3, NoCall DEF Tick
  <1>2. ASSUME NEW r \in Runs, Execution(r) PROVE WQ!Call
    BY <1>2, ExecutionCalls DEF Cares
  <1>3. CASE Operators
    <2>1. ASSUME NEW i \in Items, NEW to \in States, MoveItem(i, to) PROVE UNCHANGED <<item, sess>>
      BY <2>1 DEF MoveItem, queued, runs
    <2>2. ASSUME NEW D \in SUBSET Items, DeleteItems(D) PROVE UNCHANGED <<item, sess>>
      BY <2>2 DEF DeleteItems, queued, runs
    <2>3. ASSUME NEW i \in Items, NEW D \in SUBSET Items, SetDependencies(i, D)
          PROVE  UNCHANGED <<item, sess>>
      BY <2>3 DEF SetDependencies, queued, runs
    <2>4. ASSUME SwitchOrchestration PROVE UNCHANGED <<item, sess>>
      BY <2>4 DEF SwitchOrchestration, queued, runs
    <2>5. ASSUME NEW i \in Items, ForceAsked(i) \/ ForceRefused(i) PROVE UNCHANGED <<item, sess>>
      BY <2>5 DEF ForceAsked, ForceRefused, queued, runs
    <2>6. ASSUME NEW i \in Items, NEW a \in Agents, NEW s \in Runs, ForceDelegated(i, a, s)
          PROVE  WQ!Call
      <3>1. Reach(i) \in 1..5 /\ created < MaxRuns
        BY <1>0, <2>6, ReachBelow DEF ForceDelegated, MayDelegate, Room
      <3> QED BY <2>6, <3>1, DelegatedCalls DEF ForceDelegated
    <2> QED BY <1>3, <2>1, <2>2, <2>3, <2>4, <2>5, <2>6, NoCall DEF Operators
  <1>4. CASE Crash
    <2>1. item' = Reclaimed /\ UNCHANGED sess BY <1>4 DEF Crash, queued
    <2>2. \A q \in Runs : Phase(q)' = Remains(TRUE, Phase(q))
      BY <1>0, <2>1 DEF Phase, Reclaimed, Remains, RunsOK
    <2>3. CASE Runs = {} BY <2>3 DEF Phases, Sent
    <2>4. ASSUME NEW n \in Runs PROVE WQ!Call
      <3>1. sess[n] \in Runs /\ ItemMoves(sess[n], n, Phase(n)) BY <1>0 DEF DelegationsOK, ItemMoves
      <3> QED BY <2>1, <2>2, <3>1, CallSeen
    <2> QED BY <2>3, <2>4
  <1>5. ASSUME NEW i \in Items, NEW a \in Agents, NEW m \in Modes, NEW s \in Runs, NEW k \in 1..4,
               CrashDelegating(i, a, m, s, k)
        PROVE  WQ!Call
    <2>1. k \in 1..5 /\ created < MaxRuns BY <1>5 DEF CrashDelegating, MayDelegate, Room
    <2> QED BY <1>5, <2>1, DelegatedCalls DEF CrashDelegating
  <1>6. CASE UNCHANGED vars BY <1>6, NoCall DEF vars, queued
  <1> QED BY <1>1, <1>2, <1>3, <1>4, <1>5, <1>6 DEF Next, Crashes

\* Whatever ticks, overrides, steering and crashes do, a delegated run is
\* submitted once, the runs of a session execute one at a time, and one whose
\* item is done is not taken up again.
THEOREM QueueIsUsedAsPromised == Spec => WQ!CallSpec
  <1>1. Init => WQ!Init BY DEF Init, WQ!Init, Phases, Phase, Sent
  <1>2. Faithful => Fresh BY DEF Faithful
  <1> QED BY <1>1, <1>2, QueueStep, TypeCorrect, FaithfulAlways, CaresAlways, PTL DEF Spec, WQ!CallSpec

=============================================================================
