-------------------------- MODULE RunIngressProofs --------------------------
(***************************************************************************)
(* Proofs about RunIngress, for every set of keys, any number of messages  *)
(* and every bound: work is queued once per key, and for an update again   *)
(* only after a failure of its own; runs that are queued are served; no    *)
(* update is lost or overtaken; and what a request was given is kept.      *)
(*                                                                         *)
(* The inductive invariant says in addition that nothing is known of runs  *)
(* not created yet, that an update may be received again only if the       *)
(* failures so far pay for it, and that a poll has one update at a time at *)
(* the handler, the first one of its batch.                                *)
(***************************************************************************)
EXTENDS RunIngress, TLAPS

Fresh ==
  \A s \in Requests, n \in Tries :
    n > made[s] => /\ status[<<s, n>>] = "none" /\ ~item[<<s, n>>] /\ ~delegated[<<s, n>>]
                   /\ at[<<s, n>>] = "idle" /\ <<s, n>> \notin open

\* Runs are paid for by failures, but for the one a key or an update is owed.
Paid ==
  /\ \A k \in Keys : made[k] <= failures \/ (keyed[k] # 0 /\ made[k] <= failures + 1)
  /\ \A u \in Updates :
       /\ made[u] <= failures + 1
       /\ u \notin acked /\ ~(u < offset) /\ ~Waiting(u) => made[u] <= failures

\* The polling of Telegram.
Polls ==
  /\ webhook => offset = 0 /\ ~polling /\ batch = {}
  /\ \A u \in batch : u \notin acked /\ ~(u < offset)
  /\ \A r, q \in open : r[1] = q[1] => r = q
  /\ ~webhook => /\ \A r \in open : polling /\ r[1] \in batch /\ \A v \in batch : r[1] <= v
                 /\ \A u \in Updates, n \in Tries : at[<<u, n>>] # "idle" => <<u, n>> \in open

\* Only the run of a key's row is handled or has work.
KeysOnce ==
  \A k \in Keys, n \in Tries :
    HasWork(<<k, n>>) \/ at[<<k, n>>] # "idle" => n = keyed[k]

\* What is answered was queued or completed.
Replies ==
  \A s \in Requests, n \in Tries :
    at[<<s, n>>] = "answering" => item[<<s, n>>] \/ status[<<s, n>>] = "completed"

\* An update not in the batch any more, before one that is, was answered.
BatchInOrder ==
  \A u \in Updates, v \in batch : u < v /\ u \notin batch => Answered(u)

IInv ==
  TypeOK /\ Fresh /\ Paid /\ Polls /\ KeysOnce /\ QueuedIsServed /\ Replies /\ BatchInOrder
  /\ AnsweredInOrder

-----------------------------------------------------------------------------

USE IngressAssumption DEF Tries, Updates

\* Keys are no updates.
LEMMA KeysAreKeys == Keys \cap Updates = {} /\ Keys \subseteq Requests /\ Updates \subseteq Requests
  BY IngressAssumption DEF Requests, Updates

\* A run is a request and a number.
LEMMA Pairs ==
  /\ \A s \in Requests, n \in Tries : <<s, n>> \in Runs
  /\ \A r \in Runs : r = <<r[1], r[2]>> /\ r[1] \in Requests /\ r[2] \in Tries
  BY DEF Runs

\* The initial states satisfy the invariant.
LEMMA InitInv == Init => IInv
  <1> SUFFICES ASSUME Init PROVE IInv OBVIOUS
  <1> USE KeysAreKeys, Pairs
  <1>1. TypeOK
    <2>1. made \in [Requests -> 0..MaxFailures + 1] /\ keyed \in [Keys -> 0..MaxFailures + 1]
      BY DEF Init
    <2>2. /\ status \in [Runs -> {"none", "queued", "completed", "aborted"}]
          /\ at \in [Runs -> {"idle", "deciding", "answering"}]
      BY DEF Init
    <2>3. item \in [Runs -> BOOLEAN] /\ delegated \in [Runs -> BOOLEAN]
          /\ webhook \in BOOLEAN /\ polling \in BOOLEAN
      BY Zenon DEF Init
    <2>4. /\ open \subseteq Updates \X Tries /\ sent \in 0..Sends
          /\ acked \subseteq Updates /\ batch \subseteq Updates /\ offset \in Nat
          /\ failures \in 0..MaxFailures /\ aborts \in 0..MaxAborts /\ dropped \subseteq Runs
      BY DEF Init
    <2> QED BY <2>1, <2>2, <2>3, <2>4 DEF TypeOK
  <1>2. Fresh /\ KeysOnce /\ QueuedIsServed /\ Replies
    BY DEF Init, Fresh, KeysOnce, QueuedIsServed, Replies, HasWork
  <1>3. /\ \A s \in Requests : made[s] = 0
        /\ failures = 0
    BY DEF Init
  <1>4. Polls /\ BatchInOrder BY DEF Init, Polls, BatchInOrder
  <1>5. AnsweredInOrder BY DEF Init, AnsweredInOrder
  <1>6. Paid BY <1>3 DEF Paid
  <1> QED BY <1>1, <1>2, <1>4, <1>5, <1>6 DEF IInv

\* A run that may be created has a number, and nothing is known of it.
LEMMA NewRuns ==
  ASSUME IInv, NEW s \in Requests, made[s] <= failures
  PROVE  /\ made[s] + 1 \in Tries /\ NewRun(s) \in Runs /\ NewRun(s) = <<s, made[s] + 1>>
         /\ status[NewRun(s)] = "none" /\ ~item[NewRun(s)] /\ ~delegated[NewRun(s)]
         /\ at[NewRun(s)] = "idle" /\ NewRun(s) \notin open
  <1>1. made[s] \in Nat /\ failures \in 0..MaxFailures
    BY DEF IInv, TypeOK
  <1>2. made[s] + 1 \in Tries BY <1>1
  <1> QED BY <1>1, <1>2, Pairs DEF IInv, Fresh, NewRun

\* Both deliverers of updates hand over only what is owed.
LEMMA Owed ==
  ASSUME IInv, NEW u \in Updates, InjectUpdate(u) \/ DeliverUpdate(u)
  PROVE  made[u] <= failures /\ u \notin acked /\ ~Waiting(u) /\ ~(u < offset)
  BY DEF IInv, InjectUpdate, DeliverUpdate, Paid, Polls

\* A key that is posted is owed a run.
LEMMA OwedToKey ==
  ASSUME IInv, NEW k \in Keys, keyed[k] = 0
  PROVE  made[k] <= failures
  BY DEF IInv, Paid

-----------------------------------------------------------------------------
(* What was answered stays answered.                                       *)

\* Runs keep what they have, and new ones do not touch others.
Keeps ==
  /\ \A s \in Requests : made'[s] \in Nat /\ made'[s] >= made[s]
  /\ \A s \in Requests, n \in Tries :
       n <= made[s] => /\ item[<<s, n>>] => item'[<<s, n>>]
                       /\ status[<<s, n>>] = "completed" => status'[<<s, n>>] = "completed"

\* So what was answered stays so.
LEMMA KeepsAnswered ==
  ASSUME TypeOK, Keeps, NEW u \in Requests, Answered(u)
  PROVE  Answered(u)'
  <1>1. made[u] \in 0..MaxFailures + 1 /\ made'[u] \in Nat /\ made'[u] >= made[u]
    BY DEF TypeOK, Keeps
  <1>2. PICK n \in 1..made[u] : item[<<u, n>>] \/ status[<<u, n>>] = "completed" BY DEF Answered
  <1>3. n \in Tries /\ n <= made[u] BY <1>1
  <1>4. n \in 1..made'[u] BY <1>1
  <1>5. item'[<<u, n>>] \/ status'[<<u, n>>] = "completed" BY <1>2, <1>3 DEF Keeps
  <1> QED BY <1>4, <1>5 DEF Answered

\* Nothing is known of runs not created yet.
LEMMA FreshKept ==
  ASSUME IInv, Next
  PROVE  Fresh'
  <1> USE KeysAreKeys, Pairs
  <1>1. ASSUME NEW k \in Keys, PostRun(k) PROVE Fresh'
    BY <1>1, OwedToKey, NewRuns DEF PostRun, Created, Keyed, NewRun, telegram, IInv, Fresh, TypeOK
  <1>2. ASSUME NEW k \in Keys, CrashBeforeKey(k) PROVE Fresh'
    BY <1>2, OwedToKey, NewRuns DEF CrashBeforeKey, Restarted, Fails, Created, NewRun, Handled, IInv, Fresh, TypeOK
  <1>3. CASE SendMessage
    BY <1>3 DEF SendMessage, rows, IInv, Fresh, TypeOK
  <1>4. CASE Poll
    BY <1>4 DEF Poll, rows, IInv, Fresh, TypeOK
  <1>5. CASE PollEnds
    BY <1>5 DEF PollEnds, rows, IInv, Fresh, TypeOK
  <1>6. CASE Crash
    BY <1>6 DEF Crash, Restarted, Fails, rows, Handled, IInv, Fresh, TypeOK
  <1>7. ASSUME NEW u \in Updates, InjectUpdate(u) \/ DeliverUpdate(u) PROVE Fresh'
    <2>1. Received(u) /\ made[u] <= failures BY <1>7, Owed DEF InjectUpdate, DeliverUpdate
    <2> QED BY <2>1, NewRuns DEF Received, Created, NewRun, telegram, IInv, Fresh, TypeOK
  <1>8. ASSUME NEW r \in Runs, QueueRun(r) PROVE Fresh'
    BY <1>8 DEF QueueRun, telegram, IInv, Fresh, TypeOK
  <1>9. ASSUME NEW r \in Runs, CompleteRun(r) PROVE Fresh'
    BY <1>9 DEF CompleteRun, Outcome, telegram, IInv, Fresh, TypeOK
  <1>10. ASSUME NEW r \in Runs, Answer(r) PROVE Fresh'
    BY <1>10 DEF Answer, AnswerUpdate, Confirmed, rows, telegram, IInv, Fresh, TypeOK
  <1>11. ASSUME NEW r \in Runs, Throw(r) PROVE Fresh'
    BY <1>11 DEF Throw, Fails, Rest, IInv, Fresh, TypeOK
  <1>12. ASSUME NEW r \in Runs, DeliveryTimesOut(r) PROVE Fresh'
    BY <1>12 DEF DeliveryTimesOut, Fails, rows, telegram, IInv, Fresh, TypeOK
  <1>13. ASSUME NEW r \in Runs, AbortRun(r) PROVE Fresh'
    BY <1>13 DEF AbortRun, telegram, IInv, Fresh, TypeOK
  <1>14. ASSUME NEW r \in Runs, CrashDelegating(r) PROVE Fresh'
    BY <1>14 DEF CrashDelegating, Restarted, Fails, Handled, IInv, Fresh, TypeOK
  <1> QED BY <1>1, <1>2, <1>3, <1>4, <1>5, <1>6, <1>7, <1>8, <1>9, <1>10, <1>11, <1>12, <1>13, <1>14 DEF Next, Handler

\* Repetitions are paid for.
LEMMA PaidKept ==
  ASSUME IInv, Next
  PROVE  Paid'
  <1> USE KeysAreKeys, Pairs
  <1>1. ASSUME NEW k \in Keys, PostRun(k) PROVE Paid'
    BY <1>1, OwedToKey, NewRuns DEF PostRun, Created, Keyed, NewRun, telegram, IInv, Paid, TypeOK, Polls, Waiting
  <1>2. ASSUME NEW k \in Keys, CrashBeforeKey(k) PROVE Paid'
    <2>1. /\ made[k] <= failures /\ failures' = failures + 1 /\ made' = [made EXCEPT ![k] = @ + 1]
          /\ keyed' = keyed /\ failures \in 0..MaxFailures /\ made \in [Requests -> 0..MaxFailures + 1]
      BY <1>2, OwedToKey DEF CrashBeforeKey, Restarted, Fails, Created, IInv, TypeOK
    <2>2. \A q \in Keys : made'[q] <= failures' \/ (keyed'[q] # 0 /\ made'[q] <= failures' + 1)
      BY <2>1 DEF IInv, Paid
    <2>3. \A u \in Updates : made'[u] <= failures'
      BY <2>1 DEF IInv, Paid
    <2> QED BY <2>1, <2>2, <2>3 DEF Paid
  <1>3. CASE SendMessage
    BY <1>3 DEF SendMessage, rows, IInv, Paid, TypeOK, Polls, Waiting
  <1>4. CASE Poll
    BY <1>4 DEF Poll, rows, IInv, Paid, TypeOK, Polls, Waiting
  <1>5. CASE PollEnds
    BY <1>5 DEF PollEnds, rows, IInv, Paid, TypeOK, Polls, Waiting
  <1>6. CASE Crash
    BY <1>6 DEF Crash, Restarted, Fails, rows, Handled, IInv, Paid, TypeOK, Polls, Waiting
  <1>7. ASSUME NEW u \in Updates, InjectUpdate(u) \/ DeliverUpdate(u) PROVE Paid'
    <2>1. Received(u) /\ made[u] <= failures BY <1>7, Owed DEF InjectUpdate, DeliverUpdate
    <2>2. /\ made' = [made EXCEPT ![u] = @ + 1] /\ open' = open \cup {NewRun(u)} /\ NewRun(u)[1] = u
          /\ UNCHANGED <<keyed, failures, acked, offset>>
      BY <2>1 DEF Received, Created, NewRun, telegram
    <2>3. made \in [Requests -> 0..MaxFailures + 1] /\ failures \in 0..MaxFailures BY DEF IInv, TypeOK
    <2>4. \A k \in Keys : made'[k] = made[k] BY <2>2, <2>3
    <2>5. \A v \in Updates : Waiting(v) => Waiting(v)' BY <2>2 DEF Waiting
    <2>6. Waiting(u)' BY <2>2 DEF Waiting
    <2>7. \A v \in Updates : v # u => made'[v] = made[v] BY <2>2, <2>3
    <2>8. made'[u] = made[u] + 1 BY <2>2, <2>3
    <2> QED BY <2>1, <2>2, <2>3, <2>4, <2>5, <2>6, <2>7, <2>8 DEF IInv, Paid
  <1>8. ASSUME NEW r \in Runs, QueueRun(r) PROVE Paid'
    BY <1>8 DEF QueueRun, telegram, IInv, Paid, TypeOK, Polls, Waiting
  <1>9. ASSUME NEW r \in Runs, CompleteRun(r) PROVE Paid'
    BY <1>9 DEF CompleteRun, Outcome, telegram, IInv, Paid, TypeOK, Polls, Waiting
  <1>10. ASSUME NEW r \in Runs, Answer(r) PROVE Paid'
    BY <1>10 DEF Answer, AnswerUpdate, Confirmed, rows, telegram, IInv, Paid, TypeOK, Polls, Waiting
  <1>11. ASSUME NEW r \in Runs, Throw(r) PROVE Paid'
    BY <1>11 DEF Throw, Fails, Rest, IInv, Paid, TypeOK, Polls, Waiting
  <1>12. ASSUME NEW r \in Runs, DeliveryTimesOut(r) PROVE Paid'
    BY <1>12 DEF DeliveryTimesOut, Fails, rows, telegram, IInv, Paid, TypeOK, Polls, Waiting
  <1>13. ASSUME NEW r \in Runs, AbortRun(r) PROVE Paid'
    BY <1>13 DEF AbortRun, telegram, IInv, Paid, TypeOK, Polls, Waiting
  <1>14. ASSUME NEW r \in Runs, CrashDelegating(r) PROVE Paid'
    BY <1>14 DEF CrashDelegating, Restarted, Fails, Handled, IInv, Paid, TypeOK, Polls, Waiting
  <1> QED BY <1>1, <1>2, <1>3, <1>4, <1>5, <1>6, <1>7, <1>8, <1>9, <1>10, <1>11, <1>12, <1>13, <1>14 DEF Next, Handler

\* Polls handle one update at a time, in order.
LEMMA PollsKept ==
  ASSUME IInv, Next
  PROVE  Polls'
  <1> USE KeysAreKeys, Pairs
  <1>1. ASSUME NEW k \in Keys, PostRun(k) PROVE Polls'
    BY <1>1, OwedToKey, NewRuns DEF PostRun, Created, Keyed, NewRun, telegram, IInv, Polls, TypeOK, Paid, Waiting, Fresh
  <1>2. ASSUME NEW k \in Keys, CrashBeforeKey(k) PROVE Polls'
    BY <1>2, OwedToKey, NewRuns DEF CrashBeforeKey, Restarted, Fails, Created, NewRun, Handled, IInv, Polls, TypeOK, Paid, Waiting, Fresh
  <1>3. CASE SendMessage
    BY <1>3 DEF SendMessage, rows, IInv, Polls, TypeOK, Paid, Waiting, Fresh
  <1>4. CASE Poll
    BY <1>4 DEF Poll, rows, IInv, Polls, TypeOK, Paid, Waiting, Fresh
  <1>5. CASE PollEnds
    BY <1>5 DEF PollEnds, rows, IInv, Polls, TypeOK, Paid, Waiting, Fresh
  <1>6. CASE Crash
    BY <1>6 DEF Crash, Restarted, Fails, rows, Handled, IInv, Polls, TypeOK, Paid, Waiting, Fresh
  <1>7. ASSUME NEW u \in Updates, InjectUpdate(u) \/ DeliverUpdate(u) PROVE Polls'
    <2>1. Received(u) /\ made[u] <= failures /\ u \notin acked /\ ~Waiting(u)
      BY <1>7, Owed DEF InjectUpdate, DeliverUpdate
    <2>2. ~webhook => polling /\ u \in batch /\ \A v \in batch : u <= v
      BY <1>7 DEF InjectUpdate, DeliverUpdate
    <2>3. /\ at' = [at EXCEPT ![NewRun(u)] = "deciding"] /\ open' = open \cup {NewRun(u)}
          /\ NewRun(u)[1] = u /\ UNCHANGED <<webhook, sent, acked, offset, polling, batch>>
      BY <2>1 DEF Received, NewRun, telegram
    <2>4. \A r \in open : r[1] # u BY <2>1 DEF Waiting
    <2>5. \A r, q \in open' : r[1] = q[1] => r = q BY <2>3, <2>4 DEF IInv, Polls
    <2>6. at \in [Runs -> {"idle", "deciding", "answering"}] BY DEF IInv, TypeOK
    <2>7. \A w \in Updates, n \in Tries : at'[<<w, n>>] # at[<<w, n>>] => <<w, n>> = NewRun(u)
      BY <2>3, <2>6
    <2>8. ~webhook => \A w \in Updates, n \in Tries : at'[<<w, n>>] # "idle" => <<w, n>> \in open'
      BY <2>3, <2>7 DEF IInv, Polls
    <2>9. ~webhook => \A r \in open' : polling /\ r[1] \in batch /\ \A v \in batch : r[1] <= v
      BY <2>2, <2>3 DEF IInv, Polls
    <2> QED BY <2>3, <2>5, <2>8, <2>9 DEF IInv, Polls
  <1>8. ASSUME NEW r \in Runs, QueueRun(r) PROVE Polls'
    BY <1>8 DEF QueueRun, telegram, IInv, Polls, TypeOK, Paid, Waiting, Fresh
  <1>9. ASSUME NEW r \in Runs, CompleteRun(r) PROVE Polls'
    BY <1>9 DEF CompleteRun, Outcome, telegram, IInv, Polls, TypeOK, Paid, Waiting, Fresh
  <1>10. ASSUME NEW r \in Runs, Answer(r) PROVE Polls'
    <2> SUFFICES ASSUME r[1] \in Updates PROVE Polls'
      BY <1>10 DEF Answer, AnswerUpdate, rows, telegram, IInv, Polls, TypeOK
    <2>1. /\ at' = [at EXCEPT ![r] = "idle"] /\ open' = open \ {r} /\ UNCHANGED <<webhook, polling>>
          /\ at \in [Runs -> {"idle", "deciding", "answering"}] /\ at[r] # "idle"
      BY <1>10 DEF Answer, AnswerUpdate, IInv, TypeOK
    <2>2. CASE webhook
      <3>1. offset' = offset /\ batch' = batch BY <1>10, <2>2 DEF Answer, AnswerUpdate
      <3> QED BY <2>1, <2>2, <3>1 DEF IInv, Polls
    <2>3. CASE ~webhook
      <3>1. r \in open BY <2>1, <2>3 DEF IInv, Polls
      <3>2. /\ offset' = (IF offset > r[1] THEN offset ELSE r[1] + 1)
            /\ batch' = batch \ {r[1]} /\ acked' = acked
        BY <1>10, <2>3, <3>1 DEF Answer, AnswerUpdate, Confirmed
      <3>3. open' = {}
        <4>1. \A q \in open : q[1] \in Updates /\ r[1] \in Updates /\ q[1] <= r[1] /\ r[1] <= q[1]
          BY <2>3, <3>1 DEF IInv, Polls, TypeOK
        <4>2. \A q \in open : q[1] = r[1] BY <4>1
        <4> QED BY <2>1, <3>1, <4>2 DEF IInv, Polls
      <3>4. \A u \in batch' : u \notin acked' /\ ~(u < offset')
        <4> SUFFICES ASSUME NEW u \in batch, u # r[1] PROVE u \notin acked /\ ~(u < offset')
          BY <3>2
        <4>1. r[1] <= u /\ u \in Updates /\ ~(u < offset) /\ u \notin acked /\ offset \in Nat
          BY <2>3, <3>1 DEF IInv, Polls, TypeOK
        <4> QED BY <3>2, <4>1
      <3>5. \A u \in Updates, n \in Tries : at'[<<u, n>>] # "idle" => FALSE
        BY <2>1, <2>3, <3>3 DEF IInv, Polls
      <3> QED BY <2>1, <2>3, <3>3, <3>4, <3>5 DEF Polls
    <2> QED BY <2>2, <2>3
  <1>11. ASSUME NEW r \in Runs, Throw(r) PROVE Polls'
    <2>1. /\ at' = [at EXCEPT ![r] = "idle"] /\ open' = open \ {r} /\ UNCHANGED <<webhook, offset, acked>>
          /\ at \in [Runs -> {"idle", "deciding", "answering"}] /\ at[r] # "idle"
      BY <1>11 DEF Throw, IInv, TypeOK
    <2>2. CASE webhook \/ r[1] \notin Updates
      <3>1. polling' = polling /\ batch' = batch BY <1>11, <2>2 DEF Throw
      <3>2. r[1] \notin Updates => open' = open BY <2>1 DEF IInv, TypeOK
      <3> QED BY <2>1, <2>2, <3>1, <3>2 DEF IInv, Polls
    <2>3. CASE ~webhook /\ r[1] \in Updates
      <3>1. r \in open BY <2>1, <2>3 DEF IInv, Polls
      <3>2. batch' = {} BY <1>11, <2>3 DEF Throw, Rest
      <3>3. open' = {}
        <4>1. \A q \in open : q[1] \in Updates /\ r[1] \in Updates /\ q[1] <= r[1] /\ r[1] <= q[1]
          BY <2>3, <3>1 DEF IInv, Polls, TypeOK
        <4>2. \A q \in open : q[1] = r[1] BY <4>1
        <4> QED BY <2>1, <3>1, <4>2 DEF IInv, Polls
      <3>5. \A u \in Updates, n \in Tries : at'[<<u, n>>] # "idle" => FALSE
        BY <2>1, <2>3, <3>3 DEF IInv, Polls
      <3> QED BY <2>1, <2>3, <3>2, <3>3, <3>5 DEF Polls
    <2> QED BY <2>2, <2>3
  <1>12. ASSUME NEW r \in Runs, DeliveryTimesOut(r) PROVE Polls'
    BY <1>12 DEF DeliveryTimesOut, Fails, rows, telegram, IInv, Polls, TypeOK, Paid, Waiting, Fresh
  <1>13. ASSUME NEW r \in Runs, AbortRun(r) PROVE Polls'
    BY <1>13 DEF AbortRun, telegram, IInv, Polls, TypeOK, Paid, Waiting, Fresh
  <1>14. ASSUME NEW r \in Runs, CrashDelegating(r) PROVE Polls'
    BY <1>14 DEF CrashDelegating, Restarted, Fails, Handled, IInv, Polls, TypeOK, Paid, Waiting, Fresh
  <1> QED BY <1>1, <1>2, <1>3, <1>4, <1>5, <1>6, <1>7, <1>8, <1>9, <1>10, <1>11, <1>12, <1>13, <1>14 DEF Next, Handler

\* Only the run of a key's row has work.
LEMMA KeysOnceKept ==
  ASSUME IInv, Next
  PROVE  KeysOnce'
  <1> USE KeysAreKeys, Pairs
  <1>1. ASSUME NEW k \in Keys, PostRun(k) PROVE KeysOnce'
    BY <1>1, OwedToKey, NewRuns DEF PostRun, Created, Keyed, NewRun, telegram, IInv, KeysOnce, HasWork, TypeOK
  <1>2. ASSUME NEW k \in Keys, CrashBeforeKey(k) PROVE KeysOnce'
    BY <1>2, OwedToKey, NewRuns DEF CrashBeforeKey, Restarted, Fails, Created, NewRun, Handled, IInv, KeysOnce, HasWork, TypeOK
  <1>3. CASE SendMessage
    BY <1>3 DEF SendMessage, rows, IInv, KeysOnce, HasWork, TypeOK
  <1>4. CASE Poll
    BY <1>4 DEF Poll, rows, IInv, KeysOnce, HasWork, TypeOK
  <1>5. CASE PollEnds
    BY <1>5 DEF PollEnds, rows, IInv, KeysOnce, HasWork, TypeOK
  <1>6. CASE Crash
    BY <1>6 DEF Crash, Restarted, Fails, rows, Handled, IInv, KeysOnce, HasWork, TypeOK
  <1>7. ASSUME NEW u \in Updates, InjectUpdate(u) \/ DeliverUpdate(u) PROVE KeysOnce'
    <2>1. Received(u) /\ made[u] <= failures BY <1>7, Owed DEF InjectUpdate, DeliverUpdate
    <2> QED BY <2>1, NewRuns DEF Received, Created, NewRun, telegram, IInv, KeysOnce, HasWork, TypeOK
  <1>8. ASSUME NEW r \in Runs, QueueRun(r) PROVE KeysOnce'
    BY <1>8 DEF QueueRun, telegram, IInv, KeysOnce, HasWork, TypeOK
  <1>9. ASSUME NEW r \in Runs, CompleteRun(r) PROVE KeysOnce'
    BY <1>9 DEF CompleteRun, Outcome, telegram, IInv, KeysOnce, HasWork, TypeOK
  <1>10. ASSUME NEW r \in Runs, Answer(r) PROVE KeysOnce'
    BY <1>10 DEF Answer, AnswerUpdate, Confirmed, rows, telegram, IInv, KeysOnce, HasWork, TypeOK
  <1>11. ASSUME NEW r \in Runs, Throw(r) PROVE KeysOnce'
    BY <1>11 DEF Throw, Fails, Rest, IInv, KeysOnce, HasWork, TypeOK
  <1>12. ASSUME NEW r \in Runs, DeliveryTimesOut(r) PROVE KeysOnce'
    BY <1>12 DEF DeliveryTimesOut, Fails, rows, telegram, IInv, KeysOnce, HasWork, TypeOK
  <1>13. ASSUME NEW r \in Runs, AbortRun(r) PROVE KeysOnce'
    BY <1>13 DEF AbortRun, telegram, IInv, KeysOnce, HasWork, TypeOK
  <1>14. ASSUME NEW r \in Runs, CrashDelegating(r) PROVE KeysOnce'
    BY <1>14 DEF CrashDelegating, Restarted, Fails, Handled, IInv, KeysOnce, HasWork, TypeOK
  <1> QED BY <1>1, <1>2, <1>3, <1>4, <1>5, <1>6, <1>7, <1>8, <1>9, <1>10, <1>11, <1>12, <1>13, <1>14 DEF Next, Handler

\* What is queued is served.
LEMMA ServedKept ==
  ASSUME IInv, Next
  PROVE  QueuedIsServed'
  <1> USE KeysAreKeys, Pairs
  <1>1. ASSUME NEW k \in Keys, PostRun(k) PROVE QueuedIsServed'
    BY <1>1, OwedToKey, NewRuns DEF PostRun, Created, Keyed, NewRun, telegram, IInv, QueuedIsServed, TypeOK
  <1>2. ASSUME NEW k \in Keys, CrashBeforeKey(k) PROVE QueuedIsServed'
    BY <1>2, OwedToKey, NewRuns DEF CrashBeforeKey, Restarted, Fails, Created, NewRun, Handled, IInv, QueuedIsServed, TypeOK
  <1>3. CASE SendMessage
    BY <1>3 DEF SendMessage, rows, IInv, QueuedIsServed, TypeOK
  <1>4. CASE Poll
    BY <1>4 DEF Poll, rows, IInv, QueuedIsServed, TypeOK
  <1>5. CASE PollEnds
    BY <1>5 DEF PollEnds, rows, IInv, QueuedIsServed, TypeOK
  <1>6. CASE Crash
    BY <1>6 DEF Crash, Restarted, Fails, rows, Handled, IInv, QueuedIsServed, TypeOK
  <1>7. ASSUME NEW u \in Updates, InjectUpdate(u) \/ DeliverUpdate(u) PROVE QueuedIsServed'
    <2>1. Received(u) /\ made[u] <= failures BY <1>7, Owed DEF InjectUpdate, DeliverUpdate
    <2> QED BY <2>1, NewRuns DEF Received, Created, NewRun, telegram, IInv, QueuedIsServed, TypeOK
  <1>8. ASSUME NEW r \in Runs, QueueRun(r) PROVE QueuedIsServed'
    BY <1>8 DEF QueueRun, telegram, IInv, QueuedIsServed, TypeOK
  <1>9. ASSUME NEW r \in Runs, CompleteRun(r) PROVE QueuedIsServed'
    BY <1>9 DEF CompleteRun, Outcome, telegram, IInv, QueuedIsServed, TypeOK
  <1>10. ASSUME NEW r \in Runs, Answer(r) PROVE QueuedIsServed'
    BY <1>10 DEF Answer, AnswerUpdate, Confirmed, rows, telegram, IInv, QueuedIsServed, TypeOK
  <1>11. ASSUME NEW r \in Runs, Throw(r) PROVE QueuedIsServed'
    BY <1>11 DEF Throw, Fails, Rest, IInv, QueuedIsServed, TypeOK
  <1>12. ASSUME NEW r \in Runs, DeliveryTimesOut(r) PROVE QueuedIsServed'
    BY <1>12 DEF DeliveryTimesOut, Fails, rows, telegram, IInv, QueuedIsServed, TypeOK
  <1>13. ASSUME NEW r \in Runs, AbortRun(r) PROVE QueuedIsServed'
    BY <1>13 DEF AbortRun, telegram, IInv, QueuedIsServed, TypeOK
  <1>14. ASSUME NEW r \in Runs, CrashDelegating(r) PROVE QueuedIsServed'
    BY <1>14 DEF CrashDelegating, Restarted, Fails, Handled, IInv, QueuedIsServed, TypeOK
  <1> QED BY <1>1, <1>2, <1>3, <1>4, <1>5, <1>6, <1>7, <1>8, <1>9, <1>10, <1>11, <1>12, <1>13, <1>14 DEF Next, Handler

\* Answers are there.
LEMMA RepliesKept ==
  ASSUME IInv, Next
  PROVE  Replies'
  <1> USE KeysAreKeys, Pairs
  <1>1. ASSUME NEW k \in Keys, PostRun(k) PROVE Replies'
    BY <1>1, OwedToKey, NewRuns DEF PostRun, Created, Keyed, NewRun, telegram, IInv, Replies, TypeOK
  <1>2. ASSUME NEW k \in Keys, CrashBeforeKey(k) PROVE Replies'
    BY <1>2, OwedToKey, NewRuns DEF CrashBeforeKey, Restarted, Fails, Created, NewRun, Handled, IInv, Replies, TypeOK
  <1>3. CASE SendMessage
    BY <1>3 DEF SendMessage, rows, IInv, Replies, TypeOK
  <1>4. CASE Poll
    BY <1>4 DEF Poll, rows, IInv, Replies, TypeOK
  <1>5. CASE PollEnds
    BY <1>5 DEF PollEnds, rows, IInv, Replies, TypeOK
  <1>6. CASE Crash
    BY <1>6 DEF Crash, Restarted, Fails, rows, Handled, IInv, Replies, TypeOK
  <1>7. ASSUME NEW u \in Updates, InjectUpdate(u) \/ DeliverUpdate(u) PROVE Replies'
    <2>1. Received(u) /\ made[u] <= failures BY <1>7, Owed DEF InjectUpdate, DeliverUpdate
    <2> QED BY <2>1, NewRuns DEF Received, Created, NewRun, telegram, IInv, Replies, TypeOK
  <1>8. ASSUME NEW r \in Runs, QueueRun(r) PROVE Replies'
    BY <1>8 DEF QueueRun, telegram, IInv, Replies, TypeOK
  <1>9. ASSUME NEW r \in Runs, CompleteRun(r) PROVE Replies'
    BY <1>9 DEF CompleteRun, Outcome, telegram, IInv, Replies, TypeOK
  <1>10. ASSUME NEW r \in Runs, Answer(r) PROVE Replies'
    BY <1>10 DEF Answer, AnswerUpdate, Confirmed, rows, telegram, IInv, Replies, TypeOK
  <1>11. ASSUME NEW r \in Runs, Throw(r) PROVE Replies'
    BY <1>11 DEF Throw, Fails, Rest, IInv, Replies, TypeOK
  <1>12. ASSUME NEW r \in Runs, DeliveryTimesOut(r) PROVE Replies'
    BY <1>12 DEF DeliveryTimesOut, Fails, rows, telegram, IInv, Replies, TypeOK
  <1>13. ASSUME NEW r \in Runs, AbortRun(r) PROVE Replies'
    BY <1>13 DEF AbortRun, telegram, IInv, Replies, TypeOK
  <1>14. ASSUME NEW r \in Runs, CrashDelegating(r) PROVE Replies'
    BY <1>14 DEF CrashDelegating, Restarted, Fails, Handled, IInv, Replies, TypeOK
  <1> QED BY <1>1, <1>2, <1>3, <1>4, <1>5, <1>6, <1>7, <1>8, <1>9, <1>10, <1>11, <1>12, <1>13, <1>14 DEF Next, Handler

\* No step takes anything from a run.
LEMMA KeepsKept ==
  ASSUME IInv, Next
  PROVE  Keeps
  <1> USE KeysAreKeys, Pairs
  <1>1. ASSUME NEW k \in Keys, PostRun(k) PROVE Keeps
    BY <1>1, OwedToKey, NewRuns DEF PostRun, Created, Keyed, NewRun, telegram, IInv, Keeps, TypeOK, Fresh
  <1>2. ASSUME NEW k \in Keys, CrashBeforeKey(k) PROVE Keeps
    BY <1>2, OwedToKey, NewRuns DEF CrashBeforeKey, Restarted, Fails, Created, NewRun, Handled, IInv, Keeps, TypeOK, Fresh
  <1>3. CASE SendMessage
    BY <1>3 DEF SendMessage, rows, IInv, Keeps, TypeOK, Fresh
  <1>4. CASE Poll
    BY <1>4 DEF Poll, rows, IInv, Keeps, TypeOK, Fresh
  <1>5. CASE PollEnds
    BY <1>5 DEF PollEnds, rows, IInv, Keeps, TypeOK, Fresh
  <1>6. CASE Crash
    BY <1>6 DEF Crash, Restarted, Fails, rows, Handled, IInv, Keeps, TypeOK, Fresh
  <1>7. ASSUME NEW u \in Updates, InjectUpdate(u) \/ DeliverUpdate(u) PROVE Keeps
    <2>1. Received(u) /\ made[u] <= failures BY <1>7, Owed DEF InjectUpdate, DeliverUpdate
    <2> QED BY <2>1, NewRuns DEF Received, Created, NewRun, telegram, IInv, Keeps, TypeOK, Fresh
  <1>8. ASSUME NEW r \in Runs, QueueRun(r) PROVE Keeps
    BY <1>8 DEF QueueRun, telegram, IInv, Keeps, TypeOK, Fresh
  <1>9. ASSUME NEW r \in Runs, CompleteRun(r) PROVE Keeps
    BY <1>9 DEF CompleteRun, Outcome, telegram, IInv, Keeps, TypeOK, Fresh
  <1>10. ASSUME NEW r \in Runs, Answer(r) PROVE Keeps
    BY <1>10 DEF Answer, AnswerUpdate, Confirmed, rows, telegram, IInv, Keeps, TypeOK, Fresh
  <1>11. ASSUME NEW r \in Runs, Throw(r) PROVE Keeps
    BY <1>11 DEF Throw, Fails, Rest, IInv, Keeps, TypeOK, Fresh
  <1>12. ASSUME NEW r \in Runs, DeliveryTimesOut(r) PROVE Keeps
    BY <1>12 DEF DeliveryTimesOut, Fails, rows, telegram, IInv, Keeps, TypeOK, Fresh
  <1>13. ASSUME NEW r \in Runs, AbortRun(r) PROVE Keeps
    <2>1. made \in [Requests -> 0..MaxFailures + 1] BY DEF IInv, TypeOK
    <2>2. UNCHANGED <<made, item>> BY <1>13 DEF AbortRun
    <2>3. \A q \in Runs : status[q] = "completed" => status'[q] = "completed"
      BY <1>13 DEF AbortRun, IInv, TypeOK
    <2>4. \A s \in Requests : made'[s] \in Nat /\ made'[s] >= made[s] BY <2>1, <2>2
    <2> QED BY <2>2, <2>3, <2>4 DEF Keeps
  <1>14. ASSUME NEW r \in Runs, CrashDelegating(r) PROVE Keeps
    BY <1>14 DEF CrashDelegating, Restarted, Fails, Handled, IInv, Keeps, TypeOK, Fresh
  <1> QED BY <1>1, <1>2, <1>3, <1>4, <1>5, <1>6, <1>7, <1>8, <1>9, <1>10, <1>11, <1>12, <1>13, <1>14 DEF Next, Handler

\* Types are kept.
LEMMA TypesKept ==
  ASSUME IInv, Next
  PROVE  TypeOK'
  <1> USE KeysAreKeys, Pairs
  <1>1. ASSUME NEW k \in Keys, PostRun(k) PROVE TypeOK'
    BY <1>1, OwedToKey, NewRuns DEF PostRun, Created, Keyed, NewRun, telegram, IInv, TypeOK, Paid
  <1>2. ASSUME NEW k \in Keys, CrashBeforeKey(k) PROVE TypeOK'
    <2>1. made' \in [Requests -> 0..MaxFailures + 1] /\ status' \in [Runs -> {"none", "queued", "completed", "aborted"}]
          /\ item' \in [Runs -> BOOLEAN] /\ keyed' \in [Keys -> 0..MaxFailures + 1]
      BY <1>2, OwedToKey, NewRuns DEF CrashBeforeKey, Created, NewRun, IInv, TypeOK
    <2>2. delegated' \in [Runs -> BOOLEAN] BY <1>2 DEF CrashBeforeKey, IInv, TypeOK
    <2>3. Restarted /\ dropped' \subseteq Runs BY <1>2, OwedToKey, NewRuns DEF CrashBeforeKey, Handled, IInv, TypeOK
    <2>4. /\ at' \in [Runs -> {"idle", "deciding", "answering"}] /\ open' = {} /\ batch' = {}
          /\ offset' = 0 /\ polling' = FALSE /\ UNCHANGED <<webhook, sent, acked, aborts>>
          /\ failures' \in 0..MaxFailures
      BY <2>3 DEF Restarted, Fails, IInv, TypeOK
    <2> QED BY <2>1, <2>2, <2>3, <2>4 DEF IInv, TypeOK
  <1>3. CASE SendMessage
    BY <1>3 DEF SendMessage, rows, IInv, TypeOK, Paid
  <1>4. CASE Poll
    BY <1>4 DEF Poll, rows, IInv, TypeOK, Paid
  <1>5. CASE PollEnds
    BY <1>5 DEF PollEnds, rows, IInv, TypeOK, Paid
  <1>6. CASE Crash
    <2>1. made' \in [Requests -> 0..MaxFailures + 1] /\ status' \in [Runs -> {"none", "queued", "completed", "aborted"}]
          /\ item' \in [Runs -> BOOLEAN] /\ keyed' \in [Keys -> 0..MaxFailures + 1]
      BY <1>6 DEF Crash, rows, IInv, TypeOK
    <2>2. delegated' \in [Runs -> BOOLEAN] BY <1>6 DEF Crash, rows, IInv, TypeOK
    <2>3. Restarted /\ dropped' \subseteq Runs BY <1>6 DEF Crash, Handled, IInv, TypeOK
    <2>4. /\ at' \in [Runs -> {"idle", "deciding", "answering"}] /\ open' = {} /\ batch' = {}
          /\ offset' = 0 /\ polling' = FALSE /\ UNCHANGED <<webhook, sent, acked, aborts>>
          /\ failures' \in 0..MaxFailures
      BY <2>3 DEF Restarted, Fails, IInv, TypeOK
    <2> QED BY <2>1, <2>2, <2>3, <2>4 DEF IInv, TypeOK
  <1>7. ASSUME NEW u \in Updates, InjectUpdate(u) \/ DeliverUpdate(u) PROVE TypeOK'
    <2>1. Received(u) /\ made[u] <= failures BY <1>7, Owed DEF InjectUpdate, DeliverUpdate
    <2> QED BY <2>1, NewRuns DEF Received, Created, NewRun, telegram, IInv, TypeOK, Paid
  <1>8. ASSUME NEW r \in Runs, QueueRun(r) PROVE TypeOK'
    BY <1>8 DEF QueueRun, telegram, IInv, TypeOK, Paid
  <1>9. ASSUME NEW r \in Runs, CompleteRun(r) PROVE TypeOK'
    BY <1>9 DEF CompleteRun, Outcome, telegram, IInv, TypeOK, Paid
  <1>10. ASSUME NEW r \in Runs, Answer(r) PROVE TypeOK'
    BY <1>10 DEF Answer, AnswerUpdate, Confirmed, rows, telegram, IInv, TypeOK, Paid
  <1>11. ASSUME NEW r \in Runs, Throw(r) PROVE TypeOK'
    <2>1. delegated' \in [Runs -> BOOLEAN]
      <3>1. delegated \in [Runs -> BOOLEAN] BY DEF IInv, TypeOK
      <3>2. delegated' \in {delegated, [delegated EXCEPT ![r] = (at[r] = "deciding") \/ @]}
        BY <1>11 DEF Throw
      <3> QED BY <3>1, <3>2, Zenon
    <2>2. at' \in [Runs -> {"idle", "deciding", "answering"}] /\ failures' \in 0..MaxFailures
          /\ dropped' \subseteq Runs /\ open' \subseteq Updates \X Tries
      BY <1>11 DEF Throw, Fails, IInv, TypeOK
    <2>3. polling' \in BOOLEAN /\ batch' \subseteq Updates
      BY <1>11 DEF Throw, Rest, IInv, TypeOK
    <2>4. UNCHANGED <<made, status, item, keyed, webhook, sent, acked, offset, aborts>>
      BY <1>11 DEF Throw, Fails
    <2> QED BY <2>1, <2>2, <2>3, <2>4 DEF IInv, TypeOK
  <1>12. ASSUME NEW r \in Runs, DeliveryTimesOut(r) PROVE TypeOK'
    BY <1>12 DEF DeliveryTimesOut, Fails, rows, telegram, IInv, TypeOK, Paid
  <1>13. ASSUME NEW r \in Runs, AbortRun(r) PROVE TypeOK'
    BY <1>13 DEF AbortRun, telegram, IInv, TypeOK, Paid
  <1>14. ASSUME NEW r \in Runs, CrashDelegating(r) PROVE TypeOK'
    <2>1. made' \in [Requests -> 0..MaxFailures + 1] /\ status' \in [Runs -> {"none", "queued", "completed", "aborted"}]
          /\ item' \in [Runs -> BOOLEAN] /\ keyed' \in [Keys -> 0..MaxFailures + 1]
      BY <1>14 DEF CrashDelegating, IInv, TypeOK
    <2>2. delegated' \in [Runs -> BOOLEAN] BY <1>14 DEF CrashDelegating, IInv, TypeOK
    <2>3. Restarted /\ dropped' \subseteq Runs BY <1>14 DEF CrashDelegating, Handled, IInv, TypeOK
    <2>4. /\ at' \in [Runs -> {"idle", "deciding", "answering"}] /\ open' = {} /\ batch' = {}
          /\ offset' = 0 /\ polling' = FALSE /\ UNCHANGED <<webhook, sent, acked, aborts>>
          /\ failures' \in 0..MaxFailures
      BY <2>3 DEF Restarted, Fails, IInv, TypeOK
    <2> QED BY <2>1, <2>2, <2>3, <2>4 DEF IInv, TypeOK
  <1> QED BY <1>1, <1>2, <1>3, <1>4, <1>5, <1>6, <1>7, <1>8, <1>9, <1>10, <1>11, <1>12, <1>13, <1>14 DEF Next, Handler

\* What is answered stays so.
LEMMA StaysAnswered ==
  ASSUME IInv, Next
  PROVE  \A u \in Updates : Answered(u) => Answered(u)'
  BY KeepsKept, KeepsAnswered, KeysAreKeys DEF IInv

\* A handler that is about to answer has an answer.
LEMMA AnswersAreThere ==
  ASSUME IInv, NEW u \in Updates, NEW n \in Tries, at[<<u, n>>] = "answering"
  PROVE  Answered(u)
  <1>1. item[<<u, n>>] \/ status[<<u, n>>] = "completed" BY KeysAreKeys DEF IInv, Replies
  <1>2. n <= made[u] /\ made[u] \in Nat BY KeysAreKeys DEF IInv, Fresh, TypeOK
  <1> QED BY <1>1, <1>2 DEF Answered

\* Steps that neither receive, confirm nor fetch updates.
Elsewhere ==
  /\ UNCHANGED <<webhook, acked>>
  /\ offset' \in {offset, 0} /\ batch' \in {batch, {}}
  /\ \A u \in Updates : made'[u] = made[u]

\* They keep the order.
LEMMA OrderElsewhere ==
  ASSUME IInv, Next, Elsewhere
  PROVE  AnsweredInOrder' /\ BatchInOrder'
  <1>1. AnsweredInOrder'
    BY StaysAnswered DEF IInv, AnsweredInOrder, Elsewhere
  <1>2. BatchInOrder'
    BY StaysAnswered DEF IInv, BatchInOrder, Elsewhere
  <1> QED BY <1>1, <1>2

\* Most steps are such.
LEMMA MostElsewhere ==
  ASSUME IInv,
         \/ SendMessage \/ PollEnds \/ Crash
         \/ \E k \in Keys : PostRun(k) \/ CrashBeforeKey(k)
         \/ \E r \in Runs : \/ QueueRun(r) \/ CompleteRun(r) \/ Throw(r) \/ DeliveryTimesOut(r)
                            \/ AbortRun(r) \/ CrashDelegating(r)
  PROVE  Elsewhere
  <1> USE KeysAreKeys
  <1>0. made \in [Requests -> 0..MaxFailures + 1] BY DEF IInv, TypeOK
  <1>1. CASE SendMessage BY <1>1 DEF SendMessage, Elsewhere, rows
  <1>2. CASE PollEnds BY <1>2 DEF PollEnds, Elsewhere, rows
  <1>3. CASE Crash BY <1>3 DEF Crash, Restarted, Elsewhere, rows
  <1>4. ASSUME NEW k \in Keys, PostRun(k) PROVE Elsewhere
    BY <1>0, <1>4 DEF PostRun, Created, Elsewhere, telegram
  <1>5. ASSUME NEW k \in Keys, CrashBeforeKey(k) PROVE Elsewhere
    BY <1>0, <1>5 DEF CrashBeforeKey, Created, Restarted, Elsewhere
  <1>6. ASSUME NEW r \in Runs, QueueRun(r) PROVE Elsewhere
    BY <1>6 DEF QueueRun, Elsewhere, telegram
  <1>7. ASSUME NEW r \in Runs, CompleteRun(r) PROVE Elsewhere
    BY <1>7 DEF CompleteRun, Elsewhere, telegram
  <1>8. ASSUME NEW r \in Runs, Throw(r) PROVE Elsewhere
    BY <1>8 DEF Throw, Rest, Elsewhere
  <1>9. ASSUME NEW r \in Runs, DeliveryTimesOut(r) PROVE Elsewhere
    BY <1>9 DEF DeliveryTimesOut, Elsewhere, telegram, rows
  <1>10. ASSUME NEW r \in Runs, AbortRun(r) PROVE Elsewhere
    BY <1>10 DEF AbortRun, Elsewhere, telegram
  <1>11. ASSUME NEW r \in Runs, CrashDelegating(r) PROVE Elsewhere
    BY <1>11 DEF CrashDelegating, Restarted, Elsewhere
  <1> QED BY <1>1, <1>2, <1>3, <1>4, <1>5, <1>6, <1>7, <1>8, <1>9, <1>10, <1>11

\* A poll leaves behind only what the offset left behind.
LEMMA PollOrder ==
  ASSUME IInv, Next, Poll
  PROVE  AnsweredInOrder' /\ BatchInOrder'
  <1>1. /\ acked' = acked \cup {u \in Updates : u < offset}
        /\ batch' = {u \in Updates : u <= sent} \ acked'
        /\ UNCHANGED <<made, webhook, offset, sent>>
    BY DEF Poll, rows
  <1>2. AnsweredInOrder'
    BY <1>1, StaysAnswered DEF IInv, AnsweredInOrder
  <1>3. \A u \in Updates, v \in batch' : u < v /\ u \notin batch' => u \in acked'
    BY <1>1 DEF IInv, TypeOK
  <1>4. BatchInOrder' BY <1>1, <1>2, <1>3 DEF BatchInOrder, AnsweredInOrder
  <1> QED BY <1>2, <1>4

\* An update is received when those before it were answered.
LEMMA ReceiveOrder ==
  ASSUME IInv, Next, NEW u \in Updates, InjectUpdate(u) \/ DeliverUpdate(u)
  PROVE  AnsweredInOrder' /\ BatchInOrder'
  <1>1. Received(u) BY DEF InjectUpdate, DeliverUpdate
  <1>2. /\ UNCHANGED <<webhook, acked, offset, batch>> /\ made' = [made EXCEPT ![u] = @ + 1]
        /\ made \in [Requests -> 0..MaxFailures + 1]
    BY <1>1 DEF Received, Created, telegram, IInv, TypeOK
  <1>3. BatchInOrder' BY <1>2, StaysAnswered DEF IInv, BatchInOrder
  <1>4. ~webhook => u \in batch /\ \A v \in batch : u <= v BY DEF InjectUpdate, DeliverUpdate
  <1>5. ~webhook => \A w \in Updates : w < u => Answered(w)
    BY <1>4 DEF IInv, BatchInOrder
  <1>6. \A v \in Updates : v # u => made'[v] = made[v] BY <1>2, KeysAreKeys
  <1>7. ASSUME NEW w \in Updates,
               w \in acked' \/ w < offset' \/ (~webhook' /\ \E v \in Updates : w < v /\ made'[v] > 0)
        PROVE  Answered(w)
    <2>1. CASE w \in acked \/ w < offset BY <2>1 DEF IInv, AnsweredInOrder
    <2>2. CASE ~webhook /\ \E v \in Updates : w < v /\ made'[v] > 0
      <3>1. PICK v \in Updates : w < v /\ made'[v] > 0 BY <2>2
      <3>2. CASE v = u BY <1>5, <2>2, <3>1, <3>2
      <3>3. CASE v # u BY <1>6, <2>2, <3>1, <3>3 DEF IInv, AnsweredInOrder
      <3> QED BY <3>2, <3>3
    <2> QED BY <1>2, <1>7, <2>1, <2>2
  <1>8. AnsweredInOrder' BY <1>7, StaysAnswered DEF AnsweredInOrder
  <1> QED BY <1>3, <1>8

\* An answer moves the offset past its update only.
LEMMA AnswerOrder ==
  ASSUME IInv, Next, NEW r \in Runs, Answer(r)
  PROVE  AnsweredInOrder' /\ BatchInOrder'
  <1> USE KeysAreKeys
  <1>0. UNCHANGED <<made, webhook>> /\ r = <<r[1], r[2]>> /\ r[2] \in Tries /\ at[r] = "answering"
    BY Pairs DEF Answer, AnswerUpdate, rows, telegram
  <1>1. CASE r[1] \notin Updates
    <2>1. Elsewhere BY <1>0, <1>1 DEF Answer, telegram, Elsewhere
    <2> QED BY <2>1, OrderElsewhere
  <1>2. CASE r[1] \in Updates /\ webhook
    <2>1. Answered(r[1]) BY <1>0, <1>2, AnswersAreThere
    <2>2. offset' = offset /\ batch' = batch /\ acked' \subseteq acked \cup {r[1]}
      BY <1>2 DEF Answer, AnswerUpdate
    <2>3. AnsweredInOrder' BY <1>0, <2>1, <2>2, StaysAnswered DEF IInv, AnsweredInOrder
    <2>4. BatchInOrder' BY <2>2, StaysAnswered DEF IInv, BatchInOrder
    <2> QED BY <2>3, <2>4
  <1>3. CASE r[1] \in Updates /\ ~webhook
    <2>1. Answered(r[1]) BY <1>0, <1>3, AnswersAreThere
    <2>2. r \in open /\ r[1] \in batch /\ \A v \in batch : r[1] <= v
      BY <1>0, <1>3 DEF IInv, Polls
    <2>3. /\ offset' = (IF offset > r[1] THEN offset ELSE r[1] + 1)
          /\ batch' = batch \ {r[1]} /\ acked' = acked
      BY <1>3, <2>2 DEF Answer, AnswerUpdate, Confirmed
    <2>4. \A w \in Updates : w < r[1] => Answered(w)
      BY <1>3, <2>2 DEF IInv, BatchInOrder
    <2>5. \A w \in Updates : w < offset' => w < offset \/ w < r[1] \/ w = r[1]
      BY <1>3, <2>3 DEF IInv, TypeOK
    <2>6. AnsweredInOrder'
      BY <1>0, <2>1, <2>3, <2>4, <2>5, StaysAnswered DEF IInv, AnsweredInOrder
    <2>7. BatchInOrder' BY <2>1, <2>3, StaysAnswered DEF IInv, BatchInOrder
    <2> QED BY <2>6, <2>7
  <1> QED BY <1>1, <1>2, <1>3

\* Every step keeps the order.
LEMMA OrderKept ==
  ASSUME IInv, Next
  PROVE  AnsweredInOrder' /\ BatchInOrder'
  <1>1. CASE Poll BY <1>1, PollOrder
  <1>2. ASSUME NEW u \in Updates, InjectUpdate(u) \/ DeliverUpdate(u)
        PROVE AnsweredInOrder' /\ BatchInOrder'
    BY <1>2, ReceiveOrder
  <1>3. ASSUME NEW r \in Runs, Answer(r) PROVE AnsweredInOrder' /\ BatchInOrder'
    BY <1>3, AnswerOrder
  <1>4. CASE \/ SendMessage \/ PollEnds \/ Crash
             \/ \E k \in Keys : PostRun(k) \/ CrashBeforeKey(k)
             \/ \E r \in Runs : \/ QueueRun(r) \/ CompleteRun(r) \/ Throw(r) \/ DeliveryTimesOut(r)
                                \/ AbortRun(r) \/ CrashDelegating(r)
    BY <1>4, MostElsewhere, OrderElsewhere
  <1> QED BY <1>1, <1>2, <1>3, <1>4 DEF Next, Handler

-----------------------------------------------------------------------------
(* The theorems.                                                           *)

\* The invariant holds.
LEMMA Invariance == Spec => []IInv
  <1>1. IInv /\ [Next]_vars => IInv'
    <2> SUFFICES ASSUME IInv, [Next]_vars PROVE IInv' OBVIOUS
    <2>1. CASE Next
      BY <2>1, TypesKept, FreshKept, PaidKept, PollsKept, KeysOnceKept, ServedKept, RepliesKept,
         OrderKept DEF IInv
    <2>2. CASE UNCHANGED vars
      BY <2>2 DEF vars, IInv, TypeOK, Fresh, Paid, Waiting, Polls, KeysOnce, HasWork,
         QueuedIsServed, Replies, BatchInOrder, Answered, AnsweredInOrder
    <2> QED BY <2>1, <2>2
  <1> QED BY InitInv, <1>1, PTL DEF Spec

\* The variables of RunIngress have their types.
THEOREM TypeCorrect == Spec => []TypeOK
  <1>1. IInv => TypeOK BY DEF IInv
  <1> QED BY Invariance, <1>1, PTL

\* Posting a key again, at the same time, after a crash or an exception, never
\* queues its work twice, and every further run of an update of Telegram is
\* paid for by a failure of its own.
THEOREM NothingIsRepeated == Spec => []WorkIsNotRepeated
  <1>1. IInv => WorkIsNotRepeated
    <2> SUFFICES ASSUME IInv PROVE WorkIsNotRepeated OBVIOUS
    <2>1. \A k \in Keys, n, m \in Tries : HasWork(<<k, n>>) /\ HasWork(<<k, m>>) => n = m
      BY DEF IInv, KeysOnce
    <2>2. \A u \in Updates : made[u] <= 1 + failures BY KeysAreKeys DEF IInv, Paid, TypeOK
    <2> QED BY <2>1, <2>2 DEF WorkIsNotRepeated
  <1> QED BY Invariance, <1>1, PTL

\* A run shown as queued is in the queue or at its handler, unless a crash or
\* an exception ended the handler.
THEOREM QueuedRunsAreServed == Spec => []QueuedIsServed
  <1>1. IInv => QueuedIsServed BY DEF IInv
  <1> QED BY Invariance, <1>1, PTL

\* Neither polling, its offset nor the webhook lose or overtake an update.
THEOREM UpdatesAreInOrder == Spec => []AnsweredInOrder
  <1>1. IInv => AnsweredInOrder BY DEF IInv
  <1> QED BY Invariance, <1>1, PTL

\* A key is given a run once, the one created then.
LEMMA KeyedOnce ==
  ASSUME IInv, Next
  PROVE  \A k \in Keys : keyed'[k] = keyed[k] \/ (keyed[k] = 0 /\ keyed'[k] = made'[k])
  <1>1. ASSUME NEW k \in Keys, PostRun(k)
        PROVE  \A j \in Keys : keyed'[j] = keyed[j] \/ (keyed[j] = 0 /\ keyed'[j] = made'[j])
    <2>1. keyed[k] = 0 /\ keyed' = [keyed EXCEPT ![k] = made[k] + 1] /\ made'[k] = made[k] + 1
      BY <1>1, KeysAreKeys DEF PostRun, Keyed, Created, IInv, TypeOK
    <2> QED BY <2>1 DEF IInv, TypeOK
  <1>2. CASE UNCHANGED keyed BY <1>2
  <1> QED
    BY <1>1, <1>2 DEF Next, CrashBeforeKey, SendMessage, Poll, PollEnds, Crash, InjectUpdate,
       DeliverUpdate, Received, Handler, QueueRun, CompleteRun, Answer, Throw,
       DeliveryTimesOut, AbortRun, CrashDelegating, rows

\* What a request was given is not taken back: its key keeps naming the same
\* run, with which posting it again is answered, and neither an abort nor a
\* late decision undoes an answer.
AnswersAreKept ==
  [][/\ \A k \in Keys : keyed[k] # 0 => keyed'[k] = keyed[k]
     /\ \A s \in Requests : Answered(s) => Answered(s)']_vars

\* No step gives a key another run, or takes an answer back.
THEOREM GivenIsGiven == Spec => AnswersAreKept
  <1>1. IInv /\ Next => \A k \in Keys : keyed[k] # 0 => keyed'[k] = keyed[k]
    BY KeyedOnce
  <1>2. IInv /\ Next => \A s \in Requests : Answered(s) => Answered(s)'
    BY KeepsKept, KeepsAnswered DEF IInv
  <1> QED BY <1>1, <1>2, Invariance, PTL DEF Spec, AnswersAreKept

\* The run a key is answered with was created, and it is the one that has the
\* work, if any run of the key does.
KeyNamesItsWork ==
  \A k \in Keys : /\ keyed[k] <= made[k]
                  /\ \A n \in Tries : HasWork(<<k, n>>) => n = keyed[k]

\* Posting a key again returns the run that works for it, not one that a
\* crash left behind between its creation and its key.
THEOREM KeysNameTheirWork == Spec => []KeyNamesItsWork
  <1> DEFINE Exist == \A k \in Keys : keyed[k] <= made[k]
  <1>1. Init => Exist BY KeysAreKeys DEF Init
  <1>2. IInv /\ IInv' /\ Exist /\ [Next]_vars => Exist'
    <2> SUFFICES ASSUME IInv, IInv', Exist, [Next]_vars, NEW k \in Keys PROVE keyed'[k] <= made'[k]
      OBVIOUS
    <2>1. made[k] \in Nat /\ made'[k] \in Nat /\ keyed[k] \in Nat /\ keyed[k] <= made[k]
      BY KeysAreKeys DEF IInv, TypeOK
    <2>2. CASE Next
      <3>1. made'[k] >= made[k] BY <2>2, KeepsKept, KeysAreKeys DEF Keeps
      <3>2. keyed'[k] = keyed[k] \/ keyed'[k] = made'[k] BY <2>2, KeyedOnce
      <3> QED BY <2>1, <3>1, <3>2
    <2>3. CASE UNCHANGED vars BY <2>1, <2>3 DEF vars
    <2> QED BY <2>2, <2>3
  <1>3. IInv /\ Exist => KeyNamesItsWork
    BY DEF IInv, KeysOnce, KeyNamesItsWork
  <1> QED BY <1>1, <1>2, <1>3, Invariance, PTL DEF Spec

=============================================================================
