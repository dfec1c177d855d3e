----------------------------- MODULE RunIngress -----------------------------
(***************************************************************************)
(* How requests become runs: POST /api/sessions/:sessionId/runs with its   *)
(* idempotency keys (packages/gateway/src/server.ts, database.ts), and the *)
(* messages of Telegram, polled with an offset that lives in memory or     *)
(* delivered to a webhook (server.ts, pollTelegramIngress and              *)
(* /api/ingress/telegram).                                                 *)
(*                                                                         *)
(* Either handler creates a run, awaits the model's decision about         *)
(* delegation, and then queues the run, or completes it because others     *)
(* were queued in its place.  An action is what runs between two awaits.   *)
(* Clients that repeat a request, and Telegram, are the environment.       *)
(***************************************************************************)
EXTENDS Naturals, FiniteSets

CONSTANTS Keys,       \* idempotency keys clients use
          Sends,      \* bound: messages sent on Telegram
          MaxFailures, \* bound: crashes, exceptions and timeouts
          MaxAborts   \* bound: runs an operator aborts

ASSUME IngressAssumption ==
  /\ Sends \in Nat
  /\ MaxFailures \in Nat /\ MaxAborts \in Nat
  /\ Keys \cap 1..Sends = {}

Updates  == 1..Sends                         \* their update_id's
Requests == Keys \cup Updates
Tries    == 1..MaxFailures + 1
Runs     == Requests \X Tries                \* the n-th run created for a request

VARIABLES made,     \* request: how many runs were created for it
          status,   \* run: runs.status
          item,     \* run: it has a queue item
          delegated,\* run: others were queued in its place
          at,       \* run: where its handler is
          open,     \* runs of updates whose deliverer waits for the answer
          keyed,    \* key: the run of its row in idempotency_keys (0: none)
          webhook,  \* config.channel.telegram.useWebhook
          sent,     \* Telegram: updates 1..sent exist
          acked,    \* Telegram: updates it will not deliver again
          offset,   \* telegramPollingOffset
          polling,  \* telegramPollingInFlight
          batch,    \* poll: updates of its answer not handled yet
          failures, \* crashes, exceptions and timeouts so far
          aborts,   \* aborts so far
          dropped   \* history: runs whose handler a crash or an exception ended

rows     == <<made, status, item, delegated, keyed>>
telegram == <<webhook, sent, acked, offset, polling, batch>>
vars     == <<made, status, item, delegated, at, open, keyed, webhook, sent, acked,
              offset, polling, batch, failures, aborts, dropped>>

Init ==
  /\ made = [s \in Requests |-> 0]
  /\ status = [r \in Runs |-> "none"]
  /\ item = [r \in Runs |-> FALSE]
  /\ delegated = [r \in Runs |-> FALSE]
  /\ at = [r \in Runs |-> "idle"]
  /\ open = {}
  /\ keyed = [k \in Keys |-> 0]
  /\ webhook \in BOOLEAN
  /\ sent = 0 /\ acked = {}
  /\ offset = 0 /\ polling = FALSE /\ batch = {}
  /\ failures = 0 /\ aborts = 0 /\ dropped = {}

-----------------------------------------------------------------------------
(* Mutants: each is a mistake the code could make, against a definition    *)
(* below.                                                                  *)

KeyedLater(k, n) == keyed  (* Keyed: the key is recorded with the answer *)

ConfirmedAll(u) == sent + 1  (* Confirmed: the offset passes whatever was fetched *)

RestAfterFailure(u) ==  (* Rest: the poll goes on after an update that failed *)
  [going |-> TRUE, of |-> batch \ {u}]

OutcomeDelegated(r) ==  (* Outcome: a run that delegated stays queued *)
  IF status[r] = "aborted" THEN "completed" ELSE status[r]

-----------------------------------------------------------------------------

Latest(s) == <<s, made[s]>>
NewRun(s) == <<s, made[s] + 1>>

\* The request got what it asked for: its run was queued, or completed because
\* others do the work or nobody can.
Answered(s) == \E n \in 1..made[s] : item[<<s, n>>] \/ status[<<s, n>>] = "completed"

Fails == failures < MaxFailures /\ failures' = failures + 1 /\ UNCHANGED aborts

Created(s) ==
  /\ made' = [made EXCEPT ![s] = @ + 1]
  /\ status' = [status EXCEPT ![NewRun(s)] = "queued"]

-----------------------------------------------------------------------------
(* Requests with an idempotency key.                                       *)

\* persistIdempotencyKey
Keyed(k, n) == [keyed EXCEPT ![k] = n]

\* Up to the await.  A request whose key has a run gets that run back.
PostRun(k) ==
  /\ keyed[k] = 0
  /\ Created(k)
  /\ keyed' = Keyed(k, made[k] + 1)
  /\ at' = [at EXCEPT ![NewRun(k)] = "deciding"]
  /\ UNCHANGED <<item, delegated, open, telegram, failures, aborts, dropped>>

-----------------------------------------------------------------------------
(* Updates of Telegram.                                                    *)

SendMessage ==
  /\ sent + 1 \in Updates
  /\ sent' = sent + 1
  /\ UNCHANGED <<rows, at, open, webhook, acked, offset, polling, batch, failures, aborts, dropped>>

\* A message becomes a run; nothing tells whether its update was seen before.
Received(u) ==
  /\ Created(u)
  /\ at' = [at EXCEPT ![NewRun(u)] = "deciding"]
  /\ open' = open \cup {NewRun(u)}
  /\ UNCHANGED <<item, delegated, keyed, telegram, failures, aborts, dropped>>

Waiting(u) == \E r \in open : r[1] = u   \* somebody waits for the answer to u

\* getUpdates: the offset confirms all updates before it, the answer holds
\* the others.
Poll ==
  /\ ~webhook /\ ~polling
  /\ acked' = acked \cup {u \in Updates : u < offset}
  /\ batch' = {u \in Updates : u <= sent} \ acked'
  /\ polling' = TRUE
  /\ UNCHANGED <<rows, at, open, webhook, sent, offset, failures, aborts, dropped>>

InjectUpdate(u) ==
  /\ polling /\ u \in batch /\ \A v \in batch : u <= v
  /\ ~Waiting(u)
  /\ Received(u)

PollEnds ==
  /\ polling /\ batch = {}
  /\ polling' = FALSE
  /\ UNCHANGED <<rows, at, open, webhook, sent, acked, offset, batch, failures, aborts, dropped>>

\* Telegram delivers an update until it is told 200, and gives up waiting.
DeliverUpdate(u) ==
  /\ webhook /\ u <= sent /\ u \notin acked /\ ~Waiting(u)
  /\ Received(u)

DeliveryTimesOut(r) ==
  /\ webhook /\ r \in open /\ Fails
  /\ open' = open \ {r}
  /\ UNCHANGED <<rows, at, telegram, dropped>>

-----------------------------------------------------------------------------
(* After the await, either handler.                                        *)

\* orchestration.status is direct.
QueueRun(r) ==
  /\ at[r] = "deciding"
  /\ item' = [item EXCEPT ![r] = TRUE]
  /\ at' = [at EXCEPT ![r] = "answering"]
  /\ UNCHANGED <<made, status, delegated, keyed, open, telegram, failures, aborts, dropped>>

\* It is not: updateRunStatus, whatever the status is by now.  Awaits follow
\* before the answer.
Outcome(r) == "completed"

CompleteRun(r) ==
  /\ at[r] = "deciding"
  /\ delegated' \in {delegated, [delegated EXCEPT ![r] = TRUE]}
  /\ status' = [status EXCEPT ![r] = Outcome(r)]
  /\ at' = [at EXCEPT ![r] = "answering"]
  /\ UNCHANGED <<made, item, keyed, open, telegram, failures, aborts, dropped>>

\* telegramPollingOffset after update u was handled.
Confirmed(u) == IF offset > u THEN offset ELSE u + 1

AnswerUpdate(r, u) ==
  /\ open' = open \ {r}
  /\ offset' = IF ~webhook /\ r \in open THEN Confirmed(u) ELSE offset
  /\ batch' = IF ~webhook /\ r \in open THEN batch \ {u} ELSE batch
  /\ acked' = IF webhook /\ r \in open THEN acked \cup {u} ELSE acked
  /\ UNCHANGED <<webhook, sent, polling>>

Answer(r) ==
  /\ at[r] = "answering"
  /\ at' = [at EXCEPT ![r] = "idle"]
  /\ IF r[1] \in Updates THEN AnswerUpdate(r, r[1]) ELSE UNCHANGED <<open, telegram>>
  /\ UNCHANGED <<rows, failures, aborts, dropped>>

\* What a poll does after an update it got a 5xx for.
Rest(u) == [going |-> FALSE, of |-> {}]

\* The decision, a delegation after others were queued, or what follows the
\* completion throws.
Throw(r) ==
  /\ at[r] = "deciding" \/ (at[r] = "answering" /\ ~item[r])
  /\ Fails
  /\ at' = [at EXCEPT ![r] = "idle"]
  /\ dropped' = dropped \cup {r}
  /\ delegated' \in {delegated, [delegated EXCEPT ![r] = (at[r] = "deciding") \/ @]}
  /\ open' = open \ {r}
  /\ IF r[1] \in Updates /\ ~webhook
     THEN polling' = Rest(r[1]).going /\ batch' = Rest(r[1]).of
     ELSE UNCHANGED <<polling, batch>>
  /\ UNCHANGED <<made, status, item, keyed, webhook, sent, acked, offset>>

-----------------------------------------------------------------------------
(* The operator, and the end of the process.  What becomes of a queue item *)
(* is QueueEngine's.                                                       *)

AbortRun(r) ==
  /\ status[r] = "queued"
  /\ aborts < MaxAborts /\ aborts' = aborts + 1
  /\ status' = [status EXCEPT ![r] = "aborted"]
  /\ UNCHANGED <<made, item, delegated, keyed, at, open, telegram, failures, dropped>>

\* The process ends and starts again: handlers, poll and offset are gone.
Restarted ==
  /\ Fails
  /\ at' = [r \in Runs |-> "idle"]
  /\ open' = {}
  /\ offset' = 0 /\ polling' = FALSE /\ batch' = {}
  /\ UNCHANGED <<webhook, sent, acked>>

Handled == {r \in Runs : at[r] # "idle"}

Crash ==
  /\ Restarted
  /\ dropped' = dropped \cup Handled
  /\ UNCHANGED rows

\* Between createRun and persistIdempotencyKey.
CrashBeforeKey(k) ==
  /\ keyed[k] = 0
  /\ Restarted
  /\ Created(k)
  /\ dropped' = dropped \cup Handled \cup {NewRun(k)}
  /\ UNCHANGED <<item, delegated, keyed>>

\* Between the delegations and the status.
CrashDelegating(r) ==
  /\ at[r] = "deciding"
  /\ Restarted
  /\ delegated' = [delegated EXCEPT ![r] = TRUE]
  /\ dropped' = dropped \cup Handled
  /\ UNCHANGED <<made, status, item, keyed>>

-----------------------------------------------------------------------------

Handler(r) == QueueRun(r) \/ CompleteRun(r) \/ Answer(r)

Next ==
  \/ \E k \in Keys : PostRun(k) \/ CrashBeforeKey(k)
  \/ SendMessage \/ Poll \/ PollEnds \/ Crash
  \/ \E u \in Updates : InjectUpdate(u) \/ DeliverUpdate(u)
  \/ \E r \in Runs : Handler(r) \/ Throw(r) \/ DeliveryTimesOut(r) \/ AbortRun(r)
                     \/ CrashDelegating(r)

\* The timer polls every 2.5 s, a handler's awaits end, and Telegram goes on
\* delivering.
Fairness ==
  /\ WF_vars(Poll \/ PollEnds)
  /\ \A u \in Updates : WF_vars(InjectUpdate(u)) /\ WF_vars(DeliverUpdate(u))
  /\ \A r \in Runs : WF_vars(Handler(r))

Spec == Init /\ [][Next]_vars /\ Fairness

-----------------------------------------------------------------------------
(* Properties.                                                             *)

\* The variables have their types.
TypeOK ==
  /\ made \in [Requests -> 0..MaxFailures + 1]
  /\ status \in [Runs -> {"none", "queued", "completed", "aborted"}]
  /\ item \in [Runs -> BOOLEAN]
  /\ delegated \in [Runs -> BOOLEAN]
  /\ at \in [Runs -> {"idle", "deciding", "answering"}]
  /\ open \subseteq Updates \X Tries
  /\ keyed \in [Keys -> 0..MaxFailures + 1]
  /\ webhook \in BOOLEAN /\ polling \in BOOLEAN
  /\ sent \in 0..Sends
  /\ acked \subseteq Updates /\ batch \subseteq Updates
  /\ offset \in Nat
  /\ failures \in 0..MaxFailures /\ aborts \in 0..MaxAborts
  /\ dropped \subseteq Runs

\* Work was queued for the run, its own or that of others.
HasWork(r) == item[r] \/ delegated[r]

\* Work is not queued twice for one request: never for a key, whatever is
\* repeated, interrupted or tried at the same time, and for an update of
\* Telegram only after a crash, an exception or a delivery that timed out, one
\* of them for each repetition.
WorkIsNotRepeated ==
  /\ \A k \in Keys, n, m \in Tries :
       HasWork(<<k, n>>) /\ HasWork(<<k, m>>) => n = m
  /\ \A u \in Updates : made[u] <= 1 + failures

\* A run the operator sees as queued is in the queue or about to be decided
\* on, unless a crash or an exception ended its handler; then nothing queues
\* it any more, and a request repeated with its key is given it back.
QueuedIsServed ==
  \A r \in Runs :
    status[r] = "queued" => at[r] = "deciding" \/ item[r] \/ r \in dropped

\* No update is lost or overtaken: one that Telegram or the offset has left
\* behind, and one before another that a poll handed over, got its answer.
AnsweredInOrder ==
  \A u \in Updates :
    (u \in acked \/ u < offset \/ (~webhook /\ \E v \in Updates : u < v /\ made[v] > 0))
      => Answered(u)

\* Whatever crashes, throws and times out, the updates sent get answered.
EveryUpdateIsAnswered == \A u \in Updates : sent >= u ~> Answered(u)

=============================================================================
