------------------------------ MODULE WorkQueue ------------------------------
(***************************************************************************)
(* What the gateway's durable queue promises to whoever enqueues a run,    *)
(* with nothing of leases, lanes, batches or timers in it:                 *)
(*   - at most one item of a session executes at any time;                 *)
(*   - an item that is not withdrawn stays waiting until it executes, and  *)
(*     an execution that does not settle it puts it back among the waiting;*)
(*   - a settled item never executes again;                                *)
(*   - an item leaves the queue unsettled only when somebody withdraws it. *)
(* QueueEngine implements Spec (QueueEngine!WQ).  The modules of what uses *)
(* the queue, which are coarser than a step of it, implement CallSpec.     *)
(***************************************************************************)

CONSTANTS
  Items,      (* the queue items that may ever be enqueued *)
  SessionOf   (* the conversation session of an item *)

VARIABLE phase  (* phase[i]: where item i is in its life *)

(* "orphan": still executing although its row was withdrawn meanwhile.     *)
Phases == {"none", "waiting", "executing", "orphan", "settled", "gone"}

TypeOK == phase \in [Items -> Phases]

Init == phase = [i \in Items |-> "none"]

-----------------------------------------------------------------------------
(* The steps of the queue, from phases p to phases q.                      *)

Busy(p, i) == p[i] \in {"executing", "orphan"}

(* An item begins only while no item of its session is executing.          *)
Free(p, i) == \A j \in Items : SessionOf[j] = SessionOf[i] => ~Busy(p, j)

Submit(p, q, i) == p[i] = "none" /\ q = [p EXCEPT ![i] = "waiting"]
Begin(p, q, i)  == p[i] = "waiting" /\ Free(p, i) /\ q = [p EXCEPT ![i] = "executing"]

(* An execution settles its item or hands it back for another attempt.     *)
End(p, q, i) ==
  \/ p[i] = "executing" /\ \E v \in {"settled", "waiting"} : q = [p EXCEPT ![i] = v]
  \/ p[i] = "orphan" /\ q = [p EXCEPT ![i] = "gone"]

(* The work of an item turned out to be done already.                      *)
SettleUnrun(p, q, i) == p[i] = "waiting" /\ q = [p EXCEPT ![i] = "settled"]

(* What a withdrawal and a crash do to an item in phase v.                 *)
Withdrawn(v) == IF v = "executing" THEN "orphan"
                ELSE IF v \in {"waiting", "settled"} THEN "gone" ELSE v
Interrupted(v) == IF v = "executing" THEN "waiting"
                  ELSE IF v = "orphan" THEN "gone" ELSE v

Without(p, S) == [i \in Items |-> IF i \in S THEN Withdrawn(p[i]) ELSE p[i]]
Restarted(p)  == [i \in Items |-> Interrupted(p[i])]

Withdraw(p, q) == \E S \in SUBSET Items : q = Without(p, S)

(* A crash interrupts every execution; no waiting or settled item is lost. *)
Crash(p, q) == q = Restarted(p)

Step(p, q) ==
  \/ \E i \in Items : \/ Submit(p, q, i) \/ Begin(p, q, i)
                      \/ End(p, q, i) \/ SettleUnrun(p, q, i)
  \/ Withdraw(p, q)
  \/ Crash(p, q)

Next == Step(phase, phase')

Spec == Init /\ [][Next]_phase

-----------------------------------------------------------------------------
(* The same queue at the grain of its clients, who do several things to it *)
(* between two awaits: a call withdraws some items, submits, begins or     *)
(* settles one, and may be cut short by a crash of the process.            *)

(* Where item i can go from p by itself.                                   *)
Onward(p, i) ==
  CASE p[i] = "none"      -> {"waiting"}
    [] p[i] = "waiting"   -> {"settled"} \cup {v \in {"executing"} : Free(p, i)}
    [] p[i] = "executing" -> {"settled", "waiting"}
    [] p[i] = "orphan"    -> {"gone"}
    [] OTHER              -> {}

Rows == {i \in Items : phase[i] \in {"waiting", "executing", "settled"}}

Call ==
  \E S \in SUBSET Rows, i \in Items, crash \in BOOLEAN :
    \E v \in Onward(Without(phase, S), i) \cup {Without(phase, S)[i]} :
      LET q == [Without(phase, S) EXCEPT ![i] = v]
      IN  phase' = IF crash THEN Restarted(q) ELSE q

CallSpec == Init /\ [][Call]_phase

-----------------------------------------------------------------------------
(* What the promises amount to.                                            *)

(* At most one item of a session executes.                                 *)
OneAtATime ==
  \A i, j \in Items : i # j /\ SessionOf[i] = SessionOf[j] => ~Busy(phase, i) \/ ~Busy(phase, j)

(* What is settled or gone never waits or executes again.                  *)
Over == {"settled", "gone"}
OverForGood == [][\A i \in Items : phase[i] \in Over => phase'[i] \in Over]_phase

(* An item in the queue leaves it by executing or by being withdrawn: it   *)
(* is never forgotten, so that it could be submitted a second time.        *)
NeverForgotten == [][\A i \in Items : phase[i] # "none" => phase'[i] # "none"]_phase

=============================================================================
