---------------------------- MODULE MCQueueEngine ----------------------------
(* Instances of QueueEngine for TLC. *)
EXTENDS QueueEngine, TLC

CONSTANTS i1, i2, i3, sA, sB

(* Mixed lanes: two items of one session on two lanes, and an item of      *)
(* another session that competes with the first for the default lane.      *)
MixedSessionOf == [i \in Items |-> IF i = i3 THEN sB ELSE sA]
MixedLaneOf == [i \in Items |-> IF i = i2 THEN "critical" ELSE "default"]
MixedPriority == [i \in Items |-> IF i = i2 THEN 1 ELSE 2]
MixedConcurrency == "default" :> 1 @@ "critical" :> 1
MixedLaneOrder == <<"default", "critical">>

(* One lane: every item on the default lane, served in order of arrival.   *)
OneLaneOf == [i \in Items |-> "default"]
OnePriority == [i \in Items |-> 1]
OneLaneOrder == <<"default">>
TwoSlots == "default" :> 2
SharedSessionOf == [i \in Items |-> sA]
=============================================================================
