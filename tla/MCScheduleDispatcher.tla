------------------------ MODULE MCScheduleDispatcher ------------------------
(* The two policies that look for an active run.                           *)
EXTENDS ScheduleDispatcher
CONSTANTS daily, watch
MCPolicy == [s \in Schedules |-> IF s = daily THEN "skip" ELSE "replace"]
=============================================================================
