------------------------------ MODULE MCBacklog ------------------------------
(* The instances of Backlog that are checked: the agent of each item and   *)
(* the dependencies at the start.                                          *)
EXTENDS Backlog

CONSTANTS i1, i2, i3, clone, solo

TargetMC    == [i \in Items |-> IF i = i3 THEN solo ELSE clone]
DependsOnMC == [i \in Items |-> IF i = i2 THEN {i1} \cap Items ELSE {}]

=============================================================================
