------------------------------ MODULE MCOperator ------------------------------
(***************************************************************************)
(* Instances of the whole operator for TLC.                                *)
(***************************************************************************)
EXTENDS Operator

Base == [cred |-> "c1", pod |-> "p1", size |-> "s1", storage |-> "none",
         template |-> "t1", valid |-> TRUE]

MCTPort == [t1 |-> 8000]

OneSpec == {Base}
PodEdit == {Base, [Base EXCEPT !.pod = "p2"]}
=============================================================================
