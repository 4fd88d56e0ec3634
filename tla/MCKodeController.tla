--------------------------- MODULE MCKodeController ---------------------------
(***************************************************************************)
(* Instances of the Kode controller for TLC: the specs a user submits.     *)
(***************************************************************************)
EXTENDS KodeController

Base == [cred |-> "c1", pod |-> "p1", size |-> "s1", storage |-> "managed",
         template |-> "t1", valid |-> TRUE]

MCTPort == [t1 |-> 8000, t2 |-> 8443]

OneSpec     == {Base}
Invalid     == {[Base EXCEPT !.valid = FALSE]}
ValidOrNot  == {Base, [Base EXCEPT !.valid = FALSE]}
AnyEdit     == {Base, [Base EXCEPT !.pod = "p2"], [Base EXCEPT !.size = "s2"]}
AnyField    == {Base, [Base EXCEPT !.cred = "c2"], [Base EXCEPT !.pod = "p2"],
                [Base EXCEPT !.template = "t2"], [Base EXCEPT !.valid = FALSE]}
Keep        == {[Base EXCEPT !.storage = "keep"]}
PodEdit     == {Base, [Base EXCEPT !.pod = "p2"]}
=============================================================================
