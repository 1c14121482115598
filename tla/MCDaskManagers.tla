--------------------------- MODULE MCDaskManagers ---------------------------
(***************************************************************************)
(* Two managers for TLC: one cluster with policies and without a notebook. *)
(* Its eight children are enough for the two to overtake each other inside *)
(* a group and between groups.                                             *)
(***************************************************************************)
EXTENDS DaskManagers

OneSpec == {[jupyter |-> FALSE, policies |-> TRUE, ingress |-> FALSE,
             replicas |-> 1, broken |-> {}]}
=============================================================================
