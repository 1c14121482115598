--------------------------- MODULE MCDaskOperator ---------------------------
(***************************************************************************)
(* Instances of DaskOperator for TLC: one Dask, one DaskJob, users that    *)
(* may create either first.                                                *)
(***************************************************************************)
EXTENDS DaskOperator

CONSTANT c1   \* the name of the Dask that the DaskJob asks for

\* A bare cluster.
OneSpec == {[jupyter |-> FALSE, policies |-> FALSE, ingress |-> FALSE,
             replicas |-> 1, broken |-> {}]}

\* A plain script, without a report.
OneScript == {[cluster |-> c1, script |-> "py", report |-> FALSE, broken |-> {}]}
=============================================================================
