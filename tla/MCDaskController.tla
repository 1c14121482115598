-------------------------- MODULE MCDaskController --------------------------
(***************************************************************************)
(* Instances of DaskController for TLC: named sets of specs, small enough  *)
(* for a run and chosen so that the cases of interest occur.               *)
(***************************************************************************)
EXTENDS DaskController

SpecOf(j, p, i, n, b) ==
    [jupyter |-> j, policies |-> p, ingress |-> i, replicas |-> n, broken |-> b]

\* A cluster whose users switch notebook, policies and a spec that cannot be
\* rendered on and off.
SwitchedSpecs == {SpecOf(FALSE, FALSE, FALSE, 1, {}),
                  SpecOf(TRUE, TRUE, TRUE, 1, {"workerDeployment"})}

\* One bare cluster of one shape.
OneSpec == {SpecOf(FALSE, FALSE, FALSE, 1, {})}
\* The scheduler Deployment of this spec cannot be rendered.
BadSpec == {SpecOf(FALSE, FALSE, FALSE, 1, {"schedulerDeployment"})}
GoodAndBad == OneSpec \cup BadSpec
=============================================================================
