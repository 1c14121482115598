---------------------------- MODULE DaskManagers ----------------------------
(***************************************************************************)
(* Two managers at once.  main.go leaves leader election off by default,   *)
(* so that the old and the new operator both run while one replaces the    *)
(* other: two processes with a cache, a queue and a goroutine each, over   *)
(* one API server.  The first is DaskController itself; the second is an   *)
(* instance of it that shares the Dask resources and their children.       *)
(*                                                                         *)
(* Neither knows of the other.  What one writes reaches the other as what  *)
(* a user writes does: as an event that is due, and a copy that is old.    *)
(***************************************************************************)
EXTENDS DaskController

VARIABLES
    cdask2, cached2, pending2, queue2, rec2   \* of the second manager

own1 == <<cdask, cached, pending, queue, rec>>
own2 == <<cdask2, cached2, pending2, queue2, rec2>>
bothVars == <<dask, live, own1, own2>>

Second == INSTANCE DaskController
    WITH cdask <- cdask2, cached <- cached2, pending <- pending2, queue <- queue2, rec <- rec2

BothInit == Init /\ Second!Init

-----------------------------------------------------------------------------
(***************************************************************************)
(* Steps.                                                                  *)
(***************************************************************************)

\* The objects of d that a step gives a new version.
Changed(d) == {o \in Watched : live'[d][o] # live[d][o]}
              \cup {o \in {"dask"} : dask'[d] # dask[d]}

\* A copy of the Dask or of the workers' Deployment in a pass that is now old.
Aged(r) == IF r.key \in Clusters
           THEN [r EXCEPT !.stale = @ \cup (Changed(r.key) \cap {"dask", "workerDeployment"})]
           ELSE r

\* A manager learns of a step that is not its own.
FirstHears == /\ pending' = [d \in Clusters |-> pending[d] \cup Changed(d)]
              /\ rec' = Aged(rec)
              /\ UNCHANGED <<cdask, cached, queue>>
SecondHears == /\ pending2' = [d \in Clusters |-> pending2[d] \cup Changed(d)]
               /\ rec2' = Aged(rec2)
               /\ UNCHANGED <<cdask2, cached2, queue2>>

\* As long as nothing is deleted.  Users and pods act on the shared objects, and
\* both managers hear of it.
FirstStep == (Reconciler \/ ControlPlane) /\ SecondHears
SecondStep == (Second!Reconciler \/ Second!ControlPlane) /\ FirstHears
WorldStep == (Pods \/ Users) /\ SecondHears
BothCalm == FirstStep \/ SecondStep \/ WorldStep
FaultStep == (Faults /\ SecondHears) \/ (Second!Faults /\ FirstHears)
BothNext == BothCalm \/ FaultStep

\* The users delete a Dask, which both managers take for a deleted one, or a child.
RemovalStep == \E d \in Clusters :
    \/ DeleteDask(d) /\ Second!DeleteDask(d)
    \/ \E c \in Removable : DeleteChild(d, c) /\ SecondHears

BothKept == BothInit /\ [][BothNext]_bothVars
BothSpec == BothInit /\ [][BothNext \/ RemovalStep]_bothVars

BothFairness ==
    /\ \A d \in Clusters : SF_own1(Begin(d))
    /\ \A d \in Clusters : SF_own2(Second!Begin(d))
    /\ WF_own1(\E op \in Calls : Call(op) \/ Refused(op))
    /\ WF_own2(\E op \in Calls : Second!Call(op) \/ Second!Refused(op))
    /\ \A d \in Clusters :
          /\ WF_own1(\E o \in pending[d] : Deliver(d, o))
          /\ WF_own2(\E o \in pending2[d] : Second!Deliver(d, o))

FairBothKept == BothKept /\ BothFairness

-----------------------------------------------------------------------------
(***************************************************************************)
(* What two managers leave intact.                                         *)
(***************************************************************************)

\* No wake-up is lost between the two: a Dask that either of them has nothing
\* more to do about is as its spec asks, whatever the other one has done to it.
BothConverged == QuiescentMeansConverged /\ Second!QuiescentMeansConverged

\* The invariant of one manager, of both.
BothInv == Inv /\ Second!Inv

\* Pass r has c behind it and is to make the rest of c's group, up to its gate, of
\* which nothing is there yet.
Making(r, d, c) ==
    /\ r.key = d
    /\ Gate[c] \in r.todo
    /\ \A x \in r.todo : Rank[c] < Rank[x]
    /\ \A x \in r.todo \cap Child : Rank[x] <= Rank[Gate[c]] => ~Exists(live[d][x])

\* Part of a group exists, its gate does not, and neither manager is making it.
LeftHalf(d) == \E c \in Child \ Gates :
    /\ Exists(live[d][c])
    /\ ~Exists(live[d][Gate[c]])
    /\ Wanted(dask[d].spec, c)
    /\ ~Making(rec, d, c) /\ ~Making(rec2, d, c)

\* A manager gives up because a builder fails on its spec.
CannotBuild == \/ \E op \in rec.spec.broken : Refused(op)
               \/ \E op \in rec2.spec.broken : Second!Refused(op)

\* Two managers that overtake each other leave no group half made that was not so
\* before: who makes the first object of a group makes the others, or is
\* overtaken by one that does.  Only a failure leaves part of a group.
OvertakingIsHarmless == [][\A d \in Clusters :
    /\ (Reconciler /\ SecondHears) \/ (Second!Reconciler /\ FirstHears)
    /\ ~CannotBuild
    /\ ~LeftHalf(d)
    => ~LeftHalf(d)']_bothVars

\* From some time on, only the managers and the control plane take steps.
BothRest == <>[][FirstStep \/ SecondStep]_bothVars

\* The two do not keep each other from the cluster that was asked for: it is there
\* in the end, for good, unless a failure has left part of a group.
EventuallyAgreed == BothRest => \A d \in Clusters :
    <>[](dask[d].uid = "cur" => Converged(d) \/ LeftHalf(d) \/ Broken(d))
=============================================================================
