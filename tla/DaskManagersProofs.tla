------------------------- MODULE DaskManagersProofs -------------------------
(***************************************************************************)
(* No wake-up is lost between two managers.  What is proved of one manager *)
(* holds of each of them: its own steps keep its invariant, and what the   *)
(* other one does is what InvTold allows anybody to do.                    *)
(***************************************************************************)
EXTENDS DaskManagers, DaskPassProofs

SecondProofs == INSTANCE DaskPassProofs
    WITH cdask <- cdask2, cached <- cached2, pending <- pending2, queue <- queue2, rec <- rec2

-----------------------------------------------------------------------------
\* The second manager is the one that SecondProofs is about.
LEMMA SameSecond ==
    /\ Second!Init <=> SecondProofs!Init
    /\ Second!Inv <=> SecondProofs!Inv
    /\ Second!Inv' <=> SecondProofs!Inv'
    /\ Second!Reconciler <=> SecondProofs!Reconciler
    /\ Second!ControlPlane <=> SecondProofs!ControlPlane
    /\ Second!Faults <=> SecondProofs!Faults
    /\ \A d \in Clusters : Second!DeleteDask(d) <=> SecondProofs!DeleteDask(d)
    /\ \A op : Second!Refused(op) <=> SecondProofs!Refused(op)
    /\ Second!QuiescentMeansConverged <=> SecondProofs!QuiescentMeansConverged
  BY DEF Second!Rank, SecondProofs!Rank, Second!Gate, SecondProofs!Gate, Second!Child,
         SecondProofs!Child, Second!Gates, SecondProofs!Gates, Second!Deployments,
         SecondProofs!Deployments, Second!Policies, SecondProofs!Policies,
         Second!JupyterGroup, SecondProofs!JupyterGroup, Second!Watched,
         SecondProofs!Watched, Second!Calls, SecondProofs!Calls, Second!SpecType,
         SecondProofs!SpecType, Second!NoSpec, SecondProofs!NoSpec, Second!Object,
         SecondProofs!Object, Second!Absent, SecondProofs!Absent, Second!Taken,
         SecondProofs!Taken, Second!Beforehand, SecondProofs!Beforehand, Second!Exists,
         SecondProofs!Exists, Second!OwnedByDask, SecondProofs!OwnedByDask,
         Second!Status, SecondProofs!Status, Second!NoStatus, SecondProofs!NoStatus,
         Second!NoDask, SecondProofs!NoDask, Second!Idle, SecondProofs!Idle,
         Second!DaskType, SecondProofs!DaskType, Second!CachedDaskType,
         SecondProofs!CachedDaskType, Second!PassType, SecondProofs!PassType,
         Second!TypeOK, SecondProofs!TypeOK, Second!Init, SecondProofs!Init,
         Second!Wanted, SecondProofs!Wanted, Second!Observed, SecondProofs!Observed,
         Second!ToDo, SecondProofs!ToDo, Second!DetailsOk, SecondProofs!DetailsOk,
         Second!Due, SecondProofs!Due, Second!Touched, SecondProofs!Touched,
         Second!Begin, SecondProofs!Begin, Second!BeginGone, SecondProofs!BeginGone,
         Second!Accepted, SecondProofs!Accepted, Second!Create, SecondProofs!Create,
         Second!Scale, SecondProofs!Scale, Second!SaveStatus, SecondProofs!SaveStatus,
         Second!Apply, SecondProofs!Apply, Second!Fail, SecondProofs!Fail, Second!Call,
         SecondProofs!Call, Second!Refused, SecondProofs!Refused, Second!Deliver,
         SecondProofs!Deliver, Second!Resync, SecondProofs!Resync, Second!Becomes,
         SecondProofs!Becomes, Second!GarbageCollect, SecondProofs!GarbageCollect,
         Second!ApiError, SecondProofs!ApiError, Second!LostReply,
         SecondProofs!LostReply, Second!Crash, SecondProofs!Crash, Second!Reconciler,
         SecondProofs!Reconciler, Second!ControlPlane, SecondProofs!ControlPlane,
         Second!Faults, SecondProofs!Faults, Second!Required, SecondProofs!Required,
         Second!CacheTrue, SecondProofs!CacheTrue, Second!Claim, SecondProofs!Claim,
         Second!PassTrue, SecondProofs!PassTrue, Second!RestTrue, SecondProofs!RestTrue,
         Second!Inv, SecondProofs!Inv, Second!Settled, SecondProofs!Settled,
         Second!Scaled, SecondProofs!Scaled, Second!StatusTrue, SecondProofs!StatusTrue,
         Second!Converged, SecondProofs!Converged, Second!QuiescentMeansConverged,
         SecondProofs!QuiescentMeansConverged, Second!Orphaned, SecondProofs!Orphaned,
         Second!Deceased, SecondProofs!Deceased, Second!DeleteDask,
         SecondProofs!DeleteDask, Second!Cardinality, SecondProofs!Cardinality

\* What does not depend on the variables is the same for both.
LEMMA SameConstants ==
    /\ SecondProofs!Child = Child /\ SecondProofs!Watched = Watched
    /\ SecondProofs!SpecType = SpecType /\ SecondProofs!Deployments = Deployments
    /\ SecondProofs!Object = Object /\ SecondProofs!DaskType = DaskType
    /\ SecondProofs!PassType = PassType /\ SecondProofs!Calls = Calls
    /\ SecondProofs!Gates = Gates /\ SecondProofs!Gate = Gate /\ SecondProofs!Rank = Rank
    /\ SecondProofs!NoStatus = NoStatus
    /\ \A o : SecondProofs!Exists(o) <=> Exists(o)
    /\ \A o : SecondProofs!Orphaned(o) = Orphaned(o)
    /\ \A s, c : SecondProofs!Wanted(s, c) <=> Wanted(s, c)
  BY DEF Child, SecondProofs!Child, Gate, SecondProofs!Gate, Watched,
         SecondProofs!Watched, Deployments, SecondProofs!Deployments, SpecType,
         SecondProofs!SpecType, Object, SecondProofs!Object, Status,
         SecondProofs!Status, DaskType, SecondProofs!DaskType, PassType,
         SecondProofs!PassType, Calls, SecondProofs!Calls, Gates, SecondProofs!Gates,
         Rank, SecondProofs!Rank, NoStatus, SecondProofs!NoStatus, Exists,
         SecondProofs!Exists, Orphaned, SecondProofs!Orphaned, Wanted,
         SecondProofs!Wanted, Policies, SecondProofs!Policies, JupyterGroup,
         SecondProofs!JupyterGroup

\* The assumptions on the constants hold of the second manager's, too.
LEMMA SameAssumptions ==
    /\ NoCluster \notin Clusters
    /\ Specs \subseteq SecondProofs!SpecType
    /\ Foreign \subseteq SecondProofs!Child
    /\ Rolling \subseteq SecondProofs!Deployments
    /\ HandScales \subseteq Nat
    /\ Removable \subseteq SecondProofs!Child
  BY SameConstants, ClustersAssumption, SpecsAssumption, BoundsAssumption

LEMMA SecondNext == Second!Inv /\ (Second!Reconciler \/ Second!ControlPlane \/ Second!Faults)
                    => Second!Inv'
  <1>1. SecondProofs!Reconciler \/ SecondProofs!ControlPlane \/ SecondProofs!Faults
        => SecondProofs!Next
    BY DEF SecondProofs!Next
  <1>2. SecondProofs!Inv /\ SecondProofs!Next => SecondProofs!Inv'
    BY SameAssumptions, SecondProofs!InvNext
  <1> QED BY <1>1, <1>2, SameSecond

-----------------------------------------------------------------------------
\* Growing old is all that happens to a pass.
LEMMA AgedPass ==
    ASSUME NEW r \in PassType
    PROVE  /\ Aged(r) \in PassType
           /\ Aged(r) = [r EXCEPT !.stale = Aged(r).stale]
           /\ r.key = NoCluster => Aged(r) = r
  BY ClustersAssumption DEF Aged, PassType

LEMMA ChangedObjects ==
    ASSUME NEW d \in Clusters
    PROVE  /\ Changed(d) \in SUBSET (Watched \cup {"dask"})
           /\ "dask" \notin Changed(d) => dask'[d] = dask[d]
           /\ \A c \in Watched \ Changed(d) : live'[d][c] = live[d][c]
  BY ChildNames DEF Changed

LEMMA FirstTold ==
    ASSUME Inv, FirstHears,
           dask' \in [Clusters -> DaskType],
           live' \in [Clusters -> [Child -> Object]],
           \A e \in Clusters : \A c \in Child : live'[e][c].owner = "foreign" => c \in Foreign
    PROVE  Inv'
  <1>1. /\ rec \in PassType
        /\ pending \in [Clusters -> SUBSET (Watched \cup {"dask"})]
    BY DEF Inv, TypeOK
  <1>2. /\ UNCHANGED <<cdask, cached, queue>>
        /\ rec' = Aged(rec)
        /\ \A e \in Clusters : pending'[e] = pending[e] \cup Changed(e)
        /\ pending' \in [Clusters -> SUBSET (Watched \cup {"dask"})]
    BY <1>1, ChangedObjects DEF FirstHears
  <1>3. /\ \A e \in Clusters : "dask" \notin pending'[e] => dask'[e] = dask[e]
        /\ \A e \in Clusters : \A c \in Watched \ pending'[e] : live'[e][c] = live[e][c]
    BY <1>2, ChangedObjects
  <1>4. /\ rec' \in PassType /\ rec' = [rec EXCEPT !.stale = rec'.stale]
        /\ rec.key = NoCluster => rec' = rec
    BY <1>1, <1>2, AgedPass
  <1> QED BY <1>2, <1>3, <1>4, InvTold

LEMMA SecondTold ==
    ASSUME Second!Inv, SecondHears,
           dask' \in [Clusters -> DaskType],
           live' \in [Clusters -> [Child -> Object]],
           \A e \in Clusters : \A c \in Child : live'[e][c].owner = "foreign" => c \in Foreign
    PROVE  Second!Inv'
  <1>1. /\ rec2 \in PassType
        /\ pending2 \in [Clusters -> SUBSET (Watched \cup {"dask"})]
    BY SameSecond, SameConstants DEF SecondProofs!Inv, SecondProofs!TypeOK
  <1>2. /\ UNCHANGED <<cdask2, cached2, queue2>>
        /\ rec2' = Aged(rec2)
        /\ \A e \in Clusters : pending2'[e] = pending2[e] \cup Changed(e)
        /\ pending2' \in [Clusters -> SUBSET (Watched \cup {"dask"})]
    BY <1>1, ChangedObjects DEF SecondHears
  <1>3. /\ \A e \in Clusters : "dask" \notin pending2'[e] => dask'[e] = dask[e]
        /\ \A e \in Clusters : \A c \in Watched \ pending2'[e] : live'[e][c] = live[e][c]
    BY <1>2, ChangedObjects
  <1>4. /\ rec2' \in PassType /\ rec2' = [rec2 EXCEPT !.stale = rec2'.stale]
        /\ rec2.key = NoCluster => rec2' = rec2
    BY <1>1, <1>2, AgedPass
  <1> QED BY <1>2, <1>3, <1>4, SameSecond, SameConstants, SameAssumptions,
             SecondProofs!InvTold

\* What a manager leaves behind is what the other one is told of.
LEMMA FirstLeaves ==
    ASSUME Inv'
    PROVE  /\ dask' \in [Clusters -> DaskType]
           /\ live' \in [Clusters -> [Child -> Object]]
           /\ \A e \in Clusters : \A c \in Child : live'[e][c].owner = "foreign" => c \in Foreign
  BY DEF Inv, TypeOK, CacheTrue

LEMMA SecondLeaves ==
    ASSUME Second!Inv'
    PROVE  /\ dask' \in [Clusters -> DaskType]
           /\ live' \in [Clusters -> [Child -> Object]]
           /\ \A e \in Clusters : \A c \in Child : live'[e][c].owner = "foreign" => c \in Foreign
  BY SameSecond, SameConstants DEF SecondProofs!Inv, SecondProofs!TypeOK, SecondProofs!CacheTrue

-----------------------------------------------------------------------------
LEMMA BothInvInit == BothInit => BothInv
  BY InvInit, SameSecond, SameAssumptions, SecondProofs!InvInit DEF BothInit, BothInv

LEMMA BothInvNext == BothInv /\ [BothNext \/ RemovalStep]_bothVars => BothInv'
  <1> SUFFICES ASSUME BothInv, [BothNext \/ RemovalStep]_bothVars PROVE BothInv'
    OBVIOUS
  <1> USE DEF BothInv
  <1>1. ASSUME Reconciler \/ ControlPlane \/ Pods \/ Users \/ Removals \/ Faults, SecondHears
        PROVE  BothInv'
    <2>1. Inv'
      BY <1>1, InvNext DEF Next
    <2> QED BY <1>1, <2>1, FirstLeaves, SecondTold
  <1>2. ASSUME Second!Reconciler \/ Second!ControlPlane \/ Second!Faults, FirstHears
        PROVE  BothInv'
    <2>1. Second!Inv'
      BY <1>2, SecondNext
    <2> QED BY <1>2, <2>1, SecondLeaves, FirstTold
  <1>3. ASSUME NEW d \in Clusters, DeleteDask(d), Second!DeleteDask(d) PROVE BothInv'
    <2>1. Inv'
      BY <1>3, InvNext DEF Next, Removals
    <2>2. SecondProofs!Next
      BY <1>3, SameSecond DEF SecondProofs!Next, SecondProofs!Removals
    <2>3. SecondProofs!Inv /\ SecondProofs!Next => SecondProofs!Inv'
      BY SameAssumptions, SecondProofs!InvNext
    <2> QED BY <2>1, <2>2, <2>3, SameSecond
  <1>4. ASSUME UNCHANGED bothVars PROVE BothInv'
    <2>1. Inv'
      BY <1>4, InvNext DEF bothVars, own1, vars
    <2>2. SecondProofs!Inv /\ UNCHANGED SecondProofs!vars => SecondProofs!Inv'
      BY SameAssumptions, SecondProofs!InvNext
    <2>3. UNCHANGED SecondProofs!vars
      BY <1>4 DEF bothVars, own2, SecondProofs!vars
    <2> QED BY <2>1, <2>2, <2>3, SameSecond
  <1>5. CASE RemovalStep
    BY <1>1, <1>3, <1>5 DEF RemovalStep, Removals
  <1> QED BY <1>1, <1>2, <1>4, <1>5
          DEF BothNext, BothCalm, FirstStep, SecondStep, WorldStep, FaultStep

\* Two managers that know nothing of each other, each failing and restarting as it
\* may, leave no Dask that is not as its spec asks, whatever users delete.
THEOREM BothAreConverged == BothSpec => []BothConverged
  <1>1. BothInv => BothConverged
    BY InvConverged, SameSecond, SameAssumptions, SecondProofs!InvConverged
       DEF BothInv, BothConverged
  <1> QED BY <1>1, BothInvInit, BothInvNext, PTL DEF BothSpec

-----------------------------------------------------------------------------
(***************************************************************************)
(* Overtaking.                                                             *)
(***************************************************************************)
\* Either pass, if it is to create part of a group, is to create its gate.
BothGates == GateToCome /\ SecondProofs!GateToCome

LEMMA FirstAged ==
    ASSUME FirstHears, rec \in PassType
    PROVE  rec' = [rec EXCEPT !.stale = rec'.stale] /\ rec'.key = rec.key /\ rec'.todo = rec.todo
  <1>1. rec' = Aged(rec)
    BY DEF FirstHears
  <1>2. Aged(rec) = [rec EXCEPT !.stale = Aged(rec).stale]
    BY AgedPass
  <1> QED BY <1>1, <1>2 DEF PassType

LEMMA SecondAged ==
    ASSUME SecondHears, rec2 \in PassType
    PROVE  /\ rec2' = [rec2 EXCEPT !.stale = rec2'.stale]
           /\ rec2'.key = rec2.key /\ rec2'.todo = rec2.todo
  <1>1. rec2' = Aged(rec2)
    BY DEF SecondHears
  <1>2. Aged(rec2) = [rec2 EXCEPT !.stale = Aged(rec2).stale]
    BY AgedPass
  <1> QED BY <1>1, <1>2 DEF PassType

LEMMA BothTypes ==
    ASSUME BothInv
    PROVE  /\ TypeOK /\ CacheTrue /\ SecondProofs!TypeOK /\ SecondProofs!CacheTrue
           /\ rec \in PassType /\ rec2 \in PassType
           /\ rec.todo \subseteq Calls /\ rec2.todo \subseteq Calls
  <1>1. TypeOK /\ CacheTrue /\ SecondProofs!TypeOK /\ SecondProofs!CacheTrue
    BY SameSecond DEF BothInv, Inv, SecondProofs!Inv
  <1>2. rec \in PassType /\ rec2 \in PassType
    BY <1>1, SameConstants DEF TypeOK, SecondProofs!TypeOK
  <1> QED BY <1>1, <1>2 DEF PassType

LEMMA BothGatesInit == BothInit => BothGates
  BY GateToComeInit, SecondProofs!GateToComeInit, SameSecond, SameAssumptions
     DEF BothInit, BothGates

LEMMA BothGatesNext == BothInv /\ BothGates /\ [BothNext \/ RemovalStep]_bothVars => BothGates'
  <1> SUFFICES ASSUME BothInv, BothGates, [BothNext \/ RemovalStep]_bothVars PROVE BothGates'
    OBVIOUS
  <1>t. TypeOK /\ SecondProofs!TypeOK /\ rec \in PassType /\ rec2 \in PassType
    BY BothTypes
  <1>a. [Next]_vars => GateToCome'
    BY <1>t, GateToComeNext DEF BothGates
  <1>b. [SecondProofs!Next]_SecondProofs!vars => SecondProofs!GateToCome'
    BY <1>t, SameAssumptions, SecondProofs!GateToComeNext DEF BothGates
  <1>c. FirstHears => GateToCome'
    BY <1>t, FirstAged, GateToComeTold DEF BothGates
  <1>d. SecondHears => SecondProofs!GateToCome'
    BY <1>t, SecondAged, SameAssumptions, SecondProofs!GateToComeTold DEF BothGates
  <1>1. ASSUME Reconciler \/ ControlPlane \/ Pods \/ Users \/ Removals \/ Faults, SecondHears
        PROVE  BothGates'
    BY <1>1, <1>a, <1>d DEF Next, BothGates
  <1>2. ASSUME Second!Reconciler \/ Second!ControlPlane \/ Second!Faults, FirstHears
        PROVE  BothGates'
    <2>1. SecondProofs!Next
      BY <1>2, SameSecond DEF SecondProofs!Next
    <2> QED BY <1>2, <1>b, <1>c, <2>1 DEF BothGates
  <1>3. ASSUME NEW d \in Clusters, DeleteDask(d), Second!DeleteDask(d) PROVE BothGates'
    <2>1. Next
      BY <1>3 DEF Next, Removals
    <2>2. SecondProofs!Next
      BY <1>3, SameSecond DEF SecondProofs!Next, SecondProofs!Removals
    <2> QED BY <1>a, <1>b, <2>1, <2>2 DEF BothGates
  <1>4. ASSUME UNCHANGED bothVars PROVE BothGates'
    BY <1>4, <1>a, <1>b DEF bothVars, own1, own2, vars, SecondProofs!vars, BothGates
  <1>5. CASE RemovalStep
    BY <1>1, <1>3, <1>5 DEF RemovalStep, Removals
  <1> QED BY <1>1, <1>2, <1>4, <1>5
          DEF BothNext, BothCalm, FirstStep, SecondStep, WorldStep, FaultStep

\* What is left half made, in the words of HalfStays.
LEMMA LeftHalfIs ==
    ASSUME NEW d
    PROVE  /\ LeftHalf(d) <=> IsHalf(live[d], dask[d].spec, d, rec, rec2)
           /\ LeftHalf(d) <=> IsHalf(live[d], dask[d].spec, d, rec2, rec)
  BY DEF LeftHalf, Making, IsHalf, IsMaking

LEMMA LeftHalfWillBe ==
    ASSUME NEW d \in Clusters
    PROVE  /\ LeftHalf(d)' <=> IsHalf(live'[d], dask'[d].spec, d, rec', rec2')
           /\ LeftHalf(d)' <=> IsHalf(live'[d], dask'[d].spec, d, rec2', rec')
  BY DEF LeftHalf, Making, IsHalf, IsMaking

\* The moves of the second manager are of the same kind.
LEMMA SecondMoves ==
    ASSUME BothInv, Second!Reconciler, ~\E op \in rec2.spec.broken : Second!Refused(op),
           NEW d \in Clusters
    PROVE  /\ dask'[d].spec = dask[d].spec
           /\ \/ Adds(live[d], live'[d], rec2, rec2', d)
              \/ Rests(live[d], live'[d], rec2, rec2', d)
  <1>1. /\ SecondProofs!TypeOK /\ SecondProofs!CacheTrue /\ SecondProofs!Reconciler
        /\ ~\E op \in rec2.spec.broken : SecondProofs!Refused(op)
    BY SameSecond, BothTypes
  <1>2. /\ dask'[d].spec = dask[d].spec
        /\ \/ SecondProofs!Adds(live[d], live'[d], rec2, rec2', d)
           \/ SecondProofs!Rests(live[d], live'[d], rec2, rec2', d)
    BY <1>1, SameAssumptions, SecondProofs!ReconcilerMoves
  <1>3. SecondProofs!Adds(live[d], live'[d], rec2, rec2', d)
           => Adds(live[d], live'[d], rec2, rec2', d)
    BY SameConstants DEF Adds, SecondProofs!Adds
  <1>4. SecondProofs!Rests(live[d], live'[d], rec2, rec2', d)
           => Rests(live[d], live'[d], rec2, rec2', d)
    BY SameConstants DEF Rests, SecondProofs!Rests, IsMaking, SecondProofs!IsMaking
  <1> QED BY <1>2, <1>3, <1>4

\* However two managers overtake each other, only a failure leaves part of a group.
THEOREM OvertakingHarmless == BothSpec => OvertakingIsHarmless
  <1> DEFINE Harmless == \A d \in Clusters :
                /\ (Reconciler /\ SecondHears) \/ (Second!Reconciler /\ FirstHears)
                /\ ~CannotBuild
                /\ ~LeftHalf(d)
                => ~LeftHalf(d)'
  <1>1. BothInv /\ BothGates => Harmless
    <2> SUFFICES ASSUME BothInv, BothGates, NEW d \in Clusters, ~CannotBuild, ~LeftHalf(d),
                        (Reconciler /\ SecondHears) \/ (Second!Reconciler /\ FirstHears)
                 PROVE  ~LeftHalf(d)'
      OBVIOUS
    <2>t. /\ TypeOK /\ CacheTrue /\ rec \in PassType /\ rec2 \in PassType
          /\ rec.todo \subseteq Calls /\ rec2.todo \subseteq Calls
      BY BothTypes
    <2>g. /\ \A c \in Child \cap rec.todo : Gate[c] \in rec.todo
          /\ \A c \in Child \cap rec2.todo : Gate[c] \in rec2.todo
      BY SameConstants DEF BothGates, GateToCome, SecondProofs!GateToCome
    <2>1. CASE Reconciler /\ SecondHears
      <3>1. /\ dask'[d].spec = dask[d].spec
            /\ Adds(live[d], live'[d], rec, rec', d) \/ Rests(live[d], live'[d], rec, rec', d)
        BY <2>1, <2>t, ReconcilerMoves DEF CannotBuild
      <3>2. rec2'.key = rec2.key /\ rec2'.todo = rec2.todo
        BY <2>1, <2>t, SecondAged
      <3>3. ~IsHalf(live[d], dask[d].spec, d, rec, rec2)
        BY LeftHalfIs
      <3>4. ~IsHalf(live'[d], dask[d].spec, d, rec', rec2')
        BY <2>t, <2>g, <3>1, <3>2, <3>3, HalfStays
      <3> QED BY <3>1, <3>4, LeftHalfWillBe
    <2>2. CASE Second!Reconciler /\ FirstHears
      <3>1. /\ dask'[d].spec = dask[d].spec
            /\ \/ Adds(live[d], live'[d], rec2, rec2', d)
               \/ Rests(live[d], live'[d], rec2, rec2', d)
        BY <2>2, SecondMoves DEF CannotBuild
      <3>2. rec'.key = rec.key /\ rec'.todo = rec.todo
        BY <2>2, <2>t, FirstAged
      <3>3. ~IsHalf(live[d], dask[d].spec, d, rec2, rec)
        BY LeftHalfIs
      <3>4. ~IsHalf(live'[d], dask[d].spec, d, rec2', rec')
        BY <2>t, <2>g, <3>1, <3>2, <3>3, HalfStays
      <3> QED BY <3>1, <3>4, LeftHalfWillBe
    <2> QED BY <2>1, <2>2
  <1>2. BothInv /\ BothGates /\ [BothNext \/ RemovalStep]_bothVars => [Harmless]_bothVars
    BY <1>1
  <1> QED BY <1>2, BothInvInit, BothInvNext, BothGatesInit, BothGatesNext, PTL
          DEF BothSpec, OvertakingIsHarmless

-----------------------------------------------------------------------------
(***************************************************************************)
(* Bring-up by two managers.                                               *)
(***************************************************************************)
\* What is said of the shared objects is the same for both.
LEMMA SameShared ==
    /\ SecondProofs!DependenciesFirst <=> DependenciesFirst
    /\ SecondProofs!DependenciesFirst' <=> DependenciesFirst'
    /\ SecondProofs!StatusWitnessed <=> StatusWitnessed
    /\ SecondProofs!StatusWitnessed' <=> StatusWitnessed'
  BY SameConstants DEF DependenciesFirst, SecondProofs!DependenciesFirst, Needs,
     SecondProofs!Needs, OwnedByDask, SecondProofs!OwnedByDask, StatusWitnessed,
     SecondProofs!StatusWitnessed

LEMMA SameBringup ==
    /\ [d \in Clusters |-> SecondProofs!StagesOf(live[d])] = [d \in Clusters |-> StagesOf(live[d])]
    /\ [d \in Clusters |-> SecondProofs!StagesOf(live'[d])] = [d \in Clusters |-> StagesOf(live'[d])]
    /\ [d \in Clusters |-> dask[d].uid = "cur" /\ dask[d].status # SecondProofs!NoStatus]
         = [d \in Clusters |-> dask[d].uid = "cur" /\ dask[d].status # NoStatus]
    /\ [d \in Clusters |-> dask'[d].uid = "cur" /\ dask'[d].status # SecondProofs!NoStatus]
         = [d \in Clusters |-> dask'[d].uid = "cur" /\ dask'[d].status # NoStatus]
    /\ SecondProofs!Bringup!Next <=> Bringup!Next
  <1>1. \A k : SecondProofs!StagesOf(k) = StagesOf(k)
    BY SameConstants DEF StagesOf, SecondProofs!StagesOf, LastOf, SecondProofs!LastOf
  <1>2. SecondProofs!NoStatus = NoStatus
    BY SameConstants
  <1>3. /\ SecondProofs!Bringup!Core = Bringup!Core
        /\ SecondProofs!Bringup!Stage = Bringup!Stage
        /\ SecondProofs!Bringup!After = Bringup!After
    BY DEF Bringup!Core, SecondProofs!Bringup!Core, Bringup!Stage,
           SecondProofs!Bringup!Stage, Bringup!After, SecondProofs!Bringup!After
  <1>4. /\ [d \in Clusters |-> SecondProofs!StagesOf(live[d])]
               = [d \in Clusters |-> StagesOf(live[d])]
        /\ [d \in Clusters |-> SecondProofs!StagesOf(live'[d])]
               = [d \in Clusters |-> StagesOf(live'[d])]
    BY <1>1
  <1>5. \A d : SecondProofs!Bringup!Tell(d) <=> Bringup!Tell(d)
    BY <1>2, <1>3, <1>4 DEF Bringup!Tell, SecondProofs!Bringup!Tell
  <1>6. \A d, s : SecondProofs!Bringup!Complete(d, s) <=> Bringup!Complete(d, s)
    BY <1>2, <1>3, <1>4 DEF Bringup!Complete, SecondProofs!Bringup!Complete
  <1> QED BY <1>2, <1>3, <1>4, <1>5, <1>6 DEF Bringup!Next, SecondProofs!Bringup!Next

\* As long as nothing is deleted, both passes work from what is there.
BothKeptInv == /\ KeptInv /\ HasStatus
               /\ SecondProofs!KeptInv /\ SecondProofs!HasStatus

LEMMA BothKeptInit == BothInit => BothKeptInv /\ Bringup!Init
  BY KeptInit, HasStatusInit, BringupInit, SameSecond, SameAssumptions,
     SecondProofs!KeptInit, SecondProofs!HasStatusInit DEF BothInit, BothKeptInv

\* What a step of the first leaves true of the second.
LEMMA SecondKept ==
    ASSUME BothKeptInv, KeptInv', [NextKept]_vars, SecondHears
    PROVE  SecondProofs!KeptInv' /\ SecondProofs!HasStatus'
  <1>1. /\ SecondProofs!TypeOK /\ rec2 \in PassType
        /\ pending2 \in [Clusters -> SUBSET (Watched \cup {"dask"})]
    BY SameConstants DEF BothKeptInv, SecondProofs!KeptInv, SecondProofs!TypeOK
  <1>2. /\ UNCHANGED <<cdask2, cached2, queue2>>
        /\ rec2' = Aged(rec2)
        /\ pending2' \in [Clusters -> SUBSET (Watched \cup {"dask"})]
    BY <1>1, ChangedObjects DEF SecondHears
  <1>3. /\ rec2' \in PassType /\ rec2' = [rec2 EXCEPT !.stale = rec2'.stale]
        /\ rec2.key = NoCluster => rec2' = rec2
    BY <1>1, <1>2, AgedPass
  <1>4. /\ dask' \in [Clusters -> DaskType]
        /\ live' \in [Clusters -> [Child -> Object]]
        /\ DependenciesFirst' /\ StatusWitnessed'
        /\ \A d \in Clusters : \A c \in Child : live'[d][c].owner # "gone"
    BY DEF KeptInv, TypeOK
  <1>5. \A d \in Clusters : \A c \in Child : Exists(live[d][c]) => Exists(live'[d][c])
    BY KeptGrows DEF BothKeptInv
  <1>6. SecondProofs!KeptInv'
    BY <1>2, <1>3, <1>4, <1>5, SameConstants, SameShared, SameAssumptions,
       SecondProofs!KeptTold DEF BothKeptInv
  <1>7. SecondProofs!HasStatus'
    BY <1>1, <1>3, SameAssumptions, SecondProofs!HasStatusTold DEF BothKeptInv
  <1> QED BY <1>6, <1>7

\* What a step of the second leaves true of the first.
LEMMA FirstKept ==
    ASSUME BothKeptInv, SecondProofs!KeptInv', [SecondProofs!NextKept]_SecondProofs!vars,
           FirstHears
    PROVE  KeptInv' /\ HasStatus'
  <1>1. /\ TypeOK /\ rec \in PassType
        /\ pending \in [Clusters -> SUBSET (Watched \cup {"dask"})]
    BY DEF BothKeptInv, KeptInv, TypeOK
  <1>2. /\ UNCHANGED <<cdask, cached, queue>>
        /\ rec' = Aged(rec)
        /\ pending' \in [Clusters -> SUBSET (Watched \cup {"dask"})]
    BY <1>1, ChangedObjects DEF FirstHears
  <1>3. /\ rec' \in PassType /\ rec' = [rec EXCEPT !.stale = rec'.stale]
        /\ rec.key = NoCluster => rec' = rec
    BY <1>1, <1>2, AgedPass
  <1>4. /\ dask' \in [Clusters -> DaskType]
        /\ live' \in [Clusters -> [Child -> Object]]
        /\ DependenciesFirst' /\ StatusWitnessed'
        /\ \A d \in Clusters : \A c \in Child : live'[d][c].owner # "gone"
    BY SameConstants, SameShared DEF SecondProofs!KeptInv, SecondProofs!TypeOK
  <1>5. \A d \in Clusters : \A c \in Child : Exists(live[d][c]) => Exists(live'[d][c])
    BY SameConstants, SameAssumptions, SecondProofs!KeptGrows DEF BothKeptInv
  <1>6. KeptInv'
    BY <1>2, <1>3, <1>4, <1>5, KeptTold DEF BothKeptInv
  <1>7. HasStatus'
    BY <1>1, <1>3, HasStatusTold DEF BothKeptInv
  <1> QED BY <1>6, <1>7

\* A step of either manager is a step of ClusterBringup, or a stutter.
LEMMA BothKeptNext ==
    ASSUME BothKeptInv, [BothNext]_bothVars
    PROVE  /\ BothKeptInv'
           /\ [Bringup!Next]_<<[d \in Clusters |-> StagesOf(live[d])],
                               [d \in Clusters |-> dask[d].uid = "cur"
                                                   /\ dask[d].status # NoStatus]>>
  <1> USE DEF BothKeptInv
  <1>1. ASSUME NextKept, SecondHears
        PROVE  /\ BothKeptInv'
               /\ [Bringup!Next]_<<[d \in Clusters |-> StagesOf(live[d])],
                                   [d \in Clusters |-> dask[d].uid = "cur"
                                                       /\ dask[d].status # NoStatus]>>
    <2>1. KeptInv' /\ HasStatus'
      BY <1>1, KeptNext, HasStatusNext DEF KeptInv
    <2>2. SecondProofs!KeptInv' /\ SecondProofs!HasStatus'
      BY <1>1, <2>1, SecondKept
    <2> QED BY <1>1, <2>1, <2>2, BringupNext
  <1>2. ASSUME SecondProofs!NextKept, FirstHears
        PROVE  /\ BothKeptInv'
               /\ [Bringup!Next]_<<[d \in Clusters |-> StagesOf(live[d])],
                                   [d \in Clusters |-> dask[d].uid = "cur"
                                                       /\ dask[d].status # NoStatus]>>
    <2>1. SecondProofs!KeptInv' /\ SecondProofs!HasStatus'
      BY <1>2, SameAssumptions, SecondProofs!KeptNext, SecondProofs!HasStatusNext
         DEF SecondProofs!KeptInv
    <2>2. KeptInv' /\ HasStatus'
      BY <1>2, <2>1, FirstKept
    <2>3. [SecondProofs!Bringup!Next]_<<
              [d \in Clusters |-> SecondProofs!StagesOf(live[d])],
              [d \in Clusters |-> dask[d].uid = "cur" /\ dask[d].status # SecondProofs!NoStatus]>>
      BY <1>2, SameAssumptions, SecondProofs!BringupNext
    <2> QED BY <2>1, <2>2, <2>3, SameBringup, SameConstants
  <1>3. CASE UNCHANGED bothVars
    <2>1. KeptInv' /\ HasStatus'
      BY <1>3, KeptNext, HasStatusNext DEF bothVars, own1, vars, KeptInv
    <2>2. UNCHANGED SecondProofs!vars
      BY <1>3 DEF bothVars, own2, SecondProofs!vars
    <2>3. SecondProofs!KeptInv' /\ SecondProofs!HasStatus'
      BY <2>2, SameAssumptions, SecondProofs!KeptNext, SecondProofs!HasStatusNext
         DEF SecondProofs!KeptInv
    <2> QED BY <1>3, <2>1, <2>3 DEF bothVars
  <1>4. Second!Reconciler \/ Second!ControlPlane \/ Second!Faults => SecondProofs!NextKept
    BY SameSecond DEF SecondProofs!NextKept
  <1>5. Reconciler \/ ControlPlane \/ Pods \/ Users \/ Faults => NextKept
    BY DEF NextKept
  <1> QED BY <1>1, <1>2, <1>3, <1>4, <1>5
          DEF BothNext, BothCalm, FirstStep, SecondStep, WorldStep, FaultStep

\* Two managers bring a cluster up in no other way than one: stages in their order,
\* none lost, and no word of it before the core is there.
THEOREM BothFollowBringup == BothKept => FollowsBringup
  BY BothKeptInit, BothKeptNext, PTL DEF BothKept, FollowsBringup, Bringup!Spec

\* Nor does an object of a Dask come before those it needs when the two take turns.
THEOREM BothKeepDependencies == BothKept => []DependenciesFirst
  <1>1. BothKeptInv => DependenciesFirst
    BY DEF BothKeptInv, KeptInv
  <1> QED BY <1>1, BothKeptInit, BothKeptNext, PTL DEF BothKept
=============================================================================
