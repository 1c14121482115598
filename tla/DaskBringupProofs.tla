------------------------- MODULE DaskBringupProofs -------------------------
(***************************************************************************)
(* DaskController implements ClusterBringup while nothing is deleted: each *)
(* step of the one is a step of the other, or leaves what it sees alone.   *)
(***************************************************************************)
EXTENDS DaskControllerProofs

-----------------------------------------------------------------------------
(***************************************************************************)
(* What a step may do that ClusterBringup can see.                         *)
(***************************************************************************)

\* A pass in progress has a status to publish.
HasStatus == rec.key \in Clusters => rec.status # NoStatus

LEMMA HasStatusInit == Init => HasStatus
  BY ClustersAssumption DEF Init, Idle, HasStatus

LEMMA HasStatusNext == TypeOK /\ HasStatus /\ [NextKept]_vars => HasStatus'
  <1> SUFFICES ASSUME TypeOK, HasStatus, [NextKept]_vars PROVE HasStatus'
    OBVIOUS
  <1> DEFINE Same == \/ rec' = Idle
                     \/ rec'.key = rec.key /\ rec'.status = rec.status
  <1>a. Same => HasStatus'
    BY ClustersAssumption DEF HasStatus, Idle
  <1>b. \A d \in Clusters : \A objs : Touched(d, objs) => Same
    BY DEF Touched, TypeOK, PassType
  <1>1. ASSUME NEW d \in Clusters, Begin(d) PROVE HasStatus'
    <2>1. rec'.status = Observed(cached[d])
      BY <1>1 DEF Begin
    <2>2. Observed(cached[d]).state # "" /\ NoStatus.state = ""
      BY DEF Observed, NoStatus
    <2>3. rec'.status # NoStatus
      BY <2>1, <2>2
    <2> QED BY <2>3 DEF HasStatus
  <1>2. ASSUME NEW op \in Calls, Call(op) PROVE Same
    BY <1>2 DEF Call, TypeOK, PassType
  <1>3. ASSUME NEW op \in Calls, Refused(op) \/ LostReply(op) PROVE Same
    BY <1>3 DEF Refused, LostReply, Fail
  <1>4. ASSUME NEW d \in Clusters, NEW c, NEW o, Becomes(d, c, o) PROVE Same
    BY <1>4, <1>b DEF Becomes
  <1>5. ASSUME NEW d \in Clusters, NEW s \in Specs, CreateDask(d, s) \/ EditDask(d, s)
        PROVE  Same
    BY <1>5, <1>b DEF CreateDask, EditDask
  <1>6. CASE ApiError \/ Crash \/ UNCHANGED vars
    BY <1>6, <1>a DEF ApiError, Crash, Fail, vars
  <1>7. ASSUME NEW d \in Clusters,
               \/ BeginGone(d) \/ Resync(d)
               \/ \E o \in pending[d] : Deliver(d, o)
        PROVE  Same
    BY <1>7 DEF BeginGone, Resync, Deliver
  <1>8. ASSUME NEW d \in Clusters,
               \/ \E c \in Child : GarbageCollect(d, c)
               \/ \E c \in Rolling : Rollout(d, c)
               \/ \E n \in HandScales : HandScale(d, n)
        PROVE  Same
    BY <1>8, <1>4 DEF GarbageCollect, Rollout, HandScale
  <1> QED BY <1>a, <1>1, <1>2, <1>3, <1>5, <1>6, <1>7, <1>8
          DEF NextKept, Reconciler, ControlPlane, Pods, Users, Faults

\* Whether a status has been published for the Dask that is there.
Told(d) == dask[d].uid = "cur" /\ dask[d].status # NoStatus

\* A step other than a call of the reconciler makes no object, loses none, and
\* changes nothing about what has been published.
LEMMA OtherStep ==
    ASSUME KeptInv,
           \/ \E d \in Clusters : Begin(d) \/ BeginGone(d)
           \/ \E op \in Calls : Refused(op)
           \/ ControlPlane \/ Pods \/ Users \/ ApiError \/ Crash \/ UNCHANGED vars
    PROVE  \A d \in Clusters :
              /\ \A c \in Child : Exists(live'[d][c]) <=> Exists(live[d][c])
              /\ Told(d)' <=> Told(d)
  <1> USE ChildNames
  <1> DEFINE Unseen == \A d \in Clusters :
                /\ \A c \in Child : Exists(live'[d][c]) <=> Exists(live[d][c])
                /\ Told(d)' <=> Told(d)
  <1>0. TypeOK
    BY DEF KeptInv
  <1>1. UNCHANGED <<dask, live>> => Unseen
    BY DEF Told
  <1>2. ASSUME NEW d \in Clusters, NEW c \in Child, NEW o, Becomes(d, c, o),
               Exists(o) <=> Exists(live[d][c])
        PROVE  Unseen
    BY <1>0, <1>2 DEF Becomes, TypeOK, Told
  <1>3. ASSUME NEW d \in Clusters, NEW c \in Child, GarbageCollect(d, c) PROVE Unseen
    BY <1>3 DEF GarbageCollect, KeptInv
  <1>4. ASSUME NEW d \in Clusters, NEW c \in Rolling, Rollout(d, c) PROVE Unseen
    <2>1. PICK q \in {"rolling", "ready"} :
             Becomes(d, c, [live[d][c] EXCEPT !.phase = q])
      BY <1>4 DEF Rollout
    <2>2. c \in Child
      BY BoundsAssumption
    <2>3. live[d][c] \in Object
      BY <1>0, <2>2 DEF TypeOK
    <2>4. Exists([live[d][c] EXCEPT !.phase = q]) <=> Exists(live[d][c])
      BY <2>3, ChangedType DEF Exists
    <2> QED BY <1>2, <2>1, <2>2, <2>4
  <1>5. ASSUME NEW d \in Clusters, NEW n \in HandScales, HandScale(d, n) PROVE Unseen
    <2>1. live[d]["workerDeployment"] \in Object /\ n \in Nat
      BY <1>0, BoundsAssumption DEF TypeOK
    <2>2. Exists([live[d]["workerDeployment"] EXCEPT !.replicas = n])
             <=> Exists(live[d]["workerDeployment"])
      BY <2>1, ChangedType DEF Exists
    <2> QED BY <1>2, <1>5, <2>2 DEF HandScale
  <1>6. ASSUME NEW d \in Clusters, NEW s \in Specs, CreateDask(d, s) PROVE Unseen
    <2>1. dask'[d].status = NoStatus /\ dask[d].uid # "cur" /\ live' = live
      BY <1>0, <1>6 DEF CreateDask, TypeOK
    <2>2. \A e \in Clusters : e # d => dask'[e] = dask[e]
      BY <1>0, <1>6 DEF CreateDask, TypeOK
    <2> QED BY <2>1, <2>2 DEF Told
  <1>7. ASSUME NEW d \in Clusters, NEW s \in Specs, EditDask(d, s) PROVE Unseen
    <2>1. dask'[d].uid = dask[d].uid /\ dask'[d].status = dask[d].status /\ live' = live
      BY <1>0, <1>7 DEF EditDask, TypeOK, DaskType
    <2>2. \A e \in Clusters : e # d => dask'[e] = dask[e]
      BY <1>0, <1>7 DEF EditDask, TypeOK
    <2> QED BY <2>1, <2>2 DEF Told
  <1> QED BY <1>1, <1>3, <1>4, <1>5, <1>6, <1>7
          DEF ControlPlane, Pods, Users, vars, Begin, BeginGone, Refused, Deliver,
              Resync, ApiError, Crash

\* The same, said of any step that is not the effect of a call.
LEMMA UnseenStep ==
    ASSUME KeptInv, [NextKept]_vars,
           ~\E op \in Calls : Due(op) /\ Accepted(op) /\ Apply(op)
    PROVE  \A d \in Clusters :
              /\ \A c \in Child : Exists(live'[d][c]) <=> Exists(live[d][c])
              /\ Told(d)' <=> Told(d)
  BY OtherStep DEF NextKept, Reconciler, Faults, Call, LostReply

-----------------------------------------------------------------------------
(***************************************************************************)
(* The refinement.                                                         *)
(***************************************************************************)

\* The stages, by the objects that complete them.
LEMMA StageNames ==
    /\ DOMAIN LastOf = Bringup!Stage
    /\ \A s \in Bringup!Stage : LastOf[s] \in Gates /\ LastOf[s] \in Child
    /\ \A g \in Gates : \E s \in Bringup!Stage : LastOf[s] = g
    /\ \A s, r \in Bringup!Stage : LastOf[s] = LastOf[r] => s = r
    /\ \A s \in Bringup!Stage : \A r \in Bringup!After[s] :
          /\ r \in Bringup!Stage
          /\ LastOf[r] \in {"config", "schedulerDeployment", "workerDeployment"}
          /\ Rank[LastOf[r]] < Rank[LastOf[s]]
    /\ \A s \in Bringup!Core :
          LastOf[s] \in {"config", "schedulerDeployment", "workerDeployment"}
  BY DEF LastOf, Bringup!Stage, Bringup!After, Bringup!Core, Gates, Child, Gate, Rank

\* The objects every spec asks for.
LEMMA AlwaysWanted ==
    ASSUME NEW g \in {"config", "schedulerDeployment", "workerDeployment"}, NEW s
    PROVE  Wanted(s, g) /\ g \in Gates /\ g \in Child
  BY ChildNames DEF Wanted, Policies, JupyterGroup, Gates

\* The initial states of DaskController are initial states of ClusterBringup.
LEMMA BringupInit == Init => Bringup!Init
  <1> SUFFICES ASSUME Init PROVE Bringup!Init
    OBVIOUS
  <1>1. \A d \in Clusters : StagesOf(live[d]) = StagesOf(Beforehand) \cap Bringup!Stage
    BY StageNames DEF Init, StagesOf
  <1>2. \A d \in Clusters : ~(dask[d].uid = "cur" /\ dask[d].status # NoStatus)
    BY DEF Init, NoDask
  <1> QED BY <1>1, <1>2 DEF Bringup!Init

\* A call of the reconciler completes a stage, publishes a status, or does
\* nothing that ClusterBringup can see.
LEMMA BringupCall ==
    ASSUME KeptInv, TypeOK', HasStatus,
           NEW op \in Calls, Due(op), Accepted(op), Apply(op)
    PROVE  \/ \E s \in Bringup!Stage : Bringup!Complete(rec.key, s)
           \/ Bringup!Tell(rec.key)
           \/ \A d \in Clusters :
                 /\ StagesOf(live'[d]) = StagesOf(live[d])
                 /\ Told(d)' <=> Told(d)
  <1> DEFINE k == rec.key
  <1> USE ChildNames
  <1>0. /\ k \in Clusters /\ op \in rec.todo /\ rec.uid = "cur"
        /\ live \in [Clusters -> [Child -> Object]] /\ dask \in [Clusters -> DaskType]
    BY DEF Due, KeptInv, PassKept, TypeOK
  <1>1. ASSUME NEW g \in {"config", "schedulerDeployment", "workerDeployment"},
               Rank[g] < Rank[op]
        PROVE  Exists(live[k][g])
    <2>1. Wanted(rec.spec, g) /\ g \in Gates /\ g \in Child
      BY AlwaysWanted
    <2>2. g \notin rec.todo
      BY <1>1, <2>1, DueFirst DEF Calls
    <2> QED BY <1>0, <2>1, <2>2 DEF KeptInv, PassKept
  <1>2. CASE op \in Child /\ Create(op)
    <2>1. /\ ~Exists(live[k][op]) /\ Exists(live'[k][op])
          /\ \A d \in Clusters : \A c \in Child :
                d # k \/ c # op => live'[d][c] = live[d][c]
          /\ dask' = dask
      BY <1>0, <1>2 DEF Create, Accepted, Calls, Exists
    <2>2. CASE op \in Gates
      <3>1. PICK s \in Bringup!Stage : LastOf[s] = op
        BY <2>2, StageNames
      <3>2. \A r \in Bringup!Stage : r # s => LastOf[r] # op /\ LastOf[r] \in Child
        BY <3>1, StageNames
      <3>3. s \notin StagesOf(live[k])
        BY <2>1, <3>1, StageNames DEF StagesOf
      <3>4. Bringup!After[s] \subseteq StagesOf(live[k])
        <4> SUFFICES ASSUME NEW r \in Bringup!After[s] PROVE r \in StagesOf(live[k])
          OBVIOUS
        <4>1. Exists(live[k][LastOf[r]]) /\ r \in Bringup!Stage
          BY <1>1, <3>1, StageNames
        <4> QED BY <4>1, StageNames DEF StagesOf
      <3>5. StagesOf(live'[k]) = StagesOf(live[k]) \cup {s}
        BY <1>0, <2>1, <3>1, <3>2, StageNames DEF StagesOf
      <3>6. ASSUME NEW d \in Clusters, d # k PROVE StagesOf(live'[d]) = StagesOf(live[d])
        <4>1. \A r \in Bringup!Stage : live'[d][LastOf[r]] = live[d][LastOf[r]]
          BY <2>1, <3>6, StageNames
        <4> QED BY <4>1, StageNames DEF StagesOf
      <3>7. [d \in Clusters |-> StagesOf(live'[d])] =
               [[d \in Clusters |-> StagesOf(live[d])] EXCEPT ![k] = @ \cup {s}]
        BY <1>0, <3>5, <3>6
      <3> QED BY <1>0, <2>1, <3>3, <3>4, <3>7 DEF Bringup!Complete
    <2>3. CASE op \notin Gates
      <3>1. \A d \in Clusters : \A s \in Bringup!Stage : live'[d][LastOf[s]] = live[d][LastOf[s]]
        BY <2>1, <2>3, StageNames
      <3>2. \A d \in Clusters : StagesOf(live'[d]) = StagesOf(live[d])
        BY <3>1, StageNames DEF StagesOf
      <3> QED BY <2>1, <3>2 DEF Told
    <2> QED BY <2>2, <2>3
  <1>3. CASE op = "scale" /\ Scale
    <2>1. Exists(live[k]["workerDeployment"]) /\ dask' = dask
      BY <1>0, <1>3 DEF KeptInv, PassKept, Scale
    <2>2. \A d \in Clusters : \A c \in Child : Exists(live'[d][c]) <=> Exists(live[d][c])
      <3>1. [live[k]["workerDeployment"] EXCEPT !.replicas = rec.spec.replicas].owner
               = live[k]["workerDeployment"].owner
        BY <1>0 DEF Object
      <3> QED BY <1>0, <1>3, <3>1 DEF Scale, Exists
    <2>3. \A d \in Clusters : StagesOf(live'[d]) = StagesOf(live[d])
      BY <2>2, StageNames DEF StagesOf
    <2> QED BY <2>1, <2>3 DEF Told
  <1>4. CASE op = "status" /\ SaveStatus
    <2>1. live' = live /\ \A d \in Clusters : d # k => dask'[d] = dask[d]
      BY <1>0, <1>4 DEF SaveStatus
    <2>2. dask'[k].uid = dask[k].uid /\ dask'[k].status # NoStatus
      BY <1>0, <1>4 DEF SaveStatus, HasStatus, DaskType
    <2>3. Bringup!Core \subseteq StagesOf(live[k])
      <3> SUFFICES ASSUME NEW s \in Bringup!Core PROVE s \in StagesOf(live[k])
        OBVIOUS
      <3>1. LastOf[s] \in {"config", "schedulerDeployment", "workerDeployment"}
        BY StageNames
      <3>2. Rank[LastOf[s]] < Rank[op]
        BY <1>4, <3>1 DEF Rank
      <3>3. s \in Bringup!Stage
        BY DEF Bringup!Core, Bringup!Stage
      <3> QED BY <1>1, <3>1, <3>2, <3>3, StageNames DEF StagesOf
    <2>4. CASE dask[k].uid = "cur"
      <3>1. [d \in Clusters |-> dask'[d].uid = "cur" /\ dask'[d].status # NoStatus]
            = [[d \in Clusters |-> dask[d].uid = "cur" /\ dask[d].status # NoStatus]
                 EXCEPT ![k] = TRUE]
        BY <1>0, <2>1, <2>2, <2>4
      <3> QED BY <1>0, <2>1, <2>3, <3>1 DEF Bringup!Tell
    <2>5. CASE dask[k].uid # "cur"
      <3>1. \A d \in Clusters : Told(d)' <=> Told(d)
        BY <2>1, <2>2, <2>5 DEF Told
      <3> QED BY <2>1, <3>1
    <2> QED BY <2>4, <2>5
  <1> QED BY <1>2, <1>3, <1>4 DEF Apply

\* Every step of DaskController is one of ClusterBringup, or a stutter.
LEMMA BringupNext ==
    ASSUME KeptInv, HasStatus, [NextKept]_vars
    PROVE  [Bringup!Next]_<<[d \in Clusters |-> StagesOf(live[d])],
                            [d \in Clusters |-> dask[d].uid = "cur"
                                                /\ dask[d].status # NoStatus]>>
  <1> DEFINE B == [d \in Clusters |-> StagesOf(live[d])]
             T == [d \in Clusters |-> dask[d].uid = "cur" /\ dask[d].status # NoStatus]
             Unseen == \A d \in Clusters : /\ StagesOf(live'[d]) = StagesOf(live[d])
                                           /\ Told(d)' <=> Told(d)
  <1>1. Unseen => B' = B /\ T' = T
    BY DEF Told
  <1>2. CASE \E op \in Calls : Due(op) /\ Accepted(op) /\ Apply(op)
    <2>1. PICK op \in Calls : Due(op) /\ Accepted(op) /\ Apply(op)
      BY <1>2
    <2>2. TypeOK'
      BY NextType DEF KeptInv, NextKept, Next
    <2>3. rec.key \in Clusters
      BY <2>1 DEF Due
    <2>4. \/ \E s \in Bringup!Stage : Bringup!Complete(rec.key, s)
          \/ Bringup!Tell(rec.key)
          \/ Unseen
      BY <2>1, <2>2, BringupCall
    <2>5. CASE Unseen
      BY <1>1, <2>5
    <2>6. CASE \/ Bringup!Tell(rec.key)
               \/ \E s \in Bringup!Stage : Bringup!Complete(rec.key, s)
      <3>1. Bringup!Next
        BY <2>3, <2>6 DEF Bringup!Next, Bringup!Tell, Bringup!Complete
      <3> QED BY <3>1
    <2> QED BY <2>4, <2>5, <2>6
  <1>3. CASE ~\E op \in Calls : Due(op) /\ Accepted(op) /\ Apply(op)
    <2>1. \A d \in Clusters :
             /\ \A c \in Child : Exists(live'[d][c]) <=> Exists(live[d][c])
             /\ Told(d)' <=> Told(d)
      BY <1>3, UnseenStep
    <2>2. Unseen
      BY <2>1, StageNames, ChildNames DEF StagesOf
    <2> QED BY <1>1, <2>2
  <1> QED BY <1>2, <1>3

\* While nothing is deleted, the Dask controller implements ClusterBringup: stages
\* are completed in its order, never lost, and told of in time.
THEOREM BringupIsFollowed == SpecKept => FollowsBringup
  <1> DEFINE I == KeptInv /\ HasStatus
  <1>1. Init => I /\ Bringup!Init
    BY KeptInit, HasStatusInit, BringupInit
  <1>2. I /\ [NextKept]_vars => I'
    BY KeptNext, HasStatusNext DEF KeptInv
  <1>3. I /\ [NextKept]_vars =>
          [Bringup!Next]_<<[d \in Clusters |-> StagesOf(live[d])],
                           [d \in Clusters |-> dask[d].uid = "cur"
                                               /\ dask[d].status # NoStatus]>>
    BY BringupNext
  <1> QED BY <1>1, <1>2, <1>3, PTL DEF SpecKept, FollowsBringup, Bringup!Spec
=============================================================================
