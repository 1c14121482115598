----------------------- MODULE DaskControllerProofs -----------------------
(***************************************************************************)
(* Proofs about DaskController, for any set of Dask resources, any specs,  *)
(* any names taken beforehand and any bounds.                              *)
(***************************************************************************)
EXTENDS DaskController, FiniteSetTheorems, TLAPS

-----------------------------------------------------------------------------
(***************************************************************************)
(* Types.                                                                  *)
(***************************************************************************)

\* The names of the children and of the calls.
LEMMA ChildNames ==
    /\ Child = {"dnsPolicy", "serviceAccount", "config", "jupyterPolicy",
                "jupyterService", "jupyterDeployment", "schedulerPolicy",
                "schedulerService", "schedulerDeployment", "workerPolicy",
                "workerDeployment", "ingress"}
    /\ Watched \subseteq Child /\ Gates \subseteq Watched /\ Deployments \subseteq Gates
    /\ \A c \in Child : Gate[c] \in Gates
    /\ "scale" \notin Child /\ "status" \notin Child /\ "dask" \notin Child
    /\ "workerDeployment" \in Watched
  BY DEF Child, Gate, Watched, Gates, Deployments

\* What the passes count is a status.
LEMMA ObservedType ==
    ASSUME NEW kids
    PROVE  Observed(kids) \in Status
  <1> DEFINE found == {c \in Deployments : Exists(kids[c])}
             done  == {c \in found : kids[c].phase # "rolling"}
  <1>1. IsFiniteSet(Deployments)
    <2>1. IsFiniteSet({})
      BY FS_EmptySet
    <2>2. IsFiniteSet({} \cup {"jupyterDeployment"})
      BY <2>1, FS_AddElement
    <2>3. IsFiniteSet(({} \cup {"jupyterDeployment"}) \cup {"schedulerDeployment"})
      BY <2>2, FS_AddElement
    <2>4. IsFiniteSet((({} \cup {"jupyterDeployment"}) \cup {"schedulerDeployment"})
                        \cup {"workerDeployment"})
      BY <2>3, FS_AddElement
    <2>5. Deployments = (({} \cup {"jupyterDeployment"}) \cup {"schedulerDeployment"})
                          \cup {"workerDeployment"}
      BY DEF Deployments
    <2> QED BY <2>4, <2>5
  <1>2. IsFiniteSet(found) /\ IsFiniteSet(done)
    BY <1>1, FS_Subset
  <1>3. Cardinality(found) \in Nat /\ Cardinality(done) \in Nat
    BY <1>2, FS_CardinalityType
  <1> QED BY <1>3 DEF Observed, Status

\* The initial values have their types.
LEMMA NothingType ==
    /\ NoSpec \in SpecType /\ NoStatus \in Status /\ NoDask \in DaskType
    /\ Absent \in Object /\ Taken \in Object /\ Idle \in PassType
  BY DEF NoSpec, SpecType, NoStatus, Status, NoDask, DaskType, Absent, Taken,
         Object, Idle, PassType

LEMMA InitType == Init => TypeOK
  <1> SUFFICES ASSUME Init PROVE TypeOK
    OBVIOUS
  <1> USE NothingType, ChildNames
  <1>1. Beforehand \in [Child -> Object]
    BY DEF Beforehand
  <1>2. rec = Idle /\ rec.key = NoCluster
    BY DEF Init, Idle
  <1>3. live \in [Clusters -> [Child -> Object]]
    BY <1>1 DEF Init
  <1>4. cached \in [Clusters -> [Watched -> Object]]
    BY <1>1 DEF Init
  <1>5. dask \in [Clusters -> DaskType] /\ cdask \in [Clusters -> CachedDaskType]
    BY DEF Init, DaskType, CachedDaskType
  <1> QED BY <1>2, <1>3, <1>4, <1>5, ClustersAssumption DEF Init, TypeOK

\* A pass whose copies are marked stale is still a pass.
LEMMA TouchedType ==
    ASSUME TypeOK, NEW d \in Clusters, NEW objs, Touched(d, objs)
    PROVE  /\ rec' \in PassType
           /\ rec'.key = NoCluster => rec' = Idle
           /\ rec'.key \in Clusters => "status" \in rec'.todo
  BY ClustersAssumption DEF TypeOK, Touched, PassType

LEMMA FailType ==
    ASSUME TypeOK, rec.key \in Clusters, Fail
    PROVE  /\ rec' \in PassType
           /\ rec'.key = NoCluster => rec' = Idle
           /\ rec'.key \in Clusters => "status" \in rec'.todo
           /\ queue' \in SUBSET Clusters
  BY NothingType, ClustersAssumption DEF TypeOK, Fail, Idle

LEMMA ApplyType ==
    ASSUME TypeOK, NEW op \in Calls, Due(op), Accepted(op), Apply(op)
    PROVE  /\ dask' \in [Clusters -> DaskType]
           /\ live' \in [Clusters -> [Child -> Object]]
           /\ pending' \in [Clusters -> SUBSET (Watched \cup {"dask"})]
  <1> DEFINE d == rec.key
  <1> USE ChildNames
  <1>0. d \in Clusters
    BY DEF Due
  <1>1. /\ live[d] \in [Child -> Object] /\ rec.uid \in {"none", "cur", "gone"}
        /\ rec.spec.replicas \in Nat /\ rec.status \in Status
        /\ pending[d] \in SUBSET (Watched \cup {"dask"}) /\ dask[d] \in DaskType
    BY <1>0 DEF TypeOK, PassType, SpecType
  <1>2. CASE op \in Child /\ Create(op)
    <2> DEFINE o == [owner |-> rec.uid, phase |-> "fresh",
                     replicas |-> IF op = "workerDeployment" THEN rec.spec.replicas ELSE 0]
    <2>1. o \in Object
      BY <1>1 DEF Object
    <2>2. live' = [live EXCEPT ![d] = [live[d] EXCEPT ![op] = o]]
      BY <1>2, <1>0, <1>1 DEF Create, TypeOK
    <2>3. [live[d] EXCEPT ![op] = o] \in [Child -> Object]
      BY <2>1, <1>1, <1>2
    <2>4. live' \in [Clusters -> [Child -> Object]]
      BY <2>2, <2>3 DEF TypeOK
    <2> QED BY <2>4, <1>2, <1>0, <1>1 DEF Create, TypeOK
  <1>3. CASE op = "scale" /\ Scale
    <2> DEFINE o == [live[d]["workerDeployment"] EXCEPT !.replicas = rec.spec.replicas]
    <2>1. o \in Object
      BY <1>1 DEF Object
    <2>2. live' = [live EXCEPT ![d] = [live[d] EXCEPT !["workerDeployment"] = o]]
      BY <1>3, <1>0, <1>1 DEF Scale, TypeOK
    <2>3. [live[d] EXCEPT !["workerDeployment"] = o] \in [Child -> Object]
      BY <2>1, <1>1
    <2>4. live' \in [Clusters -> [Child -> Object]]
      BY <2>2, <2>3 DEF TypeOK
    <2> QED BY <2>4, <1>3, <1>0, <1>1 DEF Scale, TypeOK
  <1>4. CASE op = "status" /\ SaveStatus
    <2>1. [dask[d] EXCEPT !.status = rec.status] \in DaskType
      BY <1>1 DEF DaskType
    <2> QED BY <2>1, <1>4, <1>0, <1>1 DEF SaveStatus, TypeOK
  <1> QED BY <1>2, <1>3, <1>4 DEF Apply

\* A change by someone else than the reconciler.
LEMMA BecomesType ==
    ASSUME TypeOK, NEW d \in Clusters, NEW c \in Child, NEW o \in Object, Becomes(d, c, o)
    PROVE  TypeOK'
  <1> USE ChildNames
  <1>1. /\ rec' \in PassType
        /\ rec'.key = NoCluster => rec' = Idle
        /\ rec'.key \in Clusters => "status" \in rec'.todo
    BY TouchedType DEF Becomes
  <1>2. live[d] \in [Child -> Object] /\ [live[d] EXCEPT ![c] = o] \in [Child -> Object]
    BY DEF TypeOK
  <1>3. live' = [live EXCEPT ![d] = [live[d] EXCEPT ![c] = o]]
    BY <1>2 DEF Becomes, TypeOK
  <1>4. live' \in [Clusters -> [Child -> Object]]
    BY <1>2, <1>3 DEF TypeOK
  <1>5. pending' \in [Clusters -> SUBSET (Watched \cup {"dask"})]
    BY DEF Becomes, TypeOK
  <1> QED BY <1>1, <1>4, <1>5, ClustersAssumption DEF Becomes, TypeOK

\* The deletion of a Dask changes owners, and nothing else about the objects.
LEMMA OrphanedType ==
    ASSUME NEW o \in Object
    PROVE  /\ Orphaned(o) \in Object
           /\ Orphaned(o).phase = o.phase /\ Orphaned(o).replicas = o.replicas
           /\ Exists(Orphaned(o)) <=> Exists(o)
           /\ OwnedByDask(Orphaned(o)) <=> OwnedByDask(o)
           /\ Orphaned(o).owner = "foreign" <=> o.owner = "foreign"
  BY DEF Orphaned, Object, Exists, OwnedByDask

LEMMA DeceasedType ==
    ASSUME NEW x \in CachedDaskType
    PROVE  Deceased(x) \in CachedDaskType /\ Deceased(x).spec = x.spec
  BY DEF Deceased, CachedDaskType

\* A change of pods or of the replica count leaves an object.
LEMMA ChangedType ==
    ASSUME NEW o \in Object, NEW p \in {"rolling", "ready"}, NEW n \in Nat
    PROVE  /\ [o EXCEPT !.phase = p] \in Object
           /\ [o EXCEPT !.replicas = n] \in Object
           /\ [o EXCEPT !.phase = p].owner = o.owner
           /\ [o EXCEPT !.replicas = n].owner = o.owner
  BY DEF Object

LEMMA DeleteDaskType ==
    ASSUME TypeOK, NEW d \in Clusters, DeleteDask(d)
    PROVE  TypeOK'
  <1> USE ChildNames, NothingType
  <1>1. dask' \in [Clusters -> DaskType] /\ queue' \in SUBSET Clusters
    BY DEF DeleteDask, TypeOK
  <1>2. live' \in [Clusters -> [Child -> Object]]
    <2>1. [c \in Child |-> Orphaned(live[d][c])] \in [Child -> Object]
      BY OrphanedType DEF TypeOK
    <2> QED BY <2>1 DEF DeleteDask, TypeOK
  <1>3. cached' \in [Clusters -> [Watched -> Object]]
    <2>1. [c \in Watched |-> Orphaned(cached[d][c])] \in [Watched -> Object]
      BY OrphanedType DEF TypeOK
    <2> QED BY <2>1 DEF DeleteDask, TypeOK
  <1>4. cdask' \in [Clusters -> CachedDaskType]
    <2>1. Deceased(cdask[d]) \in CachedDaskType
      BY DeceasedType DEF TypeOK
    <2> QED BY <2>1 DEF DeleteDask, TypeOK
  <1>5. pending' \in [Clusters -> SUBSET (Watched \cup {"dask"})]
    BY DEF DeleteDask, TypeOK
  <1>6. /\ rec' \in PassType
        /\ rec'.key = NoCluster => rec' = Idle
        /\ rec'.key \in Clusters => "status" \in rec'.todo
    BY ClustersAssumption DEF DeleteDask, TypeOK, PassType, Deceased
  <1> QED BY <1>1, <1>2, <1>3, <1>4, <1>5, <1>6 DEF TypeOK

LEMMA DeliverType ==
    ASSUME TypeOK, NEW d \in Clusters, NEW o \in pending[d], Deliver(d, o)
    PROVE  TypeOK'
  <1> USE ChildNames
  <1>1. o \in Watched \cup {"dask"} /\ o # "dask" => o \in Watched
    BY DEF TypeOK
  <1>2. pending' \in [Clusters -> SUBSET (Watched \cup {"dask"})] /\ queue' \in SUBSET Clusters
    BY DEF Deliver, TypeOK
  <1>3. cdask' \in [Clusters -> CachedDaskType]
    <2>1. dask[d] \in DaskType /\ DaskType \subseteq CachedDaskType
      BY DEF TypeOK, DaskType, CachedDaskType
    <2>2. cdask' = [cdask EXCEPT ![d] = dask[d]] \/ cdask' = cdask
      BY DEF Deliver
    <2> QED BY <2>1, <2>2 DEF TypeOK
  <1>4. cached' \in [Clusters -> [Watched -> Object]]
    <2>1. CASE o = "dask"
      BY <2>1 DEF Deliver, TypeOK
    <2>2. CASE o # "dask"
      <3>1. /\ live[d][o] \in Object /\ cached[d] \in [Watched -> Object]
            /\ [cached[d] EXCEPT ![o] = live[d][o]] \in [Watched -> Object]
        BY <2>2, <1>1 DEF TypeOK
      <3>2. cached' = [cached EXCEPT ![d] = [cached[d] EXCEPT ![o] = live[d][o]]]
        BY <2>2, <3>1 DEF Deliver, TypeOK
      <3> QED BY <3>1, <3>2 DEF TypeOK
    <2> QED BY <2>1, <2>2
  <1> QED BY <1>2, <1>3, <1>4 DEF Deliver, TypeOK

\* Every step keeps the types.
LEMMA NextType == TypeOK /\ [Next]_vars => TypeOK'
  <1> SUFFICES ASSUME TypeOK, [Next]_vars PROVE TypeOK'
    OBVIOUS
  <1> USE ChildNames, NothingType
  <1>1. ASSUME NEW d \in Clusters, Begin(d) PROVE TypeOK'
    <2>1. rec' \in PassType
      <3>1. ToDo(cdask[d].spec, cached[d]) \in SUBSET Calls
        BY DEF ToDo, Calls
      <3>2. /\ Observed(cached[d]) \in Status
            /\ cdask[d].spec \in SpecType /\ cdask[d].uid \in {"none", "cur", "gone"}
        BY ObservedType DEF TypeOK, CachedDaskType
      <3> QED BY <1>1, <3>1, <3>2 DEF Begin, PassType
    <2>2. rec'.key = d /\ d # NoCluster /\ "status" \in rec'.todo
      BY <1>1, ClustersAssumption DEF Begin, ToDo
    <2> QED BY <1>1, <2>1, <2>2 DEF Begin, TypeOK
  <1>2. ASSUME NEW d \in Clusters, BeginGone(d) PROVE TypeOK'
    BY <1>2 DEF BeginGone, TypeOK
  <1>3. ASSUME NEW op \in Calls, Call(op) PROVE TypeOK'
    <2>1. /\ dask' \in [Clusters -> DaskType]
          /\ live' \in [Clusters -> [Child -> Object]]
          /\ pending' \in [Clusters -> SUBSET (Watched \cup {"dask"})]
      BY <1>3, ApplyType DEF Call
    <2>2. /\ rec' \in PassType
          /\ rec'.key = NoCluster => rec' = Idle
          /\ rec'.key \in Clusters => "status" \in rec'.todo
      <3>1. CASE op = "status"
        BY <1>3, <3>1, ClustersAssumption DEF Call, Idle
      <3>2. CASE op # "status"
        <4>1. /\ rec \in PassType /\ rec' = [rec EXCEPT !.todo = @ \ {op}]
              /\ rec.key \in Clusters /\ "status" \in rec.todo
          BY <1>3, <3>2 DEF Call, Due, TypeOK
        <4>2. rec' \in PassType /\ rec'.key = rec.key /\ rec'.todo = rec.todo \ {op}
          BY <4>1 DEF PassType
        <4> QED BY <3>2, <4>1, <4>2, ClustersAssumption
      <3> QED BY <3>1, <3>2
    <2> QED BY <1>3, <2>1, <2>2 DEF Call, TypeOK
  <1>4. ASSUME NEW op \in Calls, Refused(op) PROVE TypeOK'
    BY <1>4, FailType DEF Refused, Due, TypeOK
  <1>5. ASSUME NEW d \in Clusters, NEW o \in pending[d], Deliver(d, o) PROVE TypeOK'
    BY <1>5, DeliverType
  <1>6. ASSUME NEW d \in Clusters, Resync(d) PROVE TypeOK'
    BY <1>6 DEF Resync, TypeOK
  <1>7. ASSUME NEW d \in Clusters, NEW c \in Child, GarbageCollect(d, c) PROVE TypeOK'
    BY <1>7, BecomesType DEF GarbageCollect
  <1>8. ASSUME NEW d \in Clusters, NEW c \in Rolling, Rollout(d, c) PROVE TypeOK'
    <2>1. PICK p \in {"rolling", "ready"} :
             Becomes(d, c, [live[d][c] EXCEPT !.phase = p])
      BY <1>8 DEF Rollout
    <2>2. c \in Child
      BY BoundsAssumption
    <2>3. live[d][c] \in Object
      BY <2>2 DEF TypeOK
    <2>4. [live[d][c] EXCEPT !.phase = p] \in Object
      BY <2>3, ChangedType
    <2> QED BY <2>1, <2>2, <2>4, BecomesType
  <1>9. ASSUME NEW d \in Clusters, NEW s \in Specs, CreateDask(d, s) PROVE TypeOK'
    <2>1. [uid |-> "cur", spec |-> s, status |-> NoStatus] \in DaskType
      BY SpecsAssumption DEF DaskType
    <2>2. /\ rec' \in PassType
          /\ rec'.key = NoCluster => rec' = Idle
          /\ rec'.key \in Clusters => "status" \in rec'.todo
      BY <1>9, TouchedType DEF CreateDask
    <2> QED BY <1>9, <2>1, <2>2 DEF CreateDask, TypeOK
  <1>10. ASSUME NEW d \in Clusters, NEW s \in Specs, EditDask(d, s) PROVE TypeOK'
    <2>1. [dask[d] EXCEPT !.spec = s] \in DaskType
      <3>1. dask[d] \in DaskType /\ s \in SpecType
        BY SpecsAssumption DEF TypeOK
      <3> QED BY <3>1 DEF DaskType
    <2>2. /\ rec' \in PassType
          /\ rec'.key = NoCluster => rec' = Idle
          /\ rec'.key \in Clusters => "status" \in rec'.todo
      BY <1>10, TouchedType DEF EditDask
    <2> QED BY <1>10, <2>1, <2>2 DEF EditDask, TypeOK
  <1>11. ASSUME NEW d \in Clusters, NEW n \in HandScales, HandScale(d, n) PROVE TypeOK'
    <2>1. [live[d]["workerDeployment"] EXCEPT !.replicas = n] \in Object
      <3>1. live[d]["workerDeployment"] \in Object /\ n \in Nat
        BY BoundsAssumption DEF TypeOK
      <3> QED BY <3>1, ChangedType
    <2> QED BY <1>11, <2>1, BecomesType DEF HandScale
  <1>12. ASSUME NEW d \in Clusters, DeleteDask(d) PROVE TypeOK'
    BY <1>12, DeleteDaskType
  <1>13. ASSUME NEW d \in Clusters, NEW c \in Removable, DeleteChild(d, c) PROVE TypeOK'
    BY <1>13, BoundsAssumption, BecomesType DEF DeleteChild
  <1>14. CASE ApiError
    BY <1>14, FailType DEF ApiError, TypeOK
  <1>15. ASSUME NEW op \in Calls, LostReply(op) PROVE TypeOK'
    BY <1>15, ApplyType, FailType DEF LostReply, Due, TypeOK
  <1>16. CASE Crash
    <2>1. cached' \in [Clusters -> [Watched -> Object]]
      <3>0. \A d \in Clusters : \A c \in Watched : live[d][c] \in Object
        BY DEF TypeOK
      <3>1. \A d \in Clusters : [c \in Watched |-> live[d][c]] \in [Watched -> Object]
        BY <3>0
      <3>2. cached' = [d \in Clusters |-> [c \in Watched |-> live[d][c]]]
        BY <1>16 DEF Crash
      <3> QED BY <3>1, <3>2
    <2>2. cdask' \in [Clusters -> CachedDaskType]
      BY <1>16 DEF Crash, TypeOK, DaskType, CachedDaskType
    <2>3. rec' = Idle /\ rec'.key = NoCluster
      BY <1>16 DEF Crash, Idle
    <2>4. /\ dask' \in [Clusters -> DaskType] /\ live' \in [Clusters -> [Child -> Object]]
          /\ pending' \in [Clusters -> SUBSET (Watched \cup {"dask"})]
          /\ queue' \in SUBSET Clusters
      BY <1>16 DEF Crash, TypeOK
    <2> QED BY <2>1, <2>2, <2>3, <2>4, ClustersAssumption DEF TypeOK
  <1>17. CASE UNCHANGED vars
    BY <1>17 DEF vars, TypeOK
  <1> QED BY <1>1, <1>2, <1>3, <1>4, <1>5, <1>6, <1>7, <1>8, <1>9, <1>10, <1>11,
             <1>12, <1>13, <1>14, <1>15, <1>16, <1>17
      DEF Next, Reconciler, ControlPlane, Pods, Users, Removals, Faults

\* The types hold in every behaviour, with and without faults and removals.
THEOREM TypeCorrect == Spec => []TypeOK
  BY InitType, NextType, PTL DEF Spec

-----------------------------------------------------------------------------
(***************************************************************************)
(* The order of creation, while nothing is deleted.                        *)
(***************************************************************************)

\* The order of the calls, as far as the proofs need it.
LEMMA Order ==
    /\ \A op \in Calls : Rank[op] \in Nat
    /\ \A op \in Calls \ {"status"} : Rank[op] < Rank["status"]
    /\ \A c \in Child : Gate[c] # c => Rank[c] < Rank[Gate[c]]
  BY DEF Calls, Child, Rank, Gate

\* What an object needs is created before it: a gate that every spec wants, or a
\* Service or ServiceAccount of its own group.
LEMMA NeedsFirst ==
    ASSUME NEW c \in DOMAIN Needs, NEW p \in Needs[c]
    PROVE  /\ c \in Child /\ p \in Child /\ p \notin Policies /\ Rank[p] < Rank[c]
           /\ p \in Gates \ {"jupyterDeployment", "ingress"} \/ Gate[p] = c
  BY DEF Needs, Child, Gate, Policies, Rank, Gates

\* What a call that is due still waits for is not among the calls to come.
LEMMA DueFirst ==
    ASSUME NEW op \in Calls, Due(op), NEW x \in Calls, Rank[x] < Rank[op]
    PROVE  x \notin rec.todo
  BY Order DEF Due

\* When the status update is due, it is the only call left.
LEMMA StatusLast ==
    ASSUME TypeOK, Due("status")
    PROVE  rec.todo = {"status"}
  <1>1. "status" \in Calls /\ rec.todo \in SUBSET Calls
    BY DEF Calls, TypeOK, PassType
  <1>2. ASSUME NEW x \in rec.todo PROVE x = "status"
    <2>1. Rank["status"] <= Rank[x]
      BY DEF Due
    <2>2. Rank["status"] \in Nat /\ Rank[x] \in Nat
      BY <1>1, Order
    <2> QED BY <1>1, <2>1, <2>2, Order
  <1> QED BY <1>2 DEF Due

\* A step that makes no object, publishes no status and starts no pass.
LEMMA KeptUnmoved ==
    ASSUME KeptInv, TypeOK',
           \A d \in Clusters : \A c \in Child :
              /\ Exists(live'[d][c]) <=> Exists(live[d][c])
              /\ OwnedByDask(live'[d][c]) <=> OwnedByDask(live[d][c])
              /\ live'[d][c].owner # "gone",
           \/ rec' = Idle
           \/ rec'.key = rec.key /\ rec'.uid = rec.uid /\ rec'.spec = rec.spec
                 /\ rec'.todo = rec.todo,
           \A d \in Clusters : dask'[d].status \in {NoStatus, dask[d].status},
           \A d \in Clusters : cdask'[d].uid # "gone",
           \A d \in Clusters : \A c \in Watched :
              Exists(cached'[d][c]) => Exists(cached[d][c]) \/ Exists(live[d][c])
    PROVE  KeptInv'
  <1> USE ChildNames
  <1>1. ASSUME NEW d \in Clusters PROVE PassKept(d)'
    <2>1. CASE rec' = Idle
      BY <2>1, ClustersAssumption DEF PassKept, Idle
    <2>2. CASE rec'.key = rec.key /\ rec'.uid = rec.uid /\ rec'.spec = rec.spec
                 /\ rec'.todo = rec.todo
      BY <2>2 DEF KeptInv, PassKept
    <2> QED BY <2>1, <2>2
  <1>2. DependenciesFirst'
    BY NeedsFirst DEF KeptInv, DependenciesFirst
  <1>3. StatusWitnessed'
    BY DEF KeptInv, StatusWitnessed, Gates
  <1> QED BY <1>1, <1>2, <1>3 DEF KeptInv

\* The effect of a call, answered or not.
LEMMA KeptApply ==
    ASSUME KeptInv, TypeOK', NEW op \in Calls, Due(op), Accepted(op), Apply(op),
           UNCHANGED <<cdask, cached>>
    PROVE  /\ \A d \in Clusters : \A c \in Child :
                 /\ Exists(live[d][c]) => Exists(live'[d][c])
                 /\ live'[d][c].owner # "gone"
           /\ op \in Child => Exists(live'[rec.key][op])
           /\ DependenciesFirst'
           /\ StatusWitnessed'
  <1> DEFINE k == rec.key
  <1> USE ChildNames
  <1>0. /\ k \in Clusters /\ rec.uid = "cur" /\ op \in rec.todo
        /\ live \in [Clusters -> [Child -> Object]] /\ live[k] \in [Child -> Object]
        /\ dask \in [Clusters -> DaskType]
    BY DEF Due, KeptInv, PassKept, TypeOK
  <1>1. CASE op \in Child /\ Create(op)
    <2>1. /\ live'[k][op].owner = "cur" /\ ~Exists(live[k][op])
          /\ \A d \in Clusters : \A c \in Child :
                d # k \/ c # op => live'[d][c] = live[d][c]
      BY <1>0, <1>1 DEF Create, Accepted, Calls
    <2>2. \A d \in Clusters : \A c \in Child :
             Exists(live[d][c]) => Exists(live'[d][c]) /\ live'[d][c] = live[d][c]
      BY <2>1
    <2>3. op \in DOMAIN Needs => \A p \in Needs[op] : Exists(live[k][p])
      <3> SUFFICES ASSUME op \in DOMAIN Needs, NEW p \in Needs[op] PROVE Exists(live[k][p])
        OBVIOUS
      <3>0. /\ p \in Child /\ p \notin Policies /\ Rank[p] < Rank[op]
            /\ p \in Gates \ {"jupyterDeployment", "ingress"} \/ Gate[p] = op
        BY NeedsFirst
      <3>1. p \in Child \ rec.todo
        BY <3>0, DueFirst DEF Calls
      <3>2. CASE p \in Gates \ {"jupyterDeployment", "ingress"}
        <4>1. Wanted(rec.spec, p)
          BY <3>2 DEF Wanted, Gates, Policies, JupyterGroup
        <4> QED BY <1>0, <3>1, <3>2, <4>1 DEF KeptInv, PassKept
      <3>3. CASE Gate[p] = op
        <4>1. Wanted(rec.spec, op)
          BY <1>0, <1>1 DEF KeptInv, PassKept
        <4>2. p \in JupyterGroup => op \in JupyterGroup
          BY <3>1, <3>3 DEF Gate, JupyterGroup
        <4>3. Wanted(rec.spec, p)
          BY <3>0, <3>1, <3>3, <4>1, <4>2 DEF Wanted, Gate, Child
        <4> QED BY <1>0, <3>1, <3>3, <4>3 DEF KeptInv, PassKept
      <3> QED BY <3>0, <3>2, <3>3
    <2>4. DependenciesFirst'
      <3> SUFFICES ASSUME NEW d \in Clusters, NEW c \in DOMAIN Needs,
                          OwnedByDask(live'[d][c]), NEW p \in Needs[c]
                   PROVE  Exists(live'[d][p])
        BY DEF DependenciesFirst
      <3>1. c \in Child /\ p \in Child
        BY NeedsFirst
      <3>2. CASE d = k /\ c = op
        BY <1>0, <2>2, <2>3, <3>1, <3>2
      <3>3. CASE d # k \/ c # op
        BY <2>1, <2>2, <3>1, <3>3 DEF KeptInv, DependenciesFirst
      <3> QED BY <3>2, <3>3
    <2>5. StatusWitnessed'
      BY <1>1, <2>2 DEF KeptInv, StatusWitnessed, Create, Gates
    <2> QED BY <1>1, <2>1, <2>2, <2>4, <2>5 DEF KeptInv, Exists
  <1>2. CASE op = "scale" /\ Scale
    <2>1. Exists(live[k]["workerDeployment"])
      BY <1>0, <1>2 DEF KeptInv, PassKept
    <2>2. \A d \in Clusters : \A c \in Child : live'[d][c].owner = live[d][c].owner
      <3>1. \A d \in Clusters : \A c \in Child : live[d][c] \in Object
        BY <1>0
      <3>2. live'[k]["workerDeployment"] =
               [live[k]["workerDeployment"] EXCEPT !.replicas = rec.spec.replicas]
        BY <1>0, <1>2 DEF Scale
      <3>3. live'[k]["workerDeployment"].owner = live[k]["workerDeployment"].owner
        BY <1>0, <3>1, <3>2 DEF Object
      <3>4. \A d \in Clusters : \A c \in Child :
               d # k \/ c # "workerDeployment" => live'[d][c] = live[d][c]
        BY <1>0, <1>2 DEF Scale
      <3> QED BY <3>3, <3>4
    <2>e. \A d \in Clusters : \A c \in Child :
             /\ Exists(live'[d][c]) <=> Exists(live[d][c])
             /\ OwnedByDask(live'[d][c]) <=> OwnedByDask(live[d][c])
      BY <2>2 DEF Exists, OwnedByDask
    <2>3. DependenciesFirst'
      BY <2>e, NeedsFirst DEF KeptInv, DependenciesFirst
    <2>4. StatusWitnessed'
      BY <1>2, <2>e DEF KeptInv, StatusWitnessed, Scale, Gates
    <2> QED BY <1>2, <2>2, <2>3, <2>4 DEF KeptInv, Exists
  <1>3. CASE op = "status" /\ SaveStatus
    <2>1. rec.todo = {"status"}
      BY <1>3, StatusLast DEF KeptInv
    <2>2. \A g \in {"config", "schedulerDeployment", "workerDeployment"} :
             Exists(live[k][g])
      <3> SUFFICES ASSUME NEW g \in {"config", "schedulerDeployment", "workerDeployment"}
                   PROVE  Exists(live[k][g])
        OBVIOUS
      <3>1. Wanted(rec.spec, g) /\ g \in Gates
        BY DEF Wanted, Policies, JupyterGroup, Gates
      <3>2. g \in Child \ rec.todo
        BY <2>1, <3>1
      <3> QED BY <1>0, <3>1, <3>2 DEF KeptInv, PassKept
    <2>3. live' = live /\ \A d \in Clusters : d # k => dask'[d] = dask[d]
      BY <1>0, <1>3 DEF SaveStatus
    <2>4. StatusWitnessed'
      BY <2>2, <2>3 DEF KeptInv, StatusWitnessed
    <2>5. DependenciesFirst'
      BY <2>3, NeedsFirst DEF KeptInv, DependenciesFirst
    <2> QED BY <1>3, <2>3, <2>4, <2>5 DEF KeptInv
  <1> QED BY <1>1, <1>2, <1>3 DEF Apply

LEMMA KeptInit == Init => KeptInv
  <1> SUFFICES ASSUME Init PROVE KeptInv
    OBVIOUS
  <1> USE ChildNames
  <1>1. TypeOK
    BY InitType
  <1>2. \A d \in Clusters : PassKept(d)
    BY ClustersAssumption DEF Init, Idle, PassKept
  <1>3. \A d \in Clusters : \A c \in Child :
           live[d][c] = Beforehand[c] /\ live[d][c].owner \in {"none", "foreign"}
    BY DEF Init, Beforehand, Absent, Taken
  <1>4. \A d \in Clusters : /\ cdask[d].uid # "gone" /\ dask[d].status = NoStatus
                            /\ \A c \in Watched : cached[d][c] = live[d][c]
    BY DEF Init, NoDask
  <1>5. DependenciesFirst
    BY <1>3, NeedsFirst DEF DependenciesFirst, OwnedByDask
  <1>6. StatusWitnessed
    BY <1>4 DEF StatusWitnessed
  <1>7. \A d \in Clusters :
           /\ cdask[d].uid # "gone"
           /\ \A c \in Child : live[d][c].owner # "gone"
           /\ \A c \in Watched : Exists(cached[d][c]) => Exists(live[d][c])
    <2>1. \A d \in Clusters : \A c \in Child : live[d][c].owner # "gone"
      BY <1>3
    <2>2. \A d \in Clusters : \A c \in Watched : cached[d][c] = live[d][c]
      BY <1>4
    <2> QED BY <1>4, <2>1, <2>2
  <1> QED BY <1>1, <1>2, <1>5, <1>6, <1>7 DEF KeptInv

\* A change by the pods or by "kubectl scale" is one that makes no object.
LEMMA KeptBecomes ==
    ASSUME KeptInv, NEW d \in Clusters, NEW c \in Child, NEW o \in Object,
           o.owner = live[d][c].owner, Becomes(d, c, o)
    PROVE  KeptInv'
  <1> USE ChildNames
  <1>1. TypeOK'
    BY BecomesType DEF KeptInv
  <1>2. \A e \in Clusters : \A x \in Child : live'[e][x].owner = live[e][x].owner
    BY DEF Becomes, KeptInv, TypeOK
  <1>3. /\ rec'.key = rec.key /\ rec'.uid = rec.uid /\ rec'.spec = rec.spec
        /\ rec'.todo = rec.todo
    BY DEF Becomes, Touched, KeptInv, TypeOK, PassType
  <1>4. UNCHANGED <<dask, cdask, cached>>
    BY DEF Becomes
  <1>o. \A e \in Clusters : \A x \in Child : live[e][x].owner # "gone"
    BY DEF KeptInv
  <1>5. \A e \in Clusters : \A x \in Child :
           /\ Exists(live'[e][x]) <=> Exists(live[e][x])
           /\ OwnedByDask(live'[e][x]) <=> OwnedByDask(live[e][x])
           /\ live'[e][x].owner # "gone"
    BY <1>2, <1>o DEF Exists, OwnedByDask
  <1>6. \A e \in Clusters : dask'[e].status \in {NoStatus, dask[e].status}
    BY <1>4
  <1>7. \A e \in Clusters : cdask'[e].uid # "gone"
    BY <1>4 DEF KeptInv
  <1>8. \A e \in Clusters : \A x \in Watched :
           Exists(cached'[e][x]) => Exists(cached[e][x]) \/ Exists(live[e][x])
    BY <1>4
  <1> QED BY <1>1, <1>3, <1>5, <1>6, <1>7, <1>8, KeptUnmoved

LEMMA KeptNext == KeptInv /\ [NextKept]_vars => KeptInv'
  <1> SUFFICES ASSUME KeptInv, [NextKept]_vars PROVE KeptInv'
    OBVIOUS
  <1> USE ChildNames
  <1>0. TypeOK /\ TypeOK'
    BY NextType DEF KeptInv, NextKept, Next
  <1> DEFINE Rests ==
        /\ \A d \in Clusters : \A c \in Child :
              /\ Exists(live'[d][c]) <=> Exists(live[d][c])
              /\ OwnedByDask(live'[d][c]) <=> OwnedByDask(live[d][c])
              /\ live'[d][c].owner # "gone"
        /\ \/ rec' = Idle
           \/ rec'.key = rec.key /\ rec'.uid = rec.uid /\ rec'.spec = rec.spec
                 /\ rec'.todo = rec.todo
        /\ \A d \in Clusters : dask'[d].status \in {NoStatus, dask[d].status}
        /\ \A d \in Clusters : cdask'[d].uid # "gone"
        /\ \A d \in Clusters : \A c \in Watched :
              Exists(cached'[d][c]) => Exists(cached[d][c]) \/ Exists(live[d][c])
  <1>a. Rests => KeptInv'
    BY <1>0, KeptUnmoved
  <1>b. live' = live => \A d \in Clusters : \A c \in Child :
              /\ Exists(live'[d][c]) <=> Exists(live[d][c])
              /\ OwnedByDask(live'[d][c]) <=> OwnedByDask(live[d][c])
              /\ live'[d][c].owner # "gone"
    BY DEF KeptInv
  <1>1. ASSUME NEW d \in Clusters, Begin(d) PROVE KeptInv'
    <2>1. /\ rec'.key = d /\ rec'.uid = "cur" /\ rec'.spec = cdask[d].spec
          /\ rec'.todo = ToDo(cdask[d].spec, cached[d])
      BY <1>0, <1>1 DEF Begin, KeptInv, TypeOK, CachedDaskType
    <2>2. UNCHANGED <<dask, live, cdask, cached>>
      BY <1>1 DEF Begin
    <2>3. "workerDeployment" \in Watched /\ "scale" \in rec'.todo
             => Exists(live[d]["workerDeployment"])
      BY <2>1 DEF ToDo, KeptInv
    <2>4. \A c \in Child \cap rec'.todo : Wanted(rec'.spec, c)
      BY <2>1 DEF ToDo
    <2>5. ASSUME NEW c \in Child \ rec'.todo, Wanted(rec'.spec, c),
                 c \in Gates \/ Gate[c] \in rec'.todo
          PROVE  Exists(live[d][c])
      <3>1. Exists(cached[d][Gate[c]])
        BY <2>1, <2>5 DEF ToDo
      <3>2. Gate[c] \notin rec'.todo
        BY <2>1, <3>1 DEF ToDo, Gate, Child, Gates
      <3>3. Gate[c] = c
        BY <2>5, <3>2 DEF Gate, Gates
      <3> QED BY <2>5, <3>1, <3>3 DEF KeptInv
    <2>6. ASSUME NEW e \in Clusters PROVE PassKept(e)'
      BY <2>1, <2>2, <2>3, <2>4, <2>5 DEF PassKept
    <2>7. DependenciesFirst' /\ StatusWitnessed'
      BY <2>2 DEF KeptInv, DependenciesFirst, StatusWitnessed
    <2> QED BY <1>0, <2>2, <2>6, <2>7 DEF KeptInv
  <1>2. ASSUME NEW d \in Clusters, BeginGone(d) PROVE KeptInv'
    BY <1>2, <1>a, <1>b DEF BeginGone, KeptInv
  <1>3. ASSUME NEW op \in Calls, Call(op) PROVE KeptInv'
    <2>1. /\ Due(op) /\ Accepted(op) /\ Apply(op) /\ UNCHANGED <<cdask, cached>>
          /\ rec' = IF op = "status" THEN Idle ELSE [rec EXCEPT !.todo = @ \ {op}]
      BY <1>3 DEF Call
    <2>2. /\ \A d \in Clusters : \A c \in Child :
                /\ Exists(live[d][c]) => Exists(live'[d][c])
                /\ live'[d][c].owner # "gone"
          /\ op \in Child => Exists(live'[rec.key][op])
          /\ DependenciesFirst' /\ StatusWitnessed'
      BY <1>0, <2>1, KeptApply
    <2>3. ASSUME NEW d \in Clusters PROVE PassKept(d)'
      <3>1. CASE op = "status"
        BY <2>1, <3>1, ClustersAssumption DEF PassKept, Idle
      <3>2. CASE op # "status"
        <4>1. /\ rec'.key = rec.key /\ rec'.uid = rec.uid /\ rec'.spec = rec.spec
              /\ rec'.todo = rec.todo \ {op}
          BY <1>0, <2>1, <3>2 DEF TypeOK, PassType
        <4> QED BY <2>2, <4>1 DEF KeptInv, PassKept
      <3> QED BY <3>1, <3>2
    <2> QED BY <1>0, <2>1, <2>2, <2>3 DEF KeptInv
  <1>4. ASSUME NEW op \in Calls, Refused(op) PROVE KeptInv'
    BY <1>4, <1>a, <1>b DEF Refused, Fail, KeptInv
  <1>5. ASSUME NEW d \in Clusters, NEW o \in pending[d], Deliver(d, o) PROVE KeptInv'
    <2>1. UNCHANGED <<dask, live, rec>>
      BY <1>5 DEF Deliver
    <2>2. /\ \A e \in Clusters : cdask'[e] \in {cdask[e], dask[e]}
          /\ \A e \in Clusters : \A c \in Watched :
                cached'[e][c] \in {cached[e][c], live[e][c]}
      <3>1. CASE o = "dask"
        BY <1>0, <1>5, <3>1 DEF Deliver, TypeOK
      <3>2. CASE o # "dask"
        <4>1. cdask' = cdask /\ cached' = [cached EXCEPT ![d][o] = live[d][o]]
          BY <1>5, <3>2 DEF Deliver
        <4>2. cached \in [Clusters -> [Watched -> Object]] /\ o \in Watched
          BY <1>0, <3>2 DEF TypeOK
        <4> QED BY <4>1, <4>2
      <3> QED BY <3>1, <3>2
    <2>3. \A e \in Clusters : dask[e].uid # "gone" /\ cdask[e].uid # "gone"
      BY <1>0 DEF TypeOK, DaskType, KeptInv
    <2>4. \A e \in Clusters : cdask'[e].uid # "gone"
      BY <2>2, <2>3
    <2>5. \A e \in Clusters : \A c \in Watched :
             Exists(cached'[e][c]) => Exists(cached[e][c]) \/ Exists(live[e][c])
      BY <2>2
    <2> QED BY <2>1, <2>4, <2>5, <1>a, <1>b
  <1>6. ASSUME NEW d \in Clusters, Resync(d) PROVE KeptInv'
    BY <1>6, <1>a, <1>b DEF Resync, KeptInv
  <1>7. ASSUME NEW d \in Clusters, NEW c \in Child, GarbageCollect(d, c) PROVE KeptInv'
    BY <1>7 DEF GarbageCollect, KeptInv
  <1>8. ASSUME NEW d \in Clusters, NEW c \in Rolling, Rollout(d, c) PROVE KeptInv'
    <2>1. PICK p \in {"rolling", "ready"} :
             Becomes(d, c, [live[d][c] EXCEPT !.phase = p])
      BY <1>8 DEF Rollout
    <2>2. c \in Child
      BY BoundsAssumption
    <2>3. live[d][c] \in Object
      BY <1>0, <2>2 DEF TypeOK
    <2>4. /\ [live[d][c] EXCEPT !.phase = p] \in Object
          /\ [live[d][c] EXCEPT !.phase = p].owner = live[d][c].owner
      BY <2>3, ChangedType
    <2> QED BY <2>1, <2>2, <2>4, KeptBecomes
  <1>9. ASSUME NEW d \in Clusters, NEW s \in Specs, CreateDask(d, s) \/ EditDask(d, s)
        PROVE  KeptInv'
    <2>1. /\ rec'.key = rec.key /\ rec'.uid = rec.uid /\ rec'.spec = rec.spec
          /\ rec'.todo = rec.todo
      BY <1>0, <1>9 DEF CreateDask, EditDask, Touched, TypeOK, PassType
    <2>2. \A e \in Clusters : dask'[e].status \in {NoStatus, dask[e].status}
      <3>1. dask \in [Clusters -> DaskType]
        BY <1>0 DEF TypeOK
      <3>2. CASE CreateDask(d, s)
        BY <3>1, <3>2 DEF CreateDask
      <3>3. CASE EditDask(d, s)
        <4>1. dask' = [dask EXCEPT ![d] = [dask[d] EXCEPT !.spec = s]]
          BY <3>1, <3>3 DEF EditDask
        <4>2. [dask[d] EXCEPT !.spec = s].status = dask[d].status
          BY <3>1 DEF DaskType
        <4> QED BY <3>1, <4>1, <4>2
      <3> QED BY <1>9, <3>2, <3>3
    <2>3. UNCHANGED <<live, cdask, cached>>
      BY <1>9 DEF CreateDask, EditDask
    <2> QED BY <2>1, <2>2, <2>3, <1>a, <1>b DEF KeptInv
  <1>10. ASSUME NEW d \in Clusters, NEW n \in HandScales, HandScale(d, n) PROVE KeptInv'
    <2>1. live[d]["workerDeployment"] \in Object /\ n \in Nat
      BY <1>0, BoundsAssumption DEF TypeOK
    <2>2. /\ [live[d]["workerDeployment"] EXCEPT !.replicas = n] \in Object
          /\ [live[d]["workerDeployment"] EXCEPT !.replicas = n].owner
                = live[d]["workerDeployment"].owner
      BY <2>1, ChangedType
    <2> QED BY <1>10, <2>2, KeptBecomes DEF HandScale
  <1>11. CASE ApiError
    BY <1>11, <1>a, <1>b DEF ApiError, Fail, KeptInv
  <1>12. ASSUME NEW op \in Calls, LostReply(op) PROVE KeptInv'
    <2>1. /\ Due(op) /\ Accepted(op) /\ Apply(op) /\ UNCHANGED <<cdask, cached>>
          /\ rec' = Idle
      BY <1>12 DEF LostReply, Fail
    <2>2. /\ \A d \in Clusters : \A c \in Child :
                /\ Exists(live[d][c]) => Exists(live'[d][c])
                /\ live'[d][c].owner # "gone"
          /\ DependenciesFirst' /\ StatusWitnessed'
      BY <1>0, <2>1, KeptApply
    <2>3. \A d \in Clusters : PassKept(d)'
      BY <2>1, ClustersAssumption DEF PassKept, Idle
    <2> QED BY <1>0, <2>1, <2>2, <2>3 DEF KeptInv
  <1>13. CASE Crash
    <2>1. UNCHANGED <<dask, live>> /\ rec' = Idle
      BY <1>13 DEF Crash
    <2>2. \A e \in Clusters : cdask'[e].uid # "gone"
      BY <1>0, <1>13 DEF Crash, TypeOK, DaskType
    <2>3. \A e \in Clusters : \A c \in Watched :
             Exists(cached'[e][c]) => Exists(cached[e][c]) \/ Exists(live[e][c])
      BY <1>13 DEF Crash
    <2> QED BY <2>1, <2>2, <2>3, <1>a, <1>b
  <1>14. CASE UNCHANGED vars
    BY <1>14, <1>a, <1>b DEF vars, KeptInv
  <1> QED BY <1>1, <1>2, <1>3, <1>4, <1>5, <1>6, <1>7, <1>8, <1>9, <1>10, <1>11,
             <1>12, <1>13, <1>14
      DEF NextKept, Reconciler, ControlPlane, Pods, Users, Faults

\* No object of a Dask exists without those it needs: no Deployment without its
\* ConfigMap and ServiceAccount, no worker without the scheduler and its Service.
THEOREM DependenciesComeFirst == SpecKept => []DependenciesFirst
  <1>1. KeptInv => DependenciesFirst
    BY DEF KeptInv
  <1> QED BY <1>1, KeptInit, KeptNext, PTL DEF SpecKept

\* No status is published before the Deployments and the ConfigMap exist.
THEOREM StatusIsWitnessed == SpecKept => []StatusWitnessed
  <1>1. KeptInv => StatusWitnessed
    BY DEF KeptInv
  <1> QED BY <1>1, KeptInit, KeptNext, PTL DEF SpecKept

\* A pass that wants policies completes no group before the group's policy.
THEOREM PolicyComesFirst == SpecKept => PolicyFirst
  <1> DEFINE First == \A d \in Clusters : \A g \in Gates :
                        ~Exists(live[d][g]) /\ Exists(live'[d][g]) =>
                            \A p \in OwnPolicy(g) : Exists(live[d][p])
  <1>1. KeptInv /\ [NextKept]_vars => First
    <2> SUFFICES ASSUME KeptInv, [NextKept]_vars, NEW d \in Clusters, NEW g \in Gates,
                        ~Exists(live[d][g]), Exists(live'[d][g]), NEW p \in OwnPolicy(g)
                 PROVE  Exists(live[d][p])
      OBVIOUS
    <2> USE ChildNames
    <2>1. \E op \in Calls : Due(op) /\ Accepted(op) /\ Apply(op)
      <3>1. live' # live
        OBVIOUS
      <3>2. ASSUME NEW e \in Clusters, NEW c \in Child, NEW o, Becomes(e, c, o),
                   Exists(o) => Exists(live[e][c])
            PROVE  FALSE
        BY <3>2 DEF Becomes, KeptInv, TypeOK
      <3>3. ASSUME NEW e \in Clusters, NEW c \in Child, GarbageCollect(e, c) PROVE FALSE
        BY <3>3 DEF GarbageCollect, KeptInv
      <3>4. ASSUME NEW e \in Clusters, NEW c \in Rolling, Rollout(e, c) PROVE FALSE
        <4>1. PICK q \in {"rolling", "ready"} :
                 Becomes(e, c, [live[e][c] EXCEPT !.phase = q])
          BY <3>4 DEF Rollout
        <4>2. c \in Child
          BY BoundsAssumption
        <4>3. live[e][c] \in Object
          BY <4>2 DEF KeptInv, TypeOK
        <4>4. Exists([live[e][c] EXCEPT !.phase = q]) => Exists(live[e][c])
          BY <4>3, ChangedType DEF Exists
        <4> QED BY <3>2, <4>1, <4>2, <4>4
      <3>5. ASSUME NEW e \in Clusters, NEW n \in HandScales, HandScale(e, n) PROVE FALSE
        <4>1. Exists(live[e]["workerDeployment"])
          BY <3>5 DEF HandScale
        <4> QED BY <3>2, <3>5, <4>1 DEF HandScale
      <3> QED BY <3>1, <3>3, <3>4, <3>5
          DEF NextKept, Reconciler, ControlPlane, Pods, Users, Faults, vars, Begin,
              BeginGone, Call, Refused, Deliver, Resync, CreateDask, EditDask,
              ApiError, LostReply, Crash
    <2>2. PICK op \in Calls : Due(op) /\ Accepted(op) /\ Apply(op)
      BY <2>1
    <2>3. d = rec.key /\ op = g
      <3>1. CASE op \in Child /\ Create(op)
        BY <2>2, <3>1 DEF Create, KeptInv, TypeOK, Due
      <3>2. CASE op = "scale" /\ Scale
        <4>1. Exists(live[rec.key]["workerDeployment"])
          BY <2>2, <3>2 DEF Due, KeptInv, PassKept
        <4>2. d = rec.key /\ g = "workerDeployment"
          BY <2>2, <3>2 DEF Scale, KeptInv, TypeOK, Due
        <4> QED BY <4>1, <4>2
      <3>3. CASE op = "status" /\ SaveStatus
        BY <3>3 DEF SaveStatus
      <3> QED BY <2>2, <3>1, <3>2, <3>3 DEF Apply
    <2>4. /\ p \in Child /\ Gate[p] = g /\ g \in rec.todo /\ Wanted(rec.spec, p)
          /\ p # g
      BY <2>2, <2>3 DEF OwnPolicy, Policies, Child, Gate, Due, Gates
    <2>5. p \notin rec.todo
      BY <2>2, <2>3, <2>4, Order, DueFirst DEF Calls
    <2> QED BY <2>3, <2>4, <2>5 DEF KeptInv, PassKept
  <1>2. SpecKept => [][First]_vars
    BY <1>1, KeptInit, KeptNext, PTL DEF SpecKept
  <1> QED BY <1>2 DEF PolicyFirst
=============================================================================
