----------------------- MODULE DaskConvergenceProofs -----------------------
(***************************************************************************)
(* No wake-up is lost: the proof that a Dask the controller has left alone *)
(* is as its spec asks, whatever was deleted, refused, lost or read stale. *)
(***************************************************************************)
EXTENDS DaskControllerProofs

-----------------------------------------------------------------------------
\* The status depends on which Deployments exist and on their pods, only.
LEMMA ObservedAgree ==
    ASSUME NEW k, NEW k2,
           \A c \in Deployments : /\ Exists(k2[c]) <=> Exists(k[c])
                                  /\ k2[c].phase = k[c].phase
    PROVE  Observed(k2) = Observed(k)
  <1> DEFINE F(x) == {c \in Deployments : Exists(x[c])}
             D(x) == {c \in F(x) : x[c].phase # "rolling"}
  <1>1. F(k2) = F(k) /\ D(k2) = D(k)
    OBVIOUS
  <1>2. /\ Observed(k) = [replicas |-> Cardinality(F(k)), succeeded |-> Cardinality(D(k)),
                          state |-> IF F(k) = D(k) THEN "Running" ELSE "Building"]
        /\ Observed(k2) = [replicas |-> Cardinality(F(k2)), succeeded |-> Cardinality(D(k2)),
                           state |-> IF F(k2) = D(k2) THEN "Running" ELSE "Building"]
    BY DEF Observed
  <1> HIDE DEF F, D
  <1> QED BY <1>1, <1>2

\* Gates that no event is due about stay as they were.
SameGates(k, k2, due, due2) ==
    /\ due \cap Gates \subseteq due2 \cup Foreign
    /\ \A c \in Gates \ due2 : /\ Exists(k2[c]) <=> Exists(k[c])
                               /\ k2[c].phase = k[c].phase
                               /\ k2[c].replicas = k[c].replicas

\* A claim survives changes that are announced, and calls that make them.
LEMMA ClaimKept ==
    ASSUME NEW k, NEW k2, NEW due, NEW due2, NEW s, NEW todo, NEW todo2, NEW st,
           Claim(k, due, s, todo, st), SameGates(k, k2, due, due2),
           Gates \cap todo \subseteq todo2 \cup due2,
           "scale" \in todo => "scale" \in todo2 \/ "workerDeployment" \in due2
    PROVE  Claim(k2, due2, s, todo2, st)
  <1>1. ASSUME NEW g \in Required(s) \ (due2 \cup todo2) PROVE Exists(k2[g])
    BY <1>1 DEF Claim, SameGates, Required
  <1>2. ASSUME "workerDeployment" \notin Foreign \cup due2 \cup todo2, "scale" \notin todo2
        PROVE  k2["workerDeployment"].replicas = s.replicas
    BY <1>2 DEF Claim, SameGates, Gates
  <1>3. ASSUME Deployments \cap (Foreign \cup due2) = {} PROVE st = Observed(k2)
    <2>1. Deployments \cap (Foreign \cup due) = {}
      BY <1>3, ChildNames DEF SameGates
    <2>2. Observed(k2) = Observed(k)
      BY <1>3, ChildNames, ObservedAgree DEF SameGates
    <2> QED BY <2>1, <2>2 DEF Claim
  <1> QED BY <1>1, <1>2, <1>3 DEF Claim

\* A pass goes on while something else happens to its Dask e, or to others.
LEMMA PassStays ==
    ASSUME NEW e \in Clusters, PassTrue(e),
           SameGates(live[e], live'[e], pending[e], pending'[e]),
           rec'.key = e /\ e \notin queue' =>
              /\ rec.key = e /\ e \notin queue
              /\ rec'.spec = rec.spec /\ rec'.todo = rec.todo /\ rec'.status = rec.status
              /\ "dask" \notin pending'[e] =>
                    /\ "dask" \notin pending[e] /\ rec'.uid = rec.uid
                    /\ dask'[e].spec = dask[e].spec /\ dask'[e].uid = dask[e].uid
    PROVE  PassTrue(e)'
  <1> SUFFICES ASSUME rec'.key = e, e \notin queue'
               PROVE  /\ Claim(live'[e], pending'[e], rec'.spec, rec'.todo, rec'.status)
                      /\ "dask" \notin pending'[e] =>
                            rec'.spec = dask'[e].spec /\ rec'.uid = dask'[e].uid
    BY DEF PassTrue
  <1>1. Claim(live[e], pending[e], rec.spec, rec.todo, rec.status)
    BY DEF PassTrue
  <1>2. Claim(live'[e], pending'[e], rec.spec, rec.todo, rec.status)
    BY <1>1, ClaimKept
  <1> QED BY <1>2 DEF PassTrue

\* A Dask left alone is still left alone.
LEMMA RestStays ==
    ASSUME NEW e \in Clusters, RestTrue(e),
           SameGates(live[e], live'[e], pending[e], pending'[e]),
           dask'[e].uid = "cur" /\ rec'.key # e /\ e \notin queue' /\ "dask" \notin pending'[e] =>
              /\ dask[e].uid = "cur" /\ rec.key # e /\ e \notin queue /\ "dask" \notin pending[e]
              /\ dask'[e].spec = dask[e].spec /\ dask'[e].status = dask[e].status
    PROVE  RestTrue(e)'
  <1> SUFFICES ASSUME dask'[e].uid = "cur", rec'.key # e, e \notin queue',
                      "dask" \notin pending'[e]
               PROVE  Claim(live'[e], pending'[e], dask'[e].spec, {}, dask'[e].status)
    BY DEF RestTrue
  <1>1. Claim(live[e], pending[e], dask[e].spec, {}, dask[e].status)
    BY DEF RestTrue
  <1>2. Claim(live'[e], pending'[e], dask[e].spec, {}, dask[e].status)
    BY <1>1, ClaimKept
  <1> QED BY <1>2

\* The cache stays true when changes are announced and nothing is delivered.
LEMMA CacheStays ==
    ASSUME CacheTrue, UNCHANGED <<cdask, cached>>,
           \A e \in Clusters : pending[e] \subseteq pending'[e],
           \A e \in Clusters : "dask" \notin pending'[e] => dask'[e] = dask[e],
           \A e \in Clusters : \A c \in Watched \ pending'[e] : live'[e][c] = live[e][c],
           \A e \in Clusters : \A c \in Child :
              live'[e][c].owner = "foreign" => live[e][c].owner = "foreign",
           rec'.key \in Clusters => rec'.uid # "none"
    PROVE  CacheTrue'
  BY DEF CacheTrue

LEMMA SameGatesSame ==
    ASSUME NEW k, NEW due, NEW due2, due \subseteq due2
    PROVE  SameGates(k, k, due, due2)
  BY DEF SameGates

-----------------------------------------------------------------------------
(***************************************************************************)
(* The steps.                                                              *)
(***************************************************************************)
LEMMA InvInit == Init => Inv
  <1> SUFFICES ASSUME Init PROVE Inv
    OBVIOUS
  <1> USE ChildNames
  <1>1. TypeOK
    BY InitType
  <1>2. rec.key = NoCluster /\ \A d \in Clusters : dask[d].uid = "none"
    BY DEF Init, Idle, NoDask
  <1>3. \A d \in Clusters : PassTrue(d) /\ RestTrue(d)
    BY <1>2, ClustersAssumption DEF PassTrue, RestTrue
  <1>4. \A d \in Clusters : /\ cdask[d] = dask[d]
                            /\ live[d] = Beforehand
                            /\ \A c \in Watched : cached[d][c] = live[d][c]
    BY DEF Init
  <1>5. \A c \in Child : Beforehand[c].owner = "foreign" => c \in Foreign
    BY DEF Beforehand, Absent
  <1>6. CacheTrue
    BY <1>2, <1>4, <1>5, ClustersAssumption DEF CacheTrue
  <1> QED BY <1>1, <1>3, <1>6 DEF Inv

LEMMA InvBecomes ==
    ASSUME Inv, NEW d \in Clusters, NEW c \in Child, NEW o \in Object,
           o.owner = "foreign" => live[d][c].owner = "foreign",
           Becomes(d, c, o)
    PROVE  Inv'
  <1> USE ChildNames
  <1>0. TypeOK /\ TypeOK'
    BY BecomesType DEF Inv
  <1>1. /\ live'[d][c] = o
        /\ \A e \in Clusters : \A x \in Child : e # d \/ x # c => live'[e][x] = live[e][x]
        /\ \A e \in Clusters : e # d => live'[e] = live[e] /\ pending'[e] = pending[e]
        /\ pending'[d] = pending[d] \cup ({c} \cap Watched)
        /\ UNCHANGED <<dask, cdask, cached, queue>>
    BY <1>0 DEF Becomes, TypeOK
  <1>2. /\ rec'.key = rec.key /\ rec'.uid = rec.uid /\ rec'.spec = rec.spec
        /\ rec'.todo = rec.todo /\ rec'.status = rec.status
    BY <1>0 DEF Becomes, Touched, TypeOK, PassType
  <1>3. \A e \in Clusters : pending[e] \subseteq pending'[e]
    BY <1>1
  <1>4. CacheTrue'
    <2>1. \A e \in Clusters : "dask" \notin pending'[e] => dask'[e] = dask[e]
      BY <1>1
    <2>2. \A e \in Clusters : \A x \in Watched \ pending'[e] : live'[e][x] = live[e][x]
      BY <1>1
    <2>3. \A e \in Clusters : \A x \in Child :
             live'[e][x].owner = "foreign" => live[e][x].owner = "foreign"
      BY <1>1
    <2>4. rec'.key \in Clusters => rec'.uid # "none"
      BY <1>2 DEF Inv, CacheTrue
    <2> QED BY <1>1, <1>3, <2>1, <2>2, <2>3, <2>4, CacheStays DEF Inv
  <1>5. ASSUME NEW e \in Clusters PROVE SameGates(live[e], live'[e], pending[e], pending'[e])
    BY <1>1, <1>3 DEF SameGates
  <1>6. \A e \in Clusters : "dask" \notin pending'[e] => "dask" \notin pending[e]
    BY <1>3
  <1>7. ASSUME NEW e \in Clusters PROVE PassTrue(e)'
    <2>1. PassTrue(e)
      BY DEF Inv
    <2> QED BY <2>1, <1>1, <1>2, <1>5, <1>6, PassStays
  <1>8. ASSUME NEW e \in Clusters PROVE RestTrue(e)'
    <2>1. RestTrue(e)
      BY DEF Inv
    <2> QED BY <2>1, <1>1, <1>2, <1>5, <1>6, RestStays
  <1> QED BY <1>0, <1>4, <1>7, <1>8 DEF Inv

\* The effect of a call, answered or not.
LEMMA ApplyEffect ==
    ASSUME Inv, NEW op \in Calls, Due(op), Accepted(op), Apply(op)
    PROVE  /\ rec.key \in Clusters
           /\ \A e \in Clusters : e # rec.key =>
                 live'[e] = live[e] /\ pending'[e] = pending[e] /\ dask'[e] = dask[e]
           /\ \A e \in Clusters : pending[e] \subseteq pending'[e]
           /\ \A e \in Clusters : "dask" \notin pending'[e] => dask'[e] = dask[e]
           /\ \A e \in Clusters : \A c \in Watched \ pending'[e] : live'[e][c] = live[e][c]
           /\ \A e \in Clusters : \A c \in Child :
                 live'[e][c].owner = "foreign" => live[e][c].owner = "foreign"
           /\ op \in Gates => op \in pending'[rec.key]
           /\ op = "scale" => "workerDeployment" \in pending'[rec.key]
           /\ op # "status" => dask' = dask
           /\ op = "status" => /\ dask'[rec.key] = [dask[rec.key] EXCEPT !.status = rec.status]
                               /\ live' = live
  <1> DEFINE k == rec.key
  <1> USE ChildNames
  <1>0. /\ k \in Clusters /\ rec.uid \in {"cur", "gone"}
        /\ live \in [Clusters -> [Child -> Object]] /\ live[k] \in [Child -> Object]
        /\ dask \in [Clusters -> DaskType] /\ dask[k] \in DaskType
        /\ pending \in [Clusters -> SUBSET (Watched \cup {"dask"})]
    BY DEF Due, Inv, CacheTrue, TypeOK, PassType
  <1>1. CASE op \in Child /\ Create(op)
    <2>1. /\ live'[k][op].owner = rec.uid
          /\ \A e \in Clusters : e # k => live'[e] = live[e]
          /\ \A c \in Child : c # op => live'[k][c] = live[k][c]
      BY <1>0, <1>1 DEF Create
    <2>2. /\ pending'[k] = pending[k] \cup ({op} \cap Watched)
          /\ \A e \in Clusters : e # k => pending'[e] = pending[e]
          /\ dask' = dask
      BY <1>0, <1>1 DEF Create
    <2>3. \A e \in Clusters : \A c \in Child :
             live'[e][c].owner = "foreign" => live[e][c].owner = "foreign"
      BY <1>0, <2>1
    <2>4. ASSUME NEW e \in Clusters, NEW c \in Watched \ pending'[e]
          PROVE  live'[e][c] = live[e][c]
      <3>1. CASE e = k
        BY <2>1, <2>2, <3>1
      <3>2. CASE e # k
        BY <2>1, <3>2
      <3> QED BY <3>1, <3>2
    <2>5. op \in Gates => op \in pending'[k]
      BY <2>2
    <2>6. op # "status" /\ op # "scale"
      BY <1>1
    <2>7. \A e \in Clusters : pending[e] \subseteq pending'[e]
      BY <2>2
    <2> QED BY <1>0, <2>1, <2>2, <2>3, <2>4, <2>5, <2>6, <2>7
  <1>2. CASE op = "scale" /\ Scale
    <2>1. /\ \A e \in Clusters : e # k => live'[e] = live[e]
          /\ \A c \in Child : c # "workerDeployment" => live'[k][c] = live[k][c]
      BY <1>0, <1>2 DEF Scale
    <2>2. live'[k]["workerDeployment"].owner = live[k]["workerDeployment"].owner
      <3>1. live[k]["workerDeployment"] \in Object
        BY <1>0
      <3>2. live'[k]["workerDeployment"] =
               [live[k]["workerDeployment"] EXCEPT !.replicas = rec.spec.replicas]
        BY <1>0, <1>2 DEF Scale
      <3> QED BY <3>1, <3>2 DEF Object
    <2>3. /\ pending'[k] = pending[k] \cup {"workerDeployment"}
          /\ \A e \in Clusters : e # k => pending'[e] = pending[e]
          /\ dask' = dask
      BY <1>0, <1>2 DEF Scale
    <2>4. \A e \in Clusters : \A c \in Child : live'[e][c].owner = live[e][c].owner
      BY <2>1, <2>2
    <2>5. ASSUME NEW e \in Clusters, NEW c \in Watched \ pending'[e]
          PROVE  live'[e][c] = live[e][c]
      <3>1. CASE e = k
        BY <2>1, <2>3, <3>1
      <3>2. CASE e # k
        BY <2>1, <3>2
      <3> QED BY <3>1, <3>2
    <2>6. op \notin Gates
      BY <1>2 DEF Gates
    <2>7. /\ \A e \in Clusters : e # k =>
                live'[e] = live[e] /\ pending'[e] = pending[e] /\ dask'[e] = dask[e]
          /\ \A e \in Clusters : pending[e] \subseteq pending'[e]
      BY <2>1, <2>3
    <2>8. op # "status" /\ dask' = dask /\ "workerDeployment" \in pending'[k]
      BY <1>2, <2>3
    <2>9. \A e \in Clusters : \A c \in Child :
             live'[e][c].owner = "foreign" => live[e][c].owner = "foreign"
      BY <2>4
    <2> QED BY <1>0, <2>5, <2>6, <2>7, <2>8, <2>9
  <1>3. CASE op = "status" /\ SaveStatus
    <2>1. /\ live' = live
          /\ \A e \in Clusters : e # k => dask'[e] = dask[e] /\ pending'[e] = pending[e]
          /\ dask'[k] = [dask[k] EXCEPT !.status = rec.status]
          /\ pending[k] \subseteq pending'[k]
      BY <1>0, <1>3 DEF SaveStatus
    <2>2. "dask" \notin pending'[k] => dask'[k] = dask[k]
      <3>1. "dask" \notin pending'[k] => dask[k].status = rec.status
        BY <1>0, <1>3 DEF SaveStatus
      <3>2. dask[k].status = rec.status => [dask[k] EXCEPT !.status = rec.status] = dask[k]
        BY <1>0 DEF DaskType
      <3> QED BY <2>1, <3>1, <3>2
    <2> QED BY <1>0, <1>3, <2>1, <2>2, "status" \notin Gates DEF Gates
  <1> QED BY <1>1, <1>2, <1>3 DEF Apply

LEMMA InvBegin ==
    ASSUME Inv, NEW d \in Clusters, Begin(d)
    PROVE  Inv'
  <1> USE ChildNames
  <1>0. TypeOK /\ TypeOK'
    BY NextType DEF Inv, Next, Reconciler
  <1>1. /\ UNCHANGED <<dask, live, cdask, cached, pending>> /\ queue' = queue \ {d}
        /\ rec.key = NoCluster /\ rec'.key = d
        /\ rec'.uid = cdask[d].uid /\ rec'.spec = cdask[d].spec /\ cdask[d].uid # "none"
        /\ rec'.todo = ToDo(cdask[d].spec, cached[d]) /\ rec'.status = Observed(cached[d])
    BY DEF Begin, Idle
  <1>2. CacheTrue'
    BY <1>1, CacheStays DEF Inv
  <1>3. \A g \in Gates : Gate[g] = g
    BY DEF Gates, Gate
  <1>4. Claim(live[d], pending[d], cdask[d].spec, rec'.todo, Observed(cached[d]))
    <2>1. ASSUME NEW g \in Required(cdask[d].spec) \ (pending[d] \cup rec'.todo)
          PROVE  Exists(live[d][g])
      <3>1. Exists(cached[d][g])
        BY <1>1, <1>3, <2>1 DEF Required, ToDo
      <3> QED BY <2>1, <3>1 DEF Inv, CacheTrue, Required
    <2>2. ASSUME "workerDeployment" \notin Foreign \cup pending[d] \cup rec'.todo,
                 "scale" \notin rec'.todo
          PROVE  live[d]["workerDeployment"].replicas = cdask[d].spec.replicas
      <3>1. Wanted(cdask[d].spec, "workerDeployment")
        BY DEF Wanted, Policies, JupyterGroup
      <3>2. Gate["workerDeployment"] = "workerDeployment" /\ "workerDeployment" \in Child
        BY DEF Gate
      <3>3. Exists(cached[d]["workerDeployment"])
        BY <1>1, <2>2, <3>1, <3>2 DEF ToDo
      <3>4. cached[d]["workerDeployment"].replicas = cdask[d].spec.replicas
        BY <1>1, <2>2, <3>3 DEF ToDo
      <3> QED BY <2>2, <3>4 DEF Inv, CacheTrue
    <2>3. ASSUME Deployments \cap (Foreign \cup pending[d]) = {}
          PROVE  Observed(cached[d]) = Observed(live[d])
      <3>1. \A c \in Deployments : cached[d][c] = live[d][c]
        BY <2>3 DEF Inv, CacheTrue
      <3> QED BY <3>1, ObservedAgree
    <2> QED BY <2>1, <2>2, <2>3 DEF Claim
  <1>5. ASSUME NEW e \in Clusters PROVE PassTrue(e)'
    <2>1. CASE e = d
      BY <1>1, <1>4, <2>1 DEF PassTrue, Inv, CacheTrue
    <2>2. CASE e # d
      BY <1>1, <2>2 DEF PassTrue
    <2> QED BY <2>1, <2>2
  <1>6. ASSUME NEW e \in Clusters PROVE RestTrue(e)'
    <2>1. RestTrue(e)
      BY DEF Inv
    <2>2. CASE e = d
      BY <1>1, <2>2 DEF RestTrue
    <2>3. CASE e # d
      <3>1. rec.key # e /\ (e \notin queue' => e \notin queue)
        BY <1>1, <2>3, ClustersAssumption
      <3> QED BY <1>1, <2>1, <3>1 DEF RestTrue
    <2> QED BY <2>2, <2>3
  <1> QED BY <1>0, <1>2, <1>5, <1>6 DEF Inv

\* The other Dasks are not concerned by a call.
LEMMA OthersRest ==
    ASSUME Inv, NEW op \in Calls, Due(op), Accepted(op), Apply(op),
           NEW e \in Clusters, e # rec.key, rec'.key # e, queue \subseteq queue'
    PROVE  PassTrue(e)' /\ RestTrue(e)'
  <1>1. live'[e] = live[e] /\ pending'[e] = pending[e] /\ dask'[e] = dask[e]
    BY ApplyEffect
  <1>2. PassTrue(e)'
    BY DEF PassTrue
  <1>3. RestTrue(e)
    BY DEF Inv
  <1>4. RestTrue(e)'
    BY <1>1, <1>3 DEF RestTrue
  <1> QED BY <1>2, <1>4

LEMMA InvCall ==
    ASSUME Inv, NEW op \in Calls, Call(op)
    PROVE  Inv'
  <1> USE ChildNames
  <1>k. PICK k \in Clusters : k = rec.key
    BY DEF Call, Due
  <1>0. TypeOK /\ TypeOK'
    BY NextType DEF Inv, Next, Reconciler
  <1>1. /\ Due(op) /\ Accepted(op) /\ Apply(op) /\ UNCHANGED <<cdask, cached, queue>>
        /\ rec' = IF op = "status" THEN Idle ELSE [rec EXCEPT !.todo = @ \ {op}]
    BY DEF Call
  <1>2. /\ \A e \in Clusters : pending[e] \subseteq pending'[e]
        /\ \A e \in Clusters : "dask" \notin pending'[e] => dask'[e] = dask[e]
        /\ \A e \in Clusters : \A c \in Watched \ pending'[e] : live'[e][c] = live[e][c]
        /\ \A e \in Clusters : \A c \in Child :
              live'[e][c].owner = "foreign" => live[e][c].owner = "foreign"
    BY <1>1, ApplyEffect
  <1>3. CacheTrue'
    <2>1. rec'.key \in Clusters => rec'.uid # "none"
      BY <1>0, <1>1, ClustersAssumption DEF Idle, TypeOK, PassType, Inv, CacheTrue
    <2> QED BY <1>1, <1>2, <2>1, CacheStays DEF Inv
  <1>4. SameGates(live[k], live'[k], pending[k], pending'[k])
    BY <1>2 DEF SameGates
  <1>5. PassTrue(k)
    BY <1>2 DEF Inv
  <1>6. CASE op # "status"
    <2>1. /\ rec'.key = k /\ rec'.uid = rec.uid /\ rec'.spec = rec.spec
          /\ rec'.status = rec.status /\ rec'.todo = rec.todo \ {op}
      BY <1>k, <1>0, <1>1, <1>6 DEF TypeOK, PassType
    <2>2. ASSUME k \notin queue
          PROVE  Claim(live'[k], pending'[k], rec.spec, rec.todo \ {op}, rec.status)
      <3>1. Claim(live[k], pending[k], rec.spec, rec.todo, rec.status)
        BY <1>k, <1>5, <2>2 DEF PassTrue
      <3>2. /\ op \in Gates => op \in pending'[k]
            /\ op = "scale" => "workerDeployment" \in pending'[k]
        BY <1>k, <1>1, ApplyEffect
      <3>3. Gates \cap rec.todo \subseteq (rec.todo \ {op}) \cup pending'[k]
        BY <3>2
      <3>4. "scale" \in rec.todo =>
               "scale" \in rec.todo \ {op} \/ "workerDeployment" \in pending'[k]
        BY <3>2
      <3> QED BY <1>4, <3>1, <3>3, <3>4, ClaimKept
    <2>3. PassTrue(k)'
      <3>1. ASSUME k \notin queue, "dask" \notin pending'[k]
            PROVE  rec.spec = dask'[k].spec /\ rec.uid = dask'[k].uid
        BY <1>k, <1>2, <1>5, <3>1 DEF PassTrue
      <3> QED BY <1>1, <2>1, <2>2, <3>1 DEF PassTrue
    <2>4. RestTrue(k)'
      BY <2>1 DEF RestTrue
    <2>5. ASSUME NEW e \in Clusters, e # k PROVE PassTrue(e)' /\ RestTrue(e)'
      BY <1>k, <1>1, <2>1, <2>5, OthersRest
    <2> QED BY <1>0, <1>3, <2>3, <2>4, <2>5 DEF Inv
  <1>7. CASE op = "status"
    <2>1. rec'.key = NoCluster /\ rec.todo = {"status"}
      BY <1>0, <1>1, <1>7, StatusLast DEF Idle
    <2>2. /\ dask'[k].spec = dask[k].spec /\ dask'[k].uid = dask[k].uid
          /\ dask'[k].status = rec.status
      <3>1. dask'[k] = [dask[k] EXCEPT !.status = rec.status]
        BY <1>k, <1>1, <1>7, ApplyEffect
      <3>2. dask[k] \in DaskType
        BY <1>0, <1>2 DEF TypeOK
      <3> QED BY <3>1, <3>2 DEF DaskType
    <2>3. ASSUME k \notin queue, "dask" \notin pending'[k]
          PROVE  Claim(live'[k], pending'[k], dask'[k].spec, {}, dask'[k].status)
      <3>1. /\ Claim(live[k], pending[k], rec.spec, {"status"}, rec.status)
            /\ rec.spec = dask[k].spec
        BY <1>k, <1>2, <1>5, <2>1, <2>3 DEF PassTrue
      <3>2. Gates \cap {"status"} = {}
        BY DEF Gates
      <3>3. Claim(live'[k], pending'[k], rec.spec, {}, rec.status)
        BY <1>4, <3>1, <3>2, ClaimKept
      <3> QED BY <2>2, <3>1, <3>3
    <2>4. RestTrue(k)'
      BY <1>1, <2>3 DEF RestTrue
    <2>5. PassTrue(k)'
      BY <1>2, <2>1, ClustersAssumption DEF PassTrue
    <2>6. ASSUME NEW e \in Clusters, e # k PROVE PassTrue(e)' /\ RestTrue(e)'
      BY <1>k, <1>1, <2>1, <2>6, OthersRest, ClustersAssumption
    <2> QED BY <1>0, <1>3, <2>4, <2>5, <2>6 DEF Inv
  <1> QED BY <1>6, <1>7

\* The objects stay as they are, and a pass that ends leaves its name queued.
LEMMA InvUnmoved ==
    ASSUME Inv, TypeOK', UNCHANGED <<dask, live, cdask, cached, pending>>,
           queue \subseteq queue',
           \/ rec' = rec
           \/ rec' = Idle /\ (rec.key \in Clusters => rec.key \in queue')
    PROVE  Inv'
  <1>1. rec'.key \in Clusters => rec' = rec
    BY ClustersAssumption DEF Idle
  <1>2. CacheTrue'
    <2>1. rec'.key \in Clusters => rec'.uid # "none"
      BY <1>1 DEF Inv, CacheTrue
    <2> QED BY <2>1, CacheStays DEF Inv
  <1>3. ASSUME NEW e \in Clusters PROVE PassTrue(e)' /\ RestTrue(e)'
    <2>1. PassTrue(e) /\ RestTrue(e)
      BY DEF Inv
    <2>2. PassTrue(e)'
      BY <1>1, <2>1 DEF PassTrue
    <2>3. rec'.key # e /\ e \notin queue' => rec.key # e /\ e \notin queue
      OBVIOUS
    <2>4. RestTrue(e)'
      BY <2>1, <2>3 DEF RestTrue
    <2> QED BY <2>2, <2>4
  <1> QED BY <1>2, <1>3 DEF Inv

LEMMA InvBeginGone ==
    ASSUME Inv, NEW d \in Clusters, BeginGone(d)
    PROVE  Inv'
  <1>0. TypeOK'
    BY NextType DEF Inv, Next, Reconciler
  <1>1. /\ UNCHANGED <<dask, live, cdask, cached, pending, rec>>
        /\ rec.key = NoCluster /\ queue' = queue \ {d} /\ cdask[d].uid = "none"
    BY DEF BeginGone, Idle
  <1>2. CacheTrue'
    BY <1>1, CacheStays DEF Inv, CacheTrue
  <1>3. ASSUME NEW e \in Clusters PROVE PassTrue(e)' /\ RestTrue(e)'
    <2>1. PassTrue(e)'
      BY <1>1, ClustersAssumption DEF PassTrue
    <2>2. RestTrue(e) /\ ("dask" \notin pending[e] => cdask[e] = dask[e])
      BY DEF Inv, CacheTrue
    <2>3. CASE e = d
      BY <1>1, <2>1, <2>2, <2>3 DEF RestTrue
    <2>4. CASE e # d
      BY <1>1, <2>1, <2>2, <2>4 DEF RestTrue
    <2> QED BY <2>1, <2>3, <2>4
  <1> QED BY <1>0, <1>2, <1>3 DEF Inv

LEMMA InvLostReply ==
    ASSUME Inv, NEW op \in Calls, LostReply(op)
    PROVE  Inv'
  <1> USE ChildNames
  <1>k. PICK k \in Clusters : k = rec.key
    BY DEF LostReply, Due
  <1>0. TypeOK'
    BY NextType DEF Inv, Next, Faults
  <1>1. /\ Due(op) /\ Accepted(op) /\ Apply(op) /\ UNCHANGED <<cdask, cached>>
        /\ rec' = Idle /\ rec'.key = NoCluster /\ queue' = queue \cup {k}
    BY <1>k DEF LostReply, Fail, Idle
  <1>2. CacheTrue'
    BY <1>1, ApplyEffect, CacheStays, ClustersAssumption DEF Inv
  <1>3. ASSUME NEW e \in Clusters PROVE PassTrue(e)' /\ RestTrue(e)'
    <2>1. CASE e = k
      BY <1>1, <2>1, ClustersAssumption DEF PassTrue, RestTrue
    <2>2. CASE e # k
      BY <1>k, <1>1, <2>2, OthersRest, ClustersAssumption
    <2> QED BY <2>1, <2>2
  <1> QED BY <1>0, <1>2, <1>3 DEF Inv

LEMMA InvCrash ==
    ASSUME Inv, Crash
    PROVE  Inv'
  <1> USE ChildNames
  <1>0. TypeOK'
    BY NextType DEF Inv, Next, Faults
  <1>1. /\ rec'.key = NoCluster /\ cdask' = dask /\ dask' = dask /\ live' = live
        /\ \A e \in Clusters : \A c \in Watched : cached'[e][c] = live[e][c]
        /\ \A e \in Clusters : dask[e].uid = "cur" => e \in queue'
    BY DEF Crash, Idle
  <1>2. \A e \in Clusters : \A c \in Child : live[e][c].owner = "foreign" => c \in Foreign
    BY DEF Inv, CacheTrue
  <1>3. CacheTrue'
    <2>1. \A e \in Clusters : \A c \in Watched : cached'[e][c].owner = "foreign" => c \in Foreign
      BY <1>1, <1>2
    <2>2. \A e \in Clusters : \A c \in Watched \ pending'[e] : cached'[e][c] = live'[e][c]
      BY <1>1
    <2> QED BY <1>1, <1>2, <2>1, <2>2, ClustersAssumption DEF CacheTrue
  <1>4. ASSUME NEW e \in Clusters PROVE PassTrue(e)' /\ RestTrue(e)'
    BY <1>1, ClustersAssumption DEF PassTrue, RestTrue
  <1> QED BY <1>0, <1>3, <1>4 DEF Inv

\* An event arrives: the cached copy is right and, but for a name that was taken
\* beforehand, the Dask is queued.
LEMMA InvDeliver ==
    ASSUME Inv, NEW d \in Clusters, NEW o \in pending[d], Deliver(d, o)
    PROVE  Inv'
  <1> USE ChildNames
  <1>0. TypeOK /\ TypeOK'
    BY DeliverType DEF Inv
  <1>1. /\ UNCHANGED <<dask, live, rec>> /\ queue \subseteq queue'
        /\ pending'[d] = pending[d] \ {o}
        /\ \A e \in Clusters : e # d =>
              pending'[e] = pending[e] /\ cdask'[e] = cdask[e] /\ cached'[e] = cached[e]
    BY <1>0 DEF Deliver, TypeOK
  <1>2. CASE o = "dask"
    <2>1. /\ d \in queue' /\ cdask'[d] = dask[d] /\ cached' = cached
      BY <1>0, <1>2 DEF Deliver, TypeOK
    <2>2. CacheTrue'
      <3>1. ASSUME NEW e \in Clusters
            PROVE  /\ "dask" \notin pending'[e] => cdask'[e] = dask'[e]
                   /\ \A c \in Watched \ pending'[e] : cached'[e][c] = live'[e][c]
                   /\ \A c \in Watched : cached'[e][c].owner = "foreign" => c \in Foreign
        <4>1. CASE e = d
          BY <1>1, <1>2, <2>1, <4>1 DEF Inv, CacheTrue
        <4>2. CASE e # d
          BY <1>1, <2>1, <4>2 DEF Inv, CacheTrue
        <4> QED BY <4>1, <4>2
      <3> QED BY <1>1, <3>1 DEF Inv, CacheTrue
    <2>3. ASSUME NEW e \in Clusters PROVE PassTrue(e)' /\ RestTrue(e)'
      <3>1. PassTrue(e) /\ RestTrue(e)
        BY DEF Inv
      <3>2. CASE e = d
        BY <2>1, <3>2 DEF PassTrue, RestTrue
      <3>3. CASE e # d
        BY <1>1, <3>1, <3>3 DEF PassTrue, RestTrue
      <3> QED BY <3>2, <3>3
    <2> QED BY <1>0, <2>2, <2>3 DEF Inv
  <1>3. CASE o # "dask"
    <2>1. o \in Watched
      BY <1>0, <1>3 DEF TypeOK
    <2>2. /\ cdask' = cdask /\ cached'[d][o] = live[d][o]
          /\ \A c \in Watched : c # o => cached'[d][c] = cached[d][c]
      BY <1>0, <1>3, <2>1 DEF Deliver, TypeOK
    <2>3. CacheTrue'
      <3>1. ASSUME NEW e \in Clusters
            PROVE  /\ "dask" \notin pending'[e] => cdask'[e] = dask'[e]
                   /\ \A c \in Watched \ pending'[e] : cached'[e][c] = live'[e][c]
                   /\ \A c \in Watched : cached'[e][c].owner = "foreign" => c \in Foreign
        <4>1. CASE e = d
          BY <1>1, <1>3, <2>2, <4>1 DEF Inv, CacheTrue
        <4>2. CASE e # d
          BY <1>1, <2>2, <4>2 DEF Inv, CacheTrue
        <4> QED BY <4>1, <4>2
      <3> QED BY <1>1, <3>1 DEF Inv, CacheTrue
    <2>4. d \in queue' \/ o \in Foreign
      BY <1>3, <2>1 DEF Deliver, Inv, CacheTrue
    <2>5. ASSUME NEW e \in Clusters, e \notin queue'
          PROVE  SameGates(live[e], live'[e], pending[e], pending'[e])
      <3>1. e = d => o \in Foreign
        BY <2>4, <2>5
      <3> QED BY <1>1, <3>1 DEF SameGates
    <2>6. ASSUME NEW e \in Clusters PROVE PassTrue(e)' /\ RestTrue(e)'
      <3>1. PassTrue(e) /\ RestTrue(e)
        BY DEF Inv
      <3>2. CASE e \in queue'
        BY <3>2 DEF PassTrue, RestTrue
      <3>3. CASE e \notin queue'
        <4>1. "dask" \notin pending'[e] => "dask" \notin pending[e]
          BY <1>1, <1>3
        <4>2. SameGates(live[e], live'[e], pending[e], pending'[e]) /\ e \notin queue
          BY <1>1, <2>5, <3>3
        <4>3. PassTrue(e)'
          BY <1>1, <3>1, <4>1, <4>2, PassStays
        <4>4. RestTrue(e)'
          BY <1>1, <3>1, <4>1, <4>2, RestStays
        <4> QED BY <4>3, <4>4
      <3> QED BY <3>2, <3>3
    <2> QED BY <1>0, <2>3, <2>6 DEF Inv
  <1> QED BY <1>2, <1>3

\* A Dask is created or edited: an event about it is due.
LEMMA InvEdited ==
    ASSUME Inv, TypeOK', NEW d \in Clusters, NEW x \in DaskType,
           dask' = [dask EXCEPT ![d] = x],
           pending' = [pending EXCEPT ![d] = @ \cup {"dask"}],
           Touched(d, {"dask"}),
           UNCHANGED <<live, cdask, cached, queue>>
    PROVE  Inv'
  <1> USE ChildNames
  <1>1. /\ \A e \in Clusters : e # d => dask'[e] = dask[e] /\ pending'[e] = pending[e]
        /\ pending'[d] = pending[d] \cup {"dask"}
    BY DEF Inv, TypeOK
  <1>2. /\ rec'.key = rec.key /\ rec'.uid = rec.uid /\ rec'.spec = rec.spec
        /\ rec'.todo = rec.todo /\ rec'.status = rec.status
    BY DEF Touched, Inv, TypeOK, PassType
  <1>3. CacheTrue'
    <2>1. rec'.key \in Clusters => rec'.uid # "none"
      BY <1>2 DEF Inv, CacheTrue
    <2>2. \A e \in Clusters : "dask" \notin pending'[e] => dask'[e] = dask[e]
      BY <1>1
    <2>3. \A e \in Clusters : pending[e] \subseteq pending'[e]
      BY <1>1
    <2> QED BY <2>1, <2>2, <2>3, CacheStays DEF Inv
  <1>4. ASSUME NEW e \in Clusters PROVE PassTrue(e)' /\ RestTrue(e)'
    <2>1. PassTrue(e) /\ RestTrue(e)
      BY DEF Inv
    <2>2. SameGates(live[e], live'[e], pending[e], pending'[e])
      BY <1>1, SameGatesSame
    <2>3. "dask" \notin pending'[e] => "dask" \notin pending[e] /\ dask'[e] = dask[e]
      BY <1>1
    <2>4. PassTrue(e)'
      BY <1>2, <2>1, <2>2, <2>3, PassStays
    <2>5. RestTrue(e)'
      BY <1>2, <2>1, <2>2, <2>3, RestStays
    <2> QED BY <2>4, <2>5
  <1> QED BY <1>3, <1>4 DEF Inv

LEMMA InvUsers ==
    ASSUME Inv, NEW d \in Clusters, NEW s \in Specs, CreateDask(d, s) \/ EditDask(d, s)
    PROVE  Inv'
  <1>0. TypeOK /\ TypeOK' /\ s \in SpecType /\ dask[d] \in DaskType
    BY NextType, SpecsAssumption DEF Inv, Next, Users, TypeOK
  <1>1. CASE CreateDask(d, s)
    <2>1. [uid |-> "cur", spec |-> s, status |-> NoStatus] \in DaskType
      BY <1>0, NothingType DEF DaskType
    <2> QED BY <1>0, <1>1, <2>1, InvEdited DEF CreateDask
  <1>2. CASE EditDask(d, s)
    <2>1. [dask[d] EXCEPT !.spec = s] \in DaskType
      BY <1>0 DEF DaskType
    <2>2. dask' = [dask EXCEPT ![d] = [dask[d] EXCEPT !.spec = s]]
      BY <1>2 DEF EditDask
    <2> QED BY <1>0, <1>2, <2>1, <2>2, InvEdited DEF EditDask
  <1> QED BY <1>1, <1>2

LEMMA InvDeleteDask ==
    ASSUME Inv, NEW d \in Clusters, DeleteDask(d)
    PROVE  Inv'
  <1> USE ChildNames
  <1>0. TypeOK /\ TypeOK'
    BY DeleteDaskType DEF Inv
  <1>1. /\ \A e \in Clusters : e # d =>
              /\ dask'[e] = dask[e] /\ live'[e] = live[e] /\ cdask'[e] = cdask[e]
              /\ cached'[e] = cached[e] /\ pending'[e] = pending[e]
        /\ dask'[d].uid = "none" /\ "dask" \in pending'[d] /\ queue' = queue
        /\ pending'[d] = pending[d] \cup {"dask"}
    BY <1>0, NothingType DEF DeleteDask, TypeOK, NoDask
  <1>2. /\ \A c \in Child : live'[d][c] = Orphaned(live[d][c])
        /\ \A c \in Watched : cached'[d][c] = Orphaned(cached[d][c])
    BY <1>0 DEF DeleteDask, TypeOK
  <1>3. \A c \in Child : live[d][c] \in Object
    BY <1>0 DEF TypeOK
  <1>4. \A c \in Watched : cached[d][c] \in Object
    BY <1>0 DEF TypeOK
  <1>5. /\ rec'.key = rec.key /\ rec'.spec = rec.spec
        /\ rec'.todo = rec.todo /\ rec'.status = rec.status
        /\ rec.key # d => rec'.uid = rec.uid
        /\ rec.uid # "none" => rec'.uid # "none"
    BY <1>0 DEF DeleteDask, Deceased, TypeOK, PassType
  <1>6. CacheTrue'
    <2>1. ASSUME NEW e \in Clusters
          PROVE  /\ "dask" \notin pending'[e] => cdask'[e] = dask'[e]
                 /\ \A c \in Watched \ pending'[e] : cached'[e][c] = live'[e][c]
                 /\ \A c \in Child : live'[e][c].owner = "foreign" => c \in Foreign
                 /\ \A c \in Watched : cached'[e][c].owner = "foreign" => c \in Foreign
      <3>1. CASE e = d
        BY <1>1, <1>2, <1>3, <1>4, <3>1, OrphanedType DEF Inv, CacheTrue
      <3>2. CASE e # d
        BY <1>1, <3>2 DEF Inv, CacheTrue
      <3> QED BY <3>1, <3>2
    <2> QED BY <1>5, <2>1 DEF Inv, CacheTrue
  <1>7. ASSUME NEW e \in Clusters PROVE PassTrue(e)' /\ RestTrue(e)'
    <2>1. PassTrue(e) /\ RestTrue(e)
      BY DEF Inv
    <2>2. SameGates(live[e], live'[e], pending[e], pending'[e])
      <3>1. CASE e = d
        <4>1. ASSUME NEW c \in Gates
              PROVE  /\ Exists(live'[e][c]) <=> Exists(live[e][c])
                     /\ live'[e][c].phase = live[e][c].phase
                     /\ live'[e][c].replicas = live[e][c].replicas
          <5>1. c \in Child
            OBVIOUS
          <5>2. live[d][c] \in Object /\ live'[d][c] = Orphaned(live[d][c])
            BY <1>2, <1>3, <5>1
          <5> QED BY <3>1, <5>2, OrphanedType
        <4> QED BY <1>1, <3>1, <4>1 DEF SameGates
      <3>2. CASE e # d
        BY <1>1, <3>2 DEF SameGates
      <3> QED BY <3>1, <3>2
    <2>3. "dask" \notin pending'[e] => e # d /\ "dask" \notin pending[e] /\ dask'[e] = dask[e]
      BY <1>1
    <2>4. PassTrue(e)'
      BY <1>1, <1>5, <2>1, <2>2, <2>3, PassStays
    <2>5. RestTrue(e)'
      BY <1>1, <1>5, <2>1, <2>2, <2>3, RestStays
    <2> QED BY <2>4, <2>5
  <1> QED BY <1>0, <1>6, <1>7 DEF Inv

\* Someone else changes Daskes and children as they like, and tells: what has
\* changed is announced, and the pass in progress may find its copies old.
LEMMA InvTold ==
    ASSUME Inv, UNCHANGED <<cdask, cached, queue>>,
           dask' \in [Clusters -> DaskType],
           live' \in [Clusters -> [Child -> Object]],
           \A e \in Clusters : \A c \in Child : live'[e][c].owner = "foreign" => c \in Foreign,
           pending' \in [Clusters -> SUBSET (Watched \cup {"dask"})],
           \A e \in Clusters : pending[e] \subseteq pending'[e],
           \A e \in Clusters : "dask" \notin pending'[e] => dask'[e] = dask[e],
           \A e \in Clusters : \A c \in Watched \ pending'[e] : live'[e][c] = live[e][c],
           rec' \in PassType,
           rec' = [rec EXCEPT !.stale = rec'.stale],
           rec.key = NoCluster => rec' = rec
    PROVE  Inv'
  <1> USE ChildNames
  <1>1. /\ rec'.key = rec.key /\ rec'.uid = rec.uid /\ rec'.spec = rec.spec
        /\ rec'.todo = rec.todo /\ rec'.status = rec.status
    BY DEF Inv, TypeOK, PassType
  <1>2. TypeOK'
    BY <1>1 DEF Inv, TypeOK
  <1>3. CacheTrue'
    BY <1>1 DEF Inv, CacheTrue
  <1>4. ASSUME NEW e \in Clusters PROVE SameGates(live[e], live'[e], pending[e], pending'[e])
    BY DEF SameGates
  <1>5. ASSUME NEW e \in Clusters PROVE PassTrue(e)' /\ RestTrue(e)'
    <2>1. PassTrue(e) /\ RestTrue(e)
      BY DEF Inv
    <2>2. PassTrue(e)'
      BY <1>1, <1>4, <2>1, PassStays
    <2>3. RestTrue(e)'
      BY <1>1, <1>4, <2>1, RestStays
    <2> QED BY <2>2, <2>3
  <1> QED BY <1>2, <1>3, <1>5 DEF Inv

LEMMA InvNext == Inv /\ [Next]_vars => Inv'
  <1> SUFFICES ASSUME Inv, [Next]_vars PROVE Inv'
    OBVIOUS
  <1> USE ChildNames
  <1>0. TypeOK /\ TypeOK'
    BY NextType DEF Inv
  <1>1. \A d \in Clusters : \A c \in Child : live[d][c] \in Object
    BY <1>0 DEF TypeOK
  <1>2. ASSUME Reconciler PROVE Inv'
    <2>1. ASSUME NEW op \in Calls, Refused(op) PROVE Inv'
      BY <1>0, <2>1, InvUnmoved DEF Refused, Fail
    <2> QED BY <1>2, <2>1, InvBegin, InvBeginGone, InvCall DEF Reconciler
  <1>3. ASSUME NEW d \in Clusters, Resync(d) PROVE Inv'
    BY <1>0, <1>3, InvUnmoved DEF Resync
  <1>4. ASSUME NEW d \in Clusters, NEW c \in Child, GarbageCollect(d, c) PROVE Inv'
    BY <1>4, InvBecomes, NothingType DEF GarbageCollect, Absent
  <1>5. ASSUME NEW d \in Clusters, NEW c \in Rolling, Rollout(d, c) PROVE Inv'
    <2>1. PICK p \in {"rolling", "ready"} : Becomes(d, c, [live[d][c] EXCEPT !.phase = p])
      BY <1>5 DEF Rollout
    <2>2. c \in Child /\ live[d][c] \in Object
      BY <1>1, BoundsAssumption
    <2> QED BY <2>1, <2>2, ChangedType, InvBecomes
  <1>6. ASSUME Users PROVE Inv'
    <2>1. ASSUME NEW d \in Clusters, NEW n \in HandScales, HandScale(d, n) PROVE Inv'
      <3>1. n \in Nat /\ live[d]["workerDeployment"] \in Object /\ "workerDeployment" \in Child
        BY <1>1, BoundsAssumption
      <3> QED BY <2>1, <3>1, ChangedType, InvBecomes DEF HandScale
    <2> QED BY <1>6, <2>1, InvUsers DEF Users
  <1>7. ASSUME Removals PROVE Inv'
    <2>1. ASSUME NEW d \in Clusters, NEW c \in Removable, DeleteChild(d, c) PROVE Inv'
      BY <2>1, InvBecomes, NothingType, BoundsAssumption DEF DeleteChild, Absent
    <2> QED BY <1>7, <2>1, InvDeleteDask DEF Removals
  <1>8. ASSUME Faults PROVE Inv'
    <2>1. ASSUME ApiError PROVE Inv'
      BY <1>0, <2>1, InvUnmoved DEF ApiError, Fail
    <2> QED BY <1>8, <2>1, InvCrash, InvLostReply DEF Faults
  <1>9. ASSUME UNCHANGED vars PROVE Inv'
    BY <1>0, <1>9, InvUnmoved DEF vars
  <1> QED BY <1>2, <1>3, <1>4, <1>5, <1>6, <1>7, <1>8, <1>9, InvDeliver
          DEF Next, ControlPlane, Pods

-----------------------------------------------------------------------------
(***************************************************************************)
(* The theorems.                                                           *)
(***************************************************************************)

\* The invariant says so of a Dask with nothing queued, in progress or announced.
LEMMA InvConverged == Inv => QuiescentMeansConverged
  <1> SUFFICES ASSUME Inv, NEW d \in Clusters, dask[d].uid = "cur", Settled(d)
               PROVE  Converged(d)
    BY DEF QuiescentMeansConverged
  <1>1. Claim(live[d], {}, dask[d].spec, {}, dask[d].status)
    BY DEF Inv, RestTrue, Settled
  <1> QED BY <1>1 DEF Claim, Converged, Required, Scaled, StatusTrue

\* Whatever was deleted, refused, lost or read stale: a Dask the controller has
\* nothing more to do about is as its spec asks.
THEOREM QuiescentConverged == Spec => []QuiescentMeansConverged
  BY InvConverged, InvInit, InvNext, PTL DEF Spec

\* What a pass writes from a Dask that has changed meanwhile is looked at again.
THEOREM StaleWritesRevisited == Spec => StaleWritesAreRevisited
  <1> DEFINE Revisited == \A op \in Calls : \A d \in Clusters :
                rec.key = d /\ Call(op) =>
                    \/ d \in queue'
                    \/ "dask" \in pending'[d]
                    \/ rec.spec = dask[d].spec /\ rec.uid = dask[d].uid
  <1>1. Inv /\ [Next]_vars => Revisited
    <2> SUFFICES ASSUME Inv, NEW op \in Calls, NEW d \in Clusters, rec.key = d, Call(op),
                        d \notin queue', "dask" \notin pending'[d]
                 PROVE  rec.spec = dask[d].spec /\ rec.uid = dask[d].uid
      OBVIOUS
    <2>1. queue' = queue /\ pending[d] \subseteq pending'[d]
      BY ApplyEffect DEF Call
    <2> QED BY <2>1 DEF Inv, PassTrue
  <1>2. Inv /\ [Next]_vars => [Revisited]_vars
    BY <1>1
  <1> QED BY <1>2, InvInit, InvNext, PTL DEF Spec, StaleWritesAreRevisited

\* When a status is published, what the pass wanted exists, or a change to it is
\* announced.
THEOREM StatusIsCertified == Spec => StatusCertified
  <1> DEFINE Certified == \A d \in Clusters :
                /\ dask[d].uid = "cur" /\ dask'[d].uid = "cur"
                /\ dask'[d].status # dask[d].status
                => \A g \in Required(rec.spec) :
                      Exists(live[d][g]) \/ g \in pending'[d] \/ d \in queue'
  <1>1. Inv /\ [Next]_vars => Certified
    <2> SUFFICES ASSUME Inv, [Next]_vars, NEW d \in Clusters, NEW g \in Required(rec.spec),
                        dask[d].uid = "cur", dask'[d].uid = "cur",
                        dask'[d].status # dask[d].status, d \notin queue'
                 PROVE  Exists(live[d][g]) \/ g \in pending'[d]
      OBVIOUS
    <2>0. TypeOK /\ dask \in [Clusters -> DaskType] /\ dask[d] \in DaskType
      BY DEF Inv, TypeOK
    <2>1. PICK op \in Calls : Call(op) \/ LostReply(op)
      <3>1. ASSUME NEW e \in Clusters, NEW s \in Specs, CreateDask(e, s) PROVE FALSE
        BY <2>0, <3>1 DEF CreateDask
      <3>2. ASSUME NEW e \in Clusters, NEW s \in Specs, EditDask(e, s) PROVE FALSE
        BY <2>0, <3>2 DEF EditDask, DaskType
      <3>3. ASSUME NEW e \in Clusters, DeleteDask(e) PROVE FALSE
        BY <2>0, <3>3 DEF DeleteDask, NoDask
      <3>4. dask' # dask
        OBVIOUS
      <3> QED BY <3>1, <3>2, <3>3, <3>4 DEF Next, Reconciler, ControlPlane, Pods, Users,
                 Removals, Faults, Begin, BeginGone, Refused, Deliver, Resync,
                 GarbageCollect, Becomes, Rollout, HandScale, DeleteChild, ApiError,
                 Crash, vars
    <2>2. Due(op) /\ Accepted(op) /\ Apply(op) /\ queue \subseteq queue'
      BY <2>1 DEF Call, LostReply, Fail
    <2>3. rec.key = d /\ op = "status"
      BY <2>2, ApplyEffect
    <2>4. rec.todo = {"status"}
      BY <2>0, <2>2, <2>3, StatusLast
    <2>5. Claim(live[d], pending[d], rec.spec, {"status"}, rec.status)
      BY <2>2, <2>3, <2>4 DEF Inv, PassTrue
    <2>6. Exists(live[d][g]) \/ g \in pending[d]
      BY <2>5 DEF Claim, Required, Gates
    <2>7. pending[d] \subseteq pending'[d]
      BY <2>2, ApplyEffect
    <2> QED BY <2>6, <2>7
  <1>2. Inv /\ [Next]_vars => [Certified]_vars
    BY <1>1
  <1> QED BY <1>2, InvInit, InvNext, PTL DEF Spec, StatusCertified
=============================================================================
