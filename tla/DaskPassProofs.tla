--------------------------- MODULE DaskPassProofs ---------------------------
(***************************************************************************)
(* What one pass of the reconciler does to its Dask, said so that it can   *)
(* be used beside other actors: what it can be refused, what it makes of a *)
(* group, and what stays true of it while somebody else acts.              *)
(***************************************************************************)
EXTENDS DaskConvergenceProofs, DaskBringupProofs

-----------------------------------------------------------------------------
(***************************************************************************)
(* What a pass is refused, and why: what it is still to do is missing from *)
(* its cache or old in it.                                                 *)
(***************************************************************************)
LEMMA TodoStays ==
    ASSUME NEW e \in Clusters, TodoTrue(e),
           rec'.key = e /\ e \notin queue' =>
              /\ rec.key = e /\ e \notin queue
              /\ rec'.spec = rec.spec /\ rec'.todo \subseteq rec.todo
              /\ \A g \in Gates : Exists(cached'[e][g]) => Exists(cached[e][g])
              /\ pending[e] \ Foreign \subseteq pending'[e]
              /\ rec'.stale \subseteq rec.stale \cup pending'[e]
    PROVE  TodoTrue(e)'
  BY ChildNames DEF TodoTrue

\* A change by someone else is announced when the pass grows old of it.
LEMMA TouchedTodo ==
    ASSUME TypeOK, NEW d \in Clusters, NEW objs, Touched(d, objs),
           objs \cap {"dask", "workerDeployment"} \subseteq pending'[d],
           \A e \in Clusters : pending[e] \subseteq pending'[e],
           UNCHANGED <<cached, queue>>,
           NEW e \in Clusters, TodoTrue(e)
    PROVE  TodoTrue(e)'
  <1>1. /\ rec'.key = rec.key /\ rec'.spec = rec.spec /\ rec'.todo = rec.todo
        /\ rec'.key = e => rec'.stale \subseteq rec.stale \cup pending'[e]
    BY DEF Touched, TypeOK, PassType
  <1> QED BY <1>1, TodoStays

LEMMA TodoBecomes ==
    ASSUME TypeOK, NEW d \in Clusters, NEW c \in Child, NEW o, Becomes(d, c, o),
           NEW e \in Clusters, TodoTrue(e)
    PROVE  TodoTrue(e)'
  <1>1. \A x \in Clusters : pending[x] \subseteq pending'[x]
    BY DEF Becomes, TypeOK
  <1>2. {c} \cap {"dask", "workerDeployment"} \subseteq pending'[d]
    BY ChildNames DEF Becomes, TypeOK
  <1>3. Touched(d, {c}) /\ UNCHANGED <<cached, queue>>
    BY DEF Becomes
  <1> QED BY <1>1, <1>2, <1>3, TouchedTodo

LEMMA TodoUsers ==
    ASSUME TypeOK, NEW d \in Clusters, NEW s \in Specs, CreateDask(d, s) \/ EditDask(d, s),
           NEW e \in Clusters, TodoTrue(e)
    PROVE  TodoTrue(e)'
  <1>1. /\ pending' = [pending EXCEPT ![d] = @ \cup {"dask"}]
        /\ Touched(d, {"dask"}) /\ UNCHANGED <<cached, queue>>
    BY DEF CreateDask, EditDask
  <1>2. \A x \in Clusters : pending[x] \subseteq pending'[x]
    BY <1>1 DEF TypeOK
  <1>3. {"dask"} \cap {"dask", "workerDeployment"} \subseteq pending'[d]
    BY <1>1 DEF TypeOK
  <1> QED BY <1>1, <1>2, <1>3, TouchedTodo

LEMMA TodoDeleteDask ==
    ASSUME TypeOK, NEW d \in Clusters, DeleteDask(d), NEW e \in Clusters, TodoTrue(e)
    PROVE  TodoTrue(e)'
  <1>1. /\ rec'.key = rec.key /\ rec'.spec = rec.spec /\ rec'.todo = rec.todo
        /\ rec'.stale = IF rec.key = d THEN rec.stale \cup {"dask"} ELSE rec.stale
    BY DEF DeleteDask, Deceased, TypeOK, PassType
  <1>2. /\ queue' = queue /\ pending'[d] = pending[d] \cup {"dask"}
        /\ \A x \in Clusters : pending[x] \subseteq pending'[x]
    BY DEF DeleteDask, TypeOK
  <1>3. ASSUME NEW g \in Gates PROVE Exists(cached'[e][g]) => Exists(cached[e][g])
    <2>1. CASE e = d
      <3>0. g \in Watched /\ cached \in [Clusters -> [Watched -> Object]]
        BY ChildNames DEF TypeOK
      <3>1. g \in Watched /\ cached[d][g] \in Object
        BY <3>0
      <3>2. cached'[d][g] = Orphaned(cached[d][g])
        BY <3>1 DEF DeleteDask, TypeOK
      <3> QED BY <2>1, <3>1, <3>2, OrphanedType
    <2>2. CASE e # d
      BY <2>2 DEF DeleteDask, TypeOK
    <2> QED BY <2>1, <2>2
  <1> QED BY <1>1, <1>2, <1>3, TodoStays

LEMMA TodoDeliver ==
    ASSUME TypeOK, CacheTrue, NEW d \in Clusters, NEW o \in pending[d], Deliver(d, o),
           NEW e \in Clusters, TodoTrue(e)
    PROVE  TodoTrue(e)'
  <1>1. /\ rec' = rec /\ queue \subseteq queue'
        /\ pending'[d] = pending[d] \ {o}
        /\ e # d => pending'[e] = pending[e] /\ cached'[e] = cached[e]
    BY DEF Deliver, TypeOK
  <1>2. CASE e # d
    BY <1>1, <1>2, TodoStays
  <1>3. CASE e = d /\ o = "dask"
    BY <1>3 DEF Deliver, TodoTrue
  <1>4. CASE e = d /\ o # "dask" /\ e \notin queue'
    <2>1. o \in Watched
      BY <1>4 DEF TypeOK
    <2>2. cached[d][o].owner = "foreign" /\ o \in Foreign
      BY <1>4, <2>1 DEF Deliver, CacheTrue
    <2>3. \A g \in Gates : Exists(cached'[d][g]) => Exists(cached[d][g])
      BY <1>4, <2>1, <2>2, ChildNames DEF Deliver, TypeOK, Exists
    <2> QED BY <1>1, <1>4, <2>2, <2>3, TodoStays
  <1>5. CASE e \in queue'
    BY <1>5 DEF TodoTrue
  <1> QED BY <1>2, <1>3, <1>4, <1>5

\* A pass begins with what its snapshot lacks.
LEMMA TodoBegin ==
    ASSUME TypeOK, NEW d \in Clusters, Begin(d), NEW e \in Clusters
    PROVE  TodoTrue(e)'
  <1>1. /\ rec'.key = d /\ rec'.spec = cdask[d].spec /\ UNCHANGED <<cached, pending>>
        /\ rec'.todo = ToDo(cdask[d].spec, cached[d])
        /\ rec'.stale \subseteq pending[d]
    BY DEF Begin
  <1> QED BY <1>1, ChildNames DEF TodoTrue, ToDo

\* Where no pass begins or goes on with d, there is nothing to show.
LEMMA TodoEnds ==
    ASSUME NEW e \in Clusters, rec' = Idle
    PROVE  TodoTrue(e)'
  BY ClustersAssumption DEF TodoTrue, Idle

LEMMA TodoCall ==
    ASSUME Inv, NEW op \in Calls, Call(op), NEW e \in Clusters, TodoTrue(e)
    PROVE  TodoTrue(e)'
  <1>1. CASE op = "status"
    BY <1>1, TodoEnds DEF Call
  <1>2. CASE op # "status"
    <2>1. /\ rec'.key = rec.key /\ rec'.spec = rec.spec /\ rec'.todo \subseteq rec.todo
          /\ rec'.stale = rec.stale /\ UNCHANGED <<cached, queue>>
      BY <1>2 DEF Call, Inv, TypeOK, PassType
    <2>2. pending[e] \subseteq pending'[e]
      BY ApplyEffect DEF Call
    <2> QED BY <2>1, <2>2, TodoStays
  <1> QED BY <1>1, <1>2

LEMMA TodoNext ==
    ASSUME Inv, [Next]_vars, NEW e \in Clusters, TodoTrue(e)
    PROVE  TodoTrue(e)'
  <1>0. TypeOK /\ CacheTrue
    BY DEF Inv
  <1>1. CASE Reconciler
    <2>1. ASSUME NEW op \in Calls, Refused(op) PROVE TodoTrue(e)'
      BY <2>1, TodoEnds DEF Refused, Fail
    <2>2. ASSUME NEW d \in Clusters, BeginGone(d) PROVE TodoTrue(e)'
      BY <2>2, ClustersAssumption DEF BeginGone, Idle, TodoTrue
    <2> QED BY <1>0, <1>1, <2>1, <2>2, TodoBegin, TodoCall DEF Reconciler
  <1>2. CASE ControlPlane
    <2>1. ASSUME NEW d \in Clusters, Resync(d) PROVE TodoTrue(e)'
      BY <2>1, TodoStays DEF Resync
    <2> QED BY <1>0, <1>2, <2>1, TodoDeliver, TodoBecomes DEF ControlPlane, GarbageCollect
  <1>3. CASE Pods
    <2>1. PICK d \in Clusters, c \in Rolling : Rollout(d, c)
      BY <1>3 DEF Pods
    <2>2. c \in Child /\ \E o : Becomes(d, c, o)
      BY <2>1, ChildNames, BoundsAssumption DEF Rollout
    <2> QED BY <1>0, <2>2, TodoBecomes
  <1>4. CASE Users
    BY <1>0, <1>4, ChildNames, TodoUsers, TodoBecomes DEF Users, HandScale
  <1>5. CASE Removals
    BY <1>0, <1>5, BoundsAssumption, TodoDeleteDask, TodoBecomes DEF Removals, DeleteChild
  <1>6. CASE Faults
    BY <1>6, TodoEnds DEF Faults, ApiError, Crash, LostReply, Fail
  <1>7. CASE UNCHANGED vars
    BY <1>7 DEF vars, TodoTrue
  <1> QED BY <1>1, <1>2, <1>3, <1>4, <1>5, <1>6, <1>7 DEF Next

LEMMA TodoInit ==
    ASSUME Init, NEW e \in Clusters
    PROVE  TodoTrue(e)
  BY ClustersAssumption DEF Init, Idle, TodoTrue

LEMMA RefusalReason ==
    ASSUME Inv, NEW d \in Clusters, TodoTrue(d), NEW op \in Calls, rec.key = d, Refused(op)
    PROVE  \/ op \in rec.spec.broken
           \/ HalfMade(d)'
           \/ d \in queue
           \/ {"dask", DecidedBy(op)} \cap pending[d] # {}
           \/ op = "scale" /\ "workerDeployment" \in Foreign
  <1> SUFFICES ASSUME op \notin rec.spec.broken, d \notin queue, "dask" \notin pending[d],
                      DecidedBy(op) \notin pending[d],
                      op = "scale" => "workerDeployment" \notin Foreign
               PROVE  HalfMade(d)'
    OBVIOUS
  <1>1. op \in rec.todo /\ ~Accepted(op) /\ rec' = Idle /\ UNCHANGED <<dask, live>>
    BY DEF Refused, Due, Fail
  <1>2. rec.stale \ Foreign \subseteq pending[d]
    BY DEF TodoTrue
  <1>3. op # "scale"
    BY <1>1, <1>2, ChildNames DEF Accepted, DecidedBy
  <1>4. "dask" \notin Foreign
    BY ChildNames, BoundsAssumption
  <1>5. op # "status"
    BY <1>1, <1>2, <1>4, ChildNames DEF Accepted, DecidedBy
  <1>6. op \in Child
    BY <1>3, <1>5 DEF Calls
  <1>7. Exists(live[d][op])
    BY <1>1, <1>6 DEF Accepted
  <1>8. Wanted(rec.spec, op) /\ ~Exists(cached[d][Gate[op]])
    BY <1>1, <1>6 DEF TodoTrue
  <1>9. Gate[op] \in Watched /\ Gate[op] \notin pending[d]
    BY <1>6, ChildNames DEF DecidedBy
  <1>10. ~Exists(live[d][Gate[op]])
    BY <1>8, <1>9 DEF Inv, CacheTrue
  <1>11. rec.spec = dask[d].spec
    BY DEF Inv, PassTrue
  <1> QED BY <1>1, <1>6, <1>7, <1>8, <1>10, <1>11, ClustersAssumption DEF HalfMade, Idle

\* Whatever happens in between, a pass is refused a call for a reason that goes
\* away by a retry, or for one that is named: a broken spec, or part of a group.
THEOREM RefusalsHaveReasons == Spec => RefusedForAReason
  <1> DEFINE J == Inv /\ \A d \in Clusters : TodoTrue(d)
             Reason == \A d \in Clusters : \A op \in Calls :
                rec.key = d /\ Refused(op) =>
                    \/ op \in rec.spec.broken
                    \/ HalfMade(d)'
                    \/ d \in queue
                    \/ {"dask", DecidedBy(op)} \cap pending[d] # {}
                    \/ op = "scale" /\ "workerDeployment" \in Foreign
  <1>1. Init => J
    BY InvInit, TodoInit
  <1>2. J /\ [Next]_vars => J'
    BY InvNext, TodoNext
  <1>3. J /\ [Next]_vars => [Reason]_vars
    BY RefusalReason
  <1> QED BY <1>1, <1>2, <1>3, PTL DEF Spec, RefusedForAReason

-----------------------------------------------------------------------------
(***************************************************************************)
(* Groups.                                                                 *)
(***************************************************************************)
\* What lies between an object and its gate belongs to their group, is no policy,
\* and has nothing but the gate after it.
LEMMA GroupOrder ==
    ASSUME NEW c \in Child \ Gates, NEW x \in Child,
           Rank[c] < Rank[x], Rank[x] <= Rank[Gate[c]]
    PROVE  /\ Gate[x] = Gate[c]
           /\ \A s : Wanted(s, c) => Wanted(s, x)
           /\ \A y \in Child : Rank[x] < Rank[y] /\ Rank[y] <= Rank[Gate[c]] => y = Gate[c]
           /\ Gate[c] \in Gates
  BY ChildNames DEF Rank, Gate, Gates, Wanted, Policies, JupyterGroup

LEMMA GateIsLast ==
    /\ \A c \in Child : Gate[c] \in Gates /\ Gate[c] \in Child /\ Gate[Gate[c]] = Gate[c]
    /\ \A c \in Child : Rank[c] <= Rank[Gate[c]]
    /\ \A c \in Child \ Gates : Rank[c] < Rank[Gate[c]]
    /\ \A c \in Child \ Gates : Rank[Gate[c]] < Rank["scale"] /\ Rank[Gate[c]] < Rank["status"]
    /\ \A s : \A c \in Child : Wanted(s, c) => Wanted(s, Gate[c])
  BY ChildNames DEF Rank, Gate, Gates, Wanted, Policies, JupyterGroup

LEMMA GateToComeInit == Init => GateToCome
  BY DEF Init, Idle, GateToCome

\* A pass that goes on goes past no gate with part of the group still to come.
LEMMA GateToComeNext == TypeOK /\ GateToCome /\ [Next]_vars => GateToCome'
  <1> SUFFICES ASSUME TypeOK, GateToCome, [Next]_vars PROVE GateToCome'
    OBVIOUS
  <1> DEFINE Same == rec' = Idle \/ rec'.todo = rec.todo
  <1>a. Same => GateToCome'
    BY DEF GateToCome, Idle
  <1>b. \A d \in Clusters : \A objs : Touched(d, objs) => Same
    BY DEF Touched, TypeOK, PassType
  <1>c. ASSUME NEW d \in Clusters, NEW c, NEW o, Becomes(d, c, o) PROVE Same
    BY <1>b, <1>c DEF Becomes
  <1>1. ASSUME NEW d \in Clusters, Begin(d) PROVE GateToCome'
    <2>1. rec'.todo = ToDo(cdask[d].spec, cached[d])
      BY <1>1 DEF Begin
    <2> QED BY <2>1, ChildNames, GateIsLast DEF ToDo, GateToCome
  <1>2. ASSUME NEW op \in Calls, Call(op) PROVE GateToCome'
    <2>1. CASE op = "status"
      BY <1>2, <1>a, <2>1 DEF Call
    <2>2. CASE op # "status"
      <3>1. rec'.todo = rec.todo \ {op} /\ \A x \in rec.todo : Rank[op] <= Rank[x]
        BY <1>2, <2>2 DEF Call, Due, TypeOK, PassType
      <3> SUFFICES ASSUME NEW c \in Child, c \in rec'.todo PROVE Gate[c] \in rec'.todo
        BY DEF GateToCome
      <3>2. c \in rec.todo /\ Gate[c] \in rec.todo /\ c # op
        BY <3>1 DEF GateToCome
      <3>3. Gate[c] # op
        <4>1. CASE c \in Gates
          BY <3>2, <4>1 DEF Gates, Gate
        <4>2. CASE c \notin Gates
          <5>1. /\ Rank[c] < Rank[Gate[c]] /\ Rank[op] <= Rank[c]
                /\ Rank[c] \in Nat /\ Rank[op] \in Nat
            BY <3>1, <3>2, <4>2, GateIsLast, Order DEF Calls
          <5> QED BY <5>1
        <4> QED BY <4>1, <4>2
      <3> QED BY <3>1, <3>2, <3>3
    <2> QED BY <2>1, <2>2
  <1>3. ASSUME NEW op \in Calls, Refused(op) \/ LostReply(op) PROVE Same
    BY <1>3 DEF Refused, LostReply, Fail
  <1>4. ASSUME NEW d \in Clusters, NEW s \in Specs, CreateDask(d, s) \/ EditDask(d, s)
        PROVE  Same
    BY <1>4, <1>b DEF CreateDask, EditDask
  <1>5. ASSUME NEW d \in Clusters, DeleteDask(d) PROVE Same
    BY <1>5 DEF DeleteDask, Deceased, TypeOK, PassType
  <1>6. CASE ApiError \/ Crash \/ UNCHANGED vars
    BY <1>6, <1>a DEF ApiError, Crash, Fail, vars
  <1>7. ASSUME NEW d \in Clusters,
               \/ BeginGone(d) \/ Resync(d)
               \/ \E o \in pending[d] : Deliver(d, o)
        PROVE  Same
    BY <1>7 DEF BeginGone, Resync, Deliver
  <1>8. ASSUME NEW d \in Clusters,
               \/ \E c \in Child : GarbageCollect(d, c)
               \/ \E c \in Rolling : Rollout(d, c)
               \/ \E n \in HandScales : HandScale(d, n)
               \/ \E c \in Removable : DeleteChild(d, c)
        PROVE  Same
    BY <1>8, <1>c DEF GarbageCollect, Rollout, HandScale, DeleteChild
  <1> QED BY <1>a, <1>1, <1>2, <1>3, <1>4, <1>5, <1>6, <1>7, <1>8
          DEF Next, Reconciler, ControlPlane, Pods, Users, Removals, Faults

-----------------------------------------------------------------------------
(***************************************************************************)
(* Two passes and the groups of one Dask.  Here k are the children of the  *)
(* Dask, m the pass that moves and o the other one; k2, m2 and o2 are what *)
(* they are after the step.                                                *)
(***************************************************************************)
\* Pass r has c behind it and nothing in its way up to c's gate.
IsMaking(k, r, d, c) ==
    /\ r.key = d
    /\ Gate[c] \in r.todo
    /\ \A x \in r.todo : Rank[c] < Rank[x]
    /\ \A x \in r.todo \cap Child : Rank[x] <= Rank[Gate[c]] => ~Exists(k[x])

\* Part of a group that the spec asks for is there, and nobody makes the rest.
IsHalf(k, s, d, m, o) == \E c \in Child \ Gates :
    /\ Exists(k[c]) /\ ~Exists(k[Gate[c]]) /\ Wanted(s, c)
    /\ ~IsMaking(k, m, d, c) /\ ~IsMaking(k, o, d, c)

\* The pass creates the first object it has left.
Adds(k, k2, m, m2, d) == \E op \in Child \cap m.todo :
    /\ m.key = d /\ m2.key = d
    /\ \A x \in m.todo : Rank[op] <= Rank[x]
    /\ m2.todo = m.todo \ {op}
    /\ \A c \in Child : Exists(k2[c]) <=> (Exists(k[c]) \/ c = op)

\* The pass creates nothing of d, and gives up nothing that it is making.
Rests(k, k2, m, m2, d) ==
    /\ \A c \in Child : Exists(k2[c]) <=> Exists(k[c])
    /\ \A c \in Child \ Gates : IsMaking(k, m, d, c) =>
          m2.key = d /\ Gate[c] \in m2.todo /\ m2.todo \subseteq m.todo

\* Whichever object of a group is created, by whom and in whose way, somebody is
\* making the rest.
LEMMA HalfStays ==
    ASSUME NEW k, NEW k2, NEW m, NEW m2, NEW o, NEW o2, NEW s, NEW d,
           m.todo \subseteq Calls, o.todo \subseteq Calls,
           \A c \in Child \cap m.todo : Gate[c] \in m.todo,
           o2.key = o.key, o2.todo = o.todo,
           Adds(k, k2, m, m2, d) \/ Rests(k, k2, m, m2, d),
           ~IsHalf(k, s, d, m, o)
    PROVE  ~IsHalf(k2, s, d, m2, o2)
  <1> SUFFICES ASSUME NEW c \in Child \ Gates,
                      Exists(k2[c]), ~Exists(k2[Gate[c]]), Wanted(s, c)
               PROVE  IsMaking(k2, m2, d, c) \/ IsMaking(k2, o2, d, c)
    BY DEF IsHalf
  <1>0. Gate[c] \in Child /\ \A x \in Calls : Rank[x] \in Nat
    BY GateIsLast, Order
  <1>1. CASE Rests(k, k2, m, m2, d)
    <2>1. /\ Exists(k[c]) /\ ~Exists(k[Gate[c]])
          /\ \A x \in Child : Exists(k2[x]) <=> Exists(k[x])
      BY <1>0, <1>1 DEF Rests
    <2>2. CASE IsMaking(k, o, d, c)
      BY <2>1, <2>2 DEF IsMaking
    <2>3. CASE IsMaking(k, m, d, c)
      <3>1. m2.key = d /\ Gate[c] \in m2.todo /\ m2.todo \subseteq m.todo
        BY <1>1, <2>3 DEF Rests
      <3> QED BY <2>1, <2>3, <3>1 DEF IsMaking
    <2> QED BY <2>1, <2>2, <2>3 DEF IsHalf
  <1>2. CASE Adds(k, k2, m, m2, d)
    <2>1. PICK op \in Child \cap m.todo :
             /\ m.key = d /\ m2.key = d
             /\ \A x \in m.todo : Rank[op] <= Rank[x]
             /\ m2.todo = m.todo \ {op}
             /\ \A x \in Child : Exists(k2[x]) <=> (Exists(k[x]) \/ x = op)
      BY <1>2 DEF Adds
    <2>2. ~Exists(k[Gate[c]]) /\ op # Gate[c] /\ op \in Calls
      BY <1>0, <2>1 DEF Calls
    <2>3. \A x \in m2.todo : Rank[op] < Rank[x]
      BY <1>0, <2>1, <2>2, ChildNames DEF Calls, Rank
    <2>4. CASE op = c
      <3>1. Gate[c] \in m2.todo
        BY <2>1, <2>2, <2>4
      <3>2. ASSUME NEW x \in m2.todo \cap Child, Rank[x] <= Rank[Gate[c]], Exists(k2[x])
            PROVE  IsMaking(k2, o2, d, c)
        <4>1. Rank[c] < Rank[x] /\ x # op /\ Exists(k[x])
          BY <2>1, <2>3, <2>4, <3>2
        <4>2. Gate[x] = Gate[c] /\ Wanted(s, x) /\ x \notin Gates
          BY <3>2, <4>1, <2>2, GroupOrder DEF Gates, Gate
        <4>3. ~IsMaking(k, m, d, x)
          BY <1>0, <2>1, <2>2, <2>4, <4>1, <3>2 DEF IsMaking, Calls
        <4>4. IsMaking(k, o, d, x)
          BY <2>2, <4>1, <4>2, <4>3 DEF IsHalf
        <4>5. \A y \in o.todo : Rank[c] < Rank[y]
          <5>1. \A y \in o.todo : Rank[x] < Rank[y] /\ Rank[y] \in Nat
            BY <1>0, <4>4 DEF IsMaking
          <5>2. Rank[c] \in Nat /\ Rank[x] \in Nat
            BY <1>0 DEF Calls
          <5> QED BY <4>1, <5>1, <5>2
        <4>6. \A y \in o.todo \cap Child :
                 Rank[y] <= Rank[Gate[c]] => ~Exists(k[y]) /\ y # op
          BY <2>4, <4>2, <4>4, <4>5, <1>0 DEF IsMaking, Calls
        <4> QED BY <2>1, <4>2, <4>4, <4>5, <4>6 DEF IsMaking
      <3> QED BY <2>1, <2>3, <2>4, <3>1, <3>2 DEF IsMaking
    <2>5. CASE op # c
      <3>1. Exists(k[c])
        BY <2>1, <2>5
      <3>2. CASE IsMaking(k, m, d, c)
        <4>1. Gate[c] \in m2.todo /\ m2.todo \subseteq m.todo
          BY <2>1, <2>2, <3>2 DEF IsMaking
        <4> QED BY <2>1, <3>2, <4>1 DEF IsMaking
      <3>3. CASE IsMaking(k, o, d, c) /\ ~IsMaking(k2, o2, d, c)
        <4>1. op \in o.todo /\ Rank[op] <= Rank[Gate[c]]
          BY <2>1, <3>3 DEF IsMaking
        <4>2. Rank[c] < Rank[op]
          BY <3>3, <4>1 DEF IsMaking
        <4>3. /\ Gate[op] = Gate[c]
              /\ \A y \in Child : Rank[op] < Rank[y] /\ Rank[y] <= Rank[Gate[c]]
                                   => y = Gate[c]
          BY <4>1, <4>2, GroupOrder
        <4>4. Gate[c] \in m2.todo
          BY <2>1, <2>2, <4>3
        <4>5. \A x \in m2.todo : Rank[c] < Rank[x]
          <5>1. Rank[c] \in Nat /\ Rank[op] \in Nat /\ \A x \in m2.todo : Rank[x] \in Nat
            BY <1>0, <2>1 DEF Calls
          <5> QED BY <2>3, <4>2, <5>1
        <4>6. \A x \in m2.todo \cap Child : Rank[x] <= Rank[Gate[c]] => x = Gate[c]
          BY <2>3, <4>3
        <4> QED BY <2>1, <4>4, <4>5, <4>6 DEF IsMaking
      <3> QED BY <2>2, <3>1, <3>2, <3>3 DEF IsHalf
    <2> QED BY <2>4, <2>5
  <1> QED BY <1>1, <1>2

\* A step of the reconciler that no builder stops creates an object of d, or gives
\* up nothing that it is making of d.
LEMMA ReconcilerMoves ==
    ASSUME TypeOK, CacheTrue, Reconciler,
           ~\E op \in rec.spec.broken : Refused(op), NEW d \in Clusters
    PROVE  /\ dask'[d].spec = dask[d].spec
           /\ Adds(live[d], live'[d], rec, rec', d) \/ Rests(live[d], live'[d], rec, rec', d)
  <1> USE ChildNames
  <1>0. /\ rec \in PassType /\ live \in [Clusters -> [Child -> Object]]
        /\ dask \in [Clusters -> DaskType] /\ rec.todo \subseteq Calls
        /\ \A x \in Calls : Rank[x] \in Nat
    BY Order DEF TypeOK, PassType
  <1>1. ASSUME NEW e \in Clusters, Begin(e) \/ BeginGone(e)
        PROVE  UNCHANGED <<dask, live>> /\ Rests(live[d], live'[d], rec, rec', d)
    <2>1. UNCHANGED <<dask, live>> /\ rec.key = NoCluster
      BY <1>1 DEF Begin, BeginGone, Idle
    <2> QED BY <2>1, ClustersAssumption DEF Rests, IsMaking
  <1>2. ASSUME NEW op \in Calls, Refused(op)
        PROVE  UNCHANGED <<dask, live>> /\ Rests(live[d], live'[d], rec, rec', d)
    <2>1. /\ UNCHANGED <<dask, live>> /\ op \in rec.todo /\ ~Accepted(op)
          /\ \A x \in rec.todo : Rank[op] <= Rank[x]
      BY <1>2 DEF Refused, Due
    <2>2. ASSUME NEW c \in Child \ Gates, IsMaking(live[d], rec, d, c) PROVE FALSE
      <3>1. Rank[op] <= Rank[Gate[c]] /\ Gate[c] \in Child /\ rec.key = d
        BY <2>1, <2>2 DEF IsMaking
      <3>2. op \in Child
        <4>1. Rank[Gate[c]] < Rank["scale"] /\ Rank[Gate[c]] < Rank["status"]
          BY <3>1, GateIsLast
        <4>2. Rank[op] \in Nat /\ Rank[Gate[c]] \in Nat
          BY <1>0, <3>1 DEF Calls
        <4> QED BY <3>1, <4>1, <4>2 DEF Calls
      <3>3. ~Exists(live[d][op])
        BY <2>1, <2>2, <3>1, <3>2 DEF IsMaking
      <3> QED BY <1>2, <2>1, <3>1, <3>2, <3>3 DEF Accepted
    <2> QED BY <2>1, <2>2 DEF Rests
  <1>3. ASSUME NEW op \in Calls, Call(op)
        PROVE  /\ dask'[d].spec = dask[d].spec
               /\ Adds(live[d], live'[d], rec, rec', d) \/ Rests(live[d], live'[d], rec, rec', d)
    <2>1. /\ op \in rec.todo /\ rec.key \in Clusters /\ Accepted(op) /\ Apply(op)
          /\ \A x \in rec.todo : Rank[op] <= Rank[x]
          /\ rec' = IF op = "status" THEN Idle ELSE [rec EXCEPT !.todo = @ \ {op}]
      BY <1>3 DEF Call, Due
    <2>2. op \notin Child => \A c \in Child \ Gates : ~IsMaking(live[d], rec, d, c)
      <3> SUFFICES ASSUME op \notin Child, NEW c \in Child \ Gates,
                          IsMaking(live[d], rec, d, c)
                   PROVE  FALSE
        OBVIOUS
      <3>1. Rank[op] <= Rank[Gate[c]] /\ Gate[c] \in Child
        BY <2>1 DEF IsMaking
      <3>2. Rank[Gate[c]] < Rank["scale"] /\ Rank[Gate[c]] < Rank["status"]
        BY <3>1, GateIsLast
      <3>3. Rank[op] \in Nat /\ Rank[Gate[c]] \in Nat
        BY <1>0, <3>1 DEF Calls
      <3> QED BY <3>1, <3>2, <3>3 DEF Calls
    <2>3. CASE op \in Child /\ Create(op)
      <3>1. /\ dask' = dask /\ rec'.key = rec.key /\ rec'.todo = rec.todo \ {op}
            /\ rec.uid # "none" /\ ~Exists(live[rec.key][op])
        BY <1>0, <2>1, <2>3 DEF Create, Accepted, PassType, CacheTrue
      <3>2. CASE rec.key # d
        <4>1. live'[d] = live[d]
          BY <1>0, <2>1, <2>3, <3>2 DEF Create
        <4> QED BY <3>1, <3>2, <4>1 DEF Rests, IsMaking
      <3>3. CASE rec.key = d
        <4>1. \A c \in Child : Exists(live'[d][c]) <=> (Exists(live[d][c]) \/ c = op)
          BY <1>0, <2>1, <2>3, <3>1, <3>3 DEF Create, Exists
        <4> QED BY <2>1, <2>3, <3>1, <3>3, <4>1 DEF Adds
      <3> QED BY <3>2, <3>3
    <2>4. CASE op = "scale" /\ Scale
      <3>1. dask' = dask /\ \A c \in Child : live'[d][c].owner = live[d][c].owner
        <4>1. \A c \in Child : live[d][c] \in Object
          BY <1>0
        <4>2. live'[d]["workerDeployment"].owner = live[d]["workerDeployment"].owner
          BY <1>0, <2>4, <4>1 DEF Scale, Object
        <4>3. \A c \in Child : c # "workerDeployment" => live'[d][c] = live[d][c]
          BY <1>0, <2>4 DEF Scale
        <4> QED BY <2>4, <4>2, <4>3 DEF Scale
      <3> QED BY <2>2, <2>4, <3>1 DEF Rests, Exists
    <2>5. CASE op = "status" /\ SaveStatus
      <3>1. live' = live /\ dask'[d].spec = dask[d].spec
        BY <1>0, <2>5 DEF SaveStatus, DaskType
      <3> QED BY <2>2, <2>5, <3>1 DEF Rests
    <2> QED BY <2>1, <2>3, <2>4, <2>5 DEF Apply
  <1> QED BY <1>1, <1>2, <1>3 DEF Reconciler

-----------------------------------------------------------------------------
(***************************************************************************)
(* Beside somebody who deletes nothing either.                             *)
(***************************************************************************)
\* As long as nothing is deleted, what is there stays there.
LEMMA KeptGrows ==
    ASSUME KeptInv, [NextKept]_vars
    PROVE  \A d \in Clusters : \A c \in Child : Exists(live[d][c]) => Exists(live'[d][c])
  <1>1. TypeOK'
    BY NextType DEF KeptInv, NextKept, Next
  <1>2. CASE \E op \in Calls : Due(op) /\ Accepted(op) /\ Apply(op)
    <2>1. PICK op \in Calls : Due(op) /\ Accepted(op) /\ Apply(op)
      BY <1>2
    <2>2. CASE op \in Child /\ Create(op)
      <3>1. /\ rec.key \in Clusters /\ live \in [Clusters -> [Child -> Object]]
            /\ ~Exists(live[rec.key][op])
        BY <2>1, <2>2, ChildNames DEF Due, Accepted, KeptInv, TypeOK
      <3> QED BY <2>2, <3>1 DEF Create
    <2>3. CASE op = "scale" /\ Scale
      <3>1. rec.key \in Clusters /\ live \in [Clusters -> [Child -> Object]]
        BY <2>1 DEF Due, KeptInv, TypeOK
      <3>2. \A d \in Clusters : \A c \in Child : live[d][c] \in Object
        BY <3>1
      <3>3. live'[rec.key]["workerDeployment"].owner = live[rec.key]["workerDeployment"].owner
        BY <2>3, <3>1, <3>2, ChildNames DEF Scale, Object
      <3>4. \A d \in Clusters : \A c \in Child :
               d # rec.key \/ c # "workerDeployment" => live'[d][c] = live[d][c]
        BY <2>3, <3>1 DEF Scale
      <3> QED BY <3>3, <3>4 DEF Exists
    <2>4. CASE op = "status" /\ SaveStatus
      BY <2>4 DEF SaveStatus
    <2> QED BY <2>1, <2>2, <2>3, <2>4 DEF Apply
  <1> QED BY <1>2, UnseenStep

\* Somebody else makes objects and publishes statuses, in the order that the
\* invariant asks for, and tells: it stays true of the pass in progress.
LEMMA KeptTold ==
    ASSUME KeptInv, UNCHANGED <<cdask, cached, queue>>,
           dask' \in [Clusters -> DaskType],
           live' \in [Clusters -> [Child -> Object]],
           pending' \in [Clusters -> SUBSET (Watched \cup {"dask"})],
           \A d \in Clusters : \A c \in Child :
              /\ Exists(live[d][c]) => Exists(live'[d][c])
              /\ live'[d][c].owner # "gone",
           DependenciesFirst', StatusWitnessed',
           rec' \in PassType,
           rec' = [rec EXCEPT !.stale = rec'.stale],
           rec.key = NoCluster => rec' = rec
    PROVE  KeptInv'
  <1> USE ChildNames
  <1>1. /\ rec'.key = rec.key /\ rec'.uid = rec.uid /\ rec'.spec = rec.spec
        /\ rec'.todo = rec.todo
    BY DEF KeptInv, TypeOK, PassType
  <1>2. TypeOK'
    BY <1>1 DEF KeptInv, TypeOK
  <1>3. ASSUME NEW d \in Clusters PROVE PassKept(d)'
    BY <1>1 DEF KeptInv, PassKept
  <1> QED BY <1>2, <1>3 DEF KeptInv

LEMMA HasStatusTold ==
    ASSUME TypeOK, HasStatus, rec' = [rec EXCEPT !.stale = rec'.stale]
    PROVE  HasStatus'
  BY DEF HasStatus, TypeOK, PassType

LEMMA GateToComeTold ==
    ASSUME TypeOK, GateToCome, rec' = [rec EXCEPT !.stale = rec'.stale]
    PROVE  GateToCome'
  BY DEF GateToCome, TypeOK, PassType
=============================================================================
