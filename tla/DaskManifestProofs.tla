------------------------- MODULE DaskManifestProofs -------------------------
(***************************************************************************)
(* What DaskManifests promises of the contents of manifests, for any specs *)
(* and settings, as long as nothing is deleted: sections, leaks, policies. *)
(***************************************************************************)
EXTENDS DaskManifests, DaskBringupProofs, DaskConvergenceProofs

-----------------------------------------------------------------------------
(***************************************************************************)
(* The inductive invariant.                                                *)
(***************************************************************************)

\* The parts of the spec that a context has taken something from.
From(x) == x.env \cup x.affinity

\* What a later section has put into the context comes too late for the Deployments
\* it must not reach: the pass no longer has them before it.
CtxInv == rec.key \in Clusters =>
    /\ From(ctx) \subseteq Part
    /\ "scheduler" \in From(ctx) => "jupyterDeployment" \notin rec.todo
    /\ "worker" \in From(ctx) => {"jupyterDeployment", "schedulerDeployment"} \cap rec.todo = {}

\* An object made by a pass that wants policies has the policy of its group.
Guarded == \A d \in Clusters : \A c \in Kept :
    Exists(live[d][c]) /\ made[d][c].policies =>
        \A p \in Policies : Gate[p] = c => Exists(live[d][p])

MadeShaped == made = [d \in Clusters |-> [c \in Kept |-> made[d][c]]]

MadeInv == /\ KeptInv /\ Inv
           /\ MadeShaped /\ CtxInv /\ Guarded
           /\ OwnSettings /\ LeaksDownstream

LEMMA KeptNames ==
    /\ Kept \subseteq Child /\ Kept \subseteq Gates /\ Deployments \subseteq Kept
    /\ DOMAIN Upstream \subseteq Kept
    /\ Policies \subseteq Child /\ Policies \cap Kept = {}
    /\ \A p \in Policies : Gate[p] \in Kept /\ Rank[p] < Rank[Gate[p]] /\ p \in Calls
  BY ChildNames DEF Kept, Gates, Deployments, Upstream, Policies, Gate, Rank, Calls

LEMMA MadeInit == ManifestsInit => MadeInv
  <1> SUFFICES ASSUME ManifestsInit PROVE MadeInv
    OBVIOUS
  <1>1. KeptInv /\ Inv
    BY KeptInit, InvInit DEF ManifestsInit
  <1>2. \A d \in Clusters : \A c \in Child : ~Exists(live[d][c])
    BY NoneTaken DEF ManifestsInit, Init, Beforehand, Absent, Exists
  <1>3. Guarded /\ OwnSettings /\ LeaksDownstream
    BY <1>2, KeptNames DEF Guarded, OwnSettings, LeaksDownstream
  <1>4. MadeShaped
    BY DEF ManifestsInit, MadeShaped
  <1>5. CtxInv
    BY ClustersAssumption DEF ManifestsInit, Init, Idle, CtxInv
  <1> QED BY <1>1, <1>3, <1>4, <1>5 DEF MadeInv

-----------------------------------------------------------------------------
(***************************************************************************)
(* The steps, as steps of DaskController.                                  *)
(***************************************************************************)

\* The effect of a call on what is remembered, answered or not.
Calling(op) == /\ Builds(op) /\ Accepted(op) /\ Apply(op) /\ Remember(op)
               /\ UNCHANGED <<cdask, cached>>

\* A step is one of DaskController; it remembers the object it makes, and makes none
\* otherwise.
LEMMA StepKinds ==
    ASSUME KeptInv, [ManifestsNext]_mvars
    PROVE  /\ [NextKept]_vars
           /\ \/ \E op \in Calls : Calling(op)
              \/ /\ made' = made
                 /\ \A d \in Clusters : \A c \in Child :
                       Exists(live'[d][c]) <=> Exists(live[d][c])
  <1> DEFINE Unseen == \A d \in Clusters : \A c \in Child :
                          Exists(live'[d][c]) <=> Exists(live[d][c])
             Goal == /\ [NextKept]_vars
                     /\ (\E op \in Calls : Calling(op)) \/ (made' = made /\ Unseen)
  <1>1. ASSUME NEW d \in Clusters, Start(d) PROVE Goal
    <2>1. Begin(d) /\ made' = made
      BY <1>1 DEF Start
    <2>2. NextKept
      BY <2>1 DEF NextKept, Reconciler
    <2> QED BY <2>1, <2>2, OtherStep
  <1>2. ASSUME NEW op \in Calls, Make(op) PROVE Goal
    <2>1. Call(op) /\ Builds(op) /\ Remember(op)
      BY <1>2 DEF Make
    <2>2. NextKept
      BY <2>1 DEF NextKept, Reconciler
    <2>3. Calling(op)
      BY <2>1 DEF Calling, Call
    <2> QED BY <2>2, <2>3
  <1>3. ASSUME NEW op \in Calls, Reject(op) PROVE Goal
    <2>1. (Refused(op) \/ ApiError) /\ made' = made
      BY <1>3 DEF Reject
    <2>2. NextKept
      BY <2>1 DEF NextKept, Reconciler, Faults
    <2> QED BY <2>1, <2>2, OtherStep
  <1>4. ASSUME NEW op \in Calls, Panic(op) PROVE Goal
    <2>1. Crash /\ made' = made
      BY <1>4 DEF Panic
    <2>2. NextKept
      BY <2>1 DEF NextKept, Faults
    <2> QED BY <2>1, <2>2, OtherStep
  <1>5. CASE World
    <2>1. (ControlPlane \/ Pods \/ Users) /\ made' = made
      BY <1>5 DEF World
    <2>2. NextKept
      BY <2>1 DEF NextKept
    <2> QED BY <2>1, <2>2, OtherStep
  <1>6. CASE (ApiError \/ Crash) /\ UNCHANGED made
    <2>1. NextKept
      BY <1>6 DEF NextKept, Faults
    <2> QED BY <1>6, <2>1, OtherStep
  <1>7. ASSUME NEW op \in Calls, Builds(op), LostReply(op), Remember(op) PROVE Goal
    <2>1. NextKept
      BY <1>7 DEF NextKept, Faults
    <2>2. Calling(op)
      BY <1>7 DEF Calling, LostReply
    <2> QED BY <2>1, <2>2
  <1>8. CASE UNCHANGED mvars
    <2>1. UNCHANGED vars /\ made' = made
      BY <1>8 DEF mvars
    <2> QED BY <2>1, OtherStep
  <1> QED BY <1>1, <1>2, <1>3, <1>4, <1>5, <1>6, <1>7, <1>8
          DEF ManifestsNext, Operator, Failures

\* What a section does to the parts a context has taken something from.
LEMMA AppliedFrom ==
    ASSUME NEW x, NEW part, NEW sec
    PROVE  From(applySpecifics(x, part, sec)) \subseteq From(x) \cup {part}
  BY DEF From, applySpecifics

LEMMA PreparedFrom ==
    ASSUME NEW op
    PROVE  From(Prepared(op)) \subseteq
              From(ctx) \cup {SectionFor[x] : x \in {op} \cap DOMAIN SectionFor}
  BY AppliedFrom DEF Prepared, ForPart

\* A step of the world leaves the pass in progress where it is.
LEMMA WorldPass ==
    ASSUME TypeOK, ControlPlane \/ Pods \/ Users
    PROVE  rec'.key = rec.key /\ rec'.todo = rec.todo
  <1> DEFINE Same == rec'.key = rec.key /\ rec'.todo = rec.todo
  <1>1. \A d \in Clusters : \A objs : Touched(d, objs) => Same
    BY DEF Touched, TypeOK, PassType
  <1>2. ASSUME NEW d \in Clusters, NEW c, NEW o, Becomes(d, c, o) PROVE Same
    BY <1>1, <1>2 DEF Becomes
  <1>3. ASSUME NEW d \in Clusters,
               \/ \E c \in Child : GarbageCollect(d, c)
               \/ \E c \in Rolling : Rollout(d, c)
               \/ \E n \in HandScales : HandScale(d, n)
        PROVE  Same
    BY <1>2, <1>3 DEF GarbageCollect, Rollout, HandScale
  <1>4. ASSUME NEW d \in Clusters, NEW s \in Specs, CreateDask(d, s) \/ EditDask(d, s)
        PROVE  Same
    BY <1>1, <1>4 DEF CreateDask, EditDask
  <1>5. ASSUME NEW d \in Clusters, Resync(d) \/ \E o \in pending[d] : Deliver(d, o)
        PROVE  Same
    BY <1>5 DEF Resync, Deliver
  <1> QED BY <1>3, <1>4, <1>5 DEF ControlPlane, Pods, Users

LEMMA CtxNext ==
    ASSUME TypeOK, CtxInv, [ManifestsNext]_mvars
    PROVE  CtxInv'
  <1>1. rec' = Idle => CtxInv'
    BY ClustersAssumption DEF CtxInv, Idle
  <1>2. rec'.key = rec.key /\ rec'.todo = rec.todo /\ ctx' = ctx => CtxInv'
    BY DEF CtxInv, From
  <1>3. ASSUME NEW d \in Clusters, Start(d) PROVE CtxInv'
    <2>1. From(ctx') \subseteq {"cluster"}
      BY <1>3 DEF Start, SetConfig, From
    <2> QED BY <2>1 DEF CtxInv, Part
  <1>4. ASSUME NEW op \in Calls, Make(op) PROVE CtxInv'
    <2>1. CASE op = "status"
      BY <1>1, <1>4, <2>1 DEF Make, Call
    <2>2. CASE op # "status"
      <3>1. /\ rec'.key = rec.key /\ rec'.todo = rec.todo \ {op} /\ ctx' = Prepared(op)
            /\ rec.key \in Clusters /\ Due(op)
        BY <1>4, <2>2 DEF Make, Call, Due, TypeOK, PassType
      <3>2. /\ From(ctx') \subseteq From(ctx) \cup {"notebook", "scheduler", "worker"}
            /\ "scheduler" \in From(ctx') \ From(ctx) => op = "schedulerDeployment"
            /\ "worker" \in From(ctx') \ From(ctx) => op = "workerDeployment"
        BY <3>1, PreparedFrom DEF SectionFor
      <3>3. op = "schedulerDeployment" => "jupyterDeployment" \notin rec.todo
        BY <3>1, DueFirst, ChildNames DEF Calls, Rank
      <3>4. op = "workerDeployment" =>
               {"jupyterDeployment", "schedulerDeployment"} \cap rec.todo = {}
        BY <3>1, DueFirst, ChildNames DEF Calls, Rank
      <3> QED BY <3>1, <3>2, <3>3, <3>4 DEF CtxInv, Part
    <2> QED BY <2>1, <2>2
  <1>5. CASE World
    BY <1>2, <1>5, WorldPass DEF World
  <1>6. ASSUME NEW op \in Calls, Reject(op) \/ Panic(op) \/ LostReply(op) PROVE CtxInv'
    BY <1>1, <1>6 DEF Reject, Panic, LostReply, Refused, ApiError, Fail, Crash
  <1>7. CASE ApiError \/ Crash
    BY <1>1, <1>7 DEF ApiError, Fail, Crash
  <1>8. CASE UNCHANGED mvars
    BY <1>2, <1>8 DEF mvars, vars
  <1> QED BY <1>3, <1>4, <1>5, <1>6, <1>7, <1>8 DEF ManifestsNext, Operator, Failures

-----------------------------------------------------------------------------
(***************************************************************************)
(* The invariant is kept.                                                  *)
(***************************************************************************)

\* The object a call makes is the only one that comes into being.
LEMMA CallEffect ==
    ASSUME KeptInv, NEW op \in Calls, Calling(op)
    PROVE  \A d \in Clusters : \A c \in Child :
              /\ Exists(live[d][c]) => Exists(live'[d][c])
              /\ Exists(live'[d][c]) /\ ~Exists(live[d][c]) =>
                    d = rec.key /\ c = op
              /\ d = rec.key /\ c = op => ~Exists(live[d][c])
  <1> DEFINE k == rec.key
  <1> USE ChildNames
  <1>0. /\ k \in Clusters /\ op \in rec.todo
        /\ live \in [Clusters -> [Child -> Object]]
    BY DEF Calling, Builds, Due, KeptInv, TypeOK
  <1>1. CASE op \in Child /\ Create(op)
    <2>1. /\ ~Exists(live[k][op])
          /\ \A d \in Clusters : \A c \in Child :
                d # k \/ c # op => live'[d][c] = live[d][c]
      BY <1>0, <1>1 DEF Create, Accepted, Calling
    <2> QED BY <2>1
  <1>2. CASE op = "scale" /\ Scale
    <2>1. [live[k]["workerDeployment"] EXCEPT !.replicas = rec.spec.replicas].owner
             = live[k]["workerDeployment"].owner
      BY <1>0 DEF Object
    <2>2. \A d \in Clusters : \A c \in Child : Exists(live'[d][c]) <=> Exists(live[d][c])
      BY <1>0, <1>2, <2>1 DEF Scale, Exists
    <2> QED BY <1>2, <2>2
  <1>3. CASE op = "status" /\ SaveStatus
    BY <1>3 DEF SaveStatus
  <1> QED BY <1>1, <1>2, <1>3 DEF Calling, Apply

\* What is remembered of the object a call makes.
LEMMA Remembered ==
    ASSUME MadeShaped, NEW op \in Calls, Calling(op)
    PROVE  /\ MadeShaped'
           /\ \A d \in Clusters : \A c \in Kept :
                 made'[d][c] = IF d = rec.key /\ c = op THEN Rendered(op) ELSE made[d][c]
  <1>0. rec.key \in Clusters
    BY DEF Calling, Builds, Due
  <1>1. CASE op \notin Kept
    BY <1>1 DEF Calling, Remember, MadeShaped
  <1>2. CASE op \in Kept
    <2> DEFINE row == [c \in Kept |-> IF c = op THEN Rendered(op) ELSE made[rec.key][c]]
    <2>1. made = [d \in Clusters |-> [c \in Kept |-> made[d][c]]]
      BY DEF MadeShaped
    <2>2. made' = [made EXCEPT ![rec.key][op] = Rendered(op)]
      BY <1>2 DEF Calling, Remember
    <2>3. [made[rec.key] EXCEPT ![op] = Rendered(op)] = row
      BY <1>0, <2>1
    <2>4. made' = [d \in Clusters |-> IF d = rec.key THEN row ELSE made[d]]
      BY <2>1, <2>2, <2>3
    <2>5. \A d \in Clusters : made'[d] = IF d = rec.key THEN row ELSE made[d]
      BY <2>4
    <2>6. ASSUME NEW d \in Clusters, NEW c \in Kept
          PROVE  made'[d][c] = IF d = rec.key /\ c = op THEN Rendered(op) ELSE made[d][c]
      <3>1. row[c] = IF c = op THEN Rendered(op) ELSE made[rec.key][c]
        OBVIOUS
      <3> HIDE DEF row
      <3> QED BY <2>5, <3>1
    <2>7. \A d \in Clusters : made'[d] = [c \in Kept |-> made'[d][c]]
      BY <2>1, <2>5
    <2>8. made' = [d \in Clusters |-> made'[d]]
      BY <2>4
    <2>9. [d \in Clusters |-> made'[d]] = [d \in Clusters |-> [c \in Kept |-> made'[d][c]]]
      BY <2>7
    <2> QED BY <2>6, <2>8, <2>9 DEF MadeShaped
  <1> QED BY <1>1, <1>2

\* A new object has its own section's settings, nothing from downstream, and the
\* policy of its group.
LEMMA NewObject ==
    ASSUME KeptInv, CtxInv, NEW op \in Kept, Calling(op)
    PROVE  /\ op \in Deployments => HasOwn(Rendered(op), op)
           /\ op \in DOMAIN Upstream =>
                 Rendered(op).env \cup Rendered(op).affinity \subseteq Upstream[op]
           /\ Rendered(op).policies =>
                 \A p \in Policies : Gate[p] = op => Exists(live[rec.key][p])
  <1> USE ChildNames, KeptNames
  <1>0. Due(op) /\ rec.key \in Clusters /\ op \in rec.todo /\ op \in Calls
    BY DEF Calling, Builds, Due, Calls
  <1>1. ASSUME op \in Deployments PROVE HasOwn(Rendered(op), op)
    <2>1. op \in DOMAIN SectionFor /\ SectionFor[op] = PodsOf[op] /\ PodsOf[op] \in Part
      BY <1>1 DEF Deployments, SectionFor, PodsOf, Part
    <2>2. /\ Rendered(op).env =
                applySpecifics(ctx, PodsOf[op], Settings[rec.spec].section[PodsOf[op]]).env
          /\ Rendered(op).spec = rec.spec
      BY <1>1, <2>1 DEF Rendered, Prepared, ForPart
    <2> QED BY <2>2 DEF applySpecifics, HasOwn
  <1>2. ASSUME op \in DOMAIN Upstream
        PROVE  Rendered(op).env \cup Rendered(op).affinity \subseteq Upstream[op]
    <2>1. op \in Deployments
      BY <1>2 DEF Upstream, Deployments
    <2>2. Rendered(op).env \cup Rendered(op).affinity = From(Prepared(op))
      BY <2>1 DEF Rendered, From
    <2>3. From(Prepared(op)) \subseteq From(ctx) \cup {PodsOf[op]}
      BY <2>1, PreparedFrom DEF Deployments, SectionFor, PodsOf
    <2>4. /\ From(ctx) \subseteq Part
          /\ "scheduler" \in From(ctx) => op # "jupyterDeployment"
          /\ "worker" \in From(ctx) => op \notin {"jupyterDeployment", "schedulerDeployment"}
      BY <1>0 DEF CtxInv
    <2> QED BY <1>2, <2>2, <2>3, <2>4 DEF Upstream, PodsOf, Part
  <1>3. ASSUME Rendered(op).policies, NEW p \in Policies, Gate[p] = op
        PROVE  Exists(live[rec.key][p])
    <2>1. rec.spec.policies
      BY <1>3 DEF Rendered, NoManifest
    <2>2. Wanted(rec.spec, op)
      BY <1>0 DEF KeptInv, PassKept
    <2>3. Wanted(rec.spec, p)
      BY <1>3, <2>1, <2>2 DEF Wanted, Policies, JupyterGroup, Gate
    <2>4. p \notin rec.todo
      BY <1>0, <1>3, DueFirst
    <2> QED BY <1>0, <1>3, <2>3, <2>4 DEF KeptInv, PassKept
  <1> QED BY <1>1, <1>2, <1>3

LEMMA MadeNext == MadeInv /\ [ManifestsNext]_mvars => MadeInv'
  <1> SUFFICES ASSUME MadeInv, [ManifestsNext]_mvars PROVE MadeInv'
    OBVIOUS
  <1> USE ChildNames, KeptNames
  <1>0. /\ KeptInv /\ Inv /\ TypeOK /\ MadeShaped /\ CtxInv /\ Guarded
        /\ OwnSettings /\ LeaksDownstream
    BY DEF MadeInv, KeptInv
  <1>1. [NextKept]_vars
    BY <1>0, StepKinds
  <1>2. KeptInv' /\ Inv'
    BY <1>0, <1>1, KeptNext, InvNext DEF NextKept, Next
  <1>3. CtxInv'
    BY <1>0, CtxNext
  <1>4. ASSUME NEW op \in Calls, Calling(op)
        PROVE  MadeShaped' /\ Guarded' /\ OwnSettings' /\ LeaksDownstream'
    <2>1. /\ MadeShaped'
          /\ \A d \in Clusters : \A c \in Kept :
                made'[d][c] = IF d = rec.key /\ c = op THEN Rendered(op) ELSE made[d][c]
      BY <1>0, <1>4, Remembered
    <2>2. \A d \in Clusters : \A c \in Child :
             /\ Exists(live[d][c]) => Exists(live'[d][c])
             /\ Exists(live'[d][c]) /\ ~Exists(live[d][c]) => d = rec.key /\ c = op
             /\ d = rec.key /\ c = op => ~Exists(live[d][c])
      BY <1>0, <1>4, CallEffect
    <2>3. ASSUME NEW d \in Clusters, NEW c \in Kept, Exists(live'[d][c]),
                 ~(d = rec.key /\ c = op)
          PROVE  Exists(live[d][c]) /\ made'[d][c] = made[d][c]
      BY <2>1, <2>2, <2>3
    <2>4. ASSUME NEW d \in Clusters, NEW c \in Deployments, Exists(live'[d][c])
          PROVE  HasOwn(made'[d][c], c)
      <3>1. CASE d = rec.key /\ c = op
        <4>1. HasOwn(Rendered(op), op)
          BY <1>0, <1>4, <3>1, NewObject
        <4>2. made'[d][c] = Rendered(op)
          BY <2>1, <3>1
        <4> QED BY <3>1, <4>1, <4>2
      <3>2. CASE ~(d = rec.key /\ c = op)
        BY <1>0, <2>3, <2>4, <3>2 DEF OwnSettings
      <3> QED BY <3>1, <3>2
    <2>5. ASSUME NEW d \in Clusters, NEW c \in DOMAIN Upstream, Exists(live'[d][c])
          PROVE  made'[d][c].env \cup made'[d][c].affinity \subseteq Upstream[c]
      <3>1. CASE d = rec.key /\ c = op
        BY <1>0, <1>4, <2>1, <3>1, NewObject
      <3>2. CASE ~(d = rec.key /\ c = op)
        BY <1>0, <2>3, <2>5, <3>2 DEF LeaksDownstream
      <3> QED BY <3>1, <3>2
    <2>6. ASSUME NEW d \in Clusters, NEW c \in Kept, Exists(live'[d][c]),
                 made'[d][c].policies, NEW p \in Policies, Gate[p] = c
          PROVE  Exists(live'[d][p])
      <3>1. CASE d = rec.key /\ c = op
        <4>1. Exists(live[d][p])
          BY <1>0, <1>4, <2>1, <2>6, <3>1, NewObject
        <4> QED BY <2>2, <4>1
      <3>2. CASE ~(d = rec.key /\ c = op)
        <4>1. Exists(live[d][p])
          BY <1>0, <2>3, <2>6, <3>2 DEF Guarded
        <4> QED BY <2>2, <4>1
      <3> QED BY <3>1, <3>2
    <2>7. OwnSettings'
      BY <2>4 DEF OwnSettings, HasOwn
    <2>8. LeaksDownstream' /\ Guarded'
      BY <2>5, <2>6 DEF Guarded, LeaksDownstream
    <2> QED BY <2>1, <2>7, <2>8
  <1>5. ASSUME made' = made, \A d \in Clusters : \A c \in Child :
                                Exists(live'[d][c]) <=> Exists(live[d][c])
        PROVE  MadeShaped' /\ Guarded' /\ OwnSettings' /\ LeaksDownstream'
    <2>1. MadeShaped'
      BY <1>0, <1>5 DEF MadeShaped
    <2>2. Guarded'
      BY <1>0, <1>5 DEF Guarded
    <2>3. OwnSettings'
      BY <1>0, <1>5 DEF OwnSettings, HasOwn
    <2>4. LeaksDownstream'
      BY <1>0, <1>5 DEF LeaksDownstream
    <2> QED BY <2>1, <2>2, <2>3, <2>4
  <1> QED BY <1>0, <1>2, <1>3, <1>4, <1>5, StepKinds DEF MadeInv

-----------------------------------------------------------------------------
(***************************************************************************)
(* The theorems.                                                           *)
(***************************************************************************)

\* A Deployment has the settings of its own section, where there is one.
THEOREM SectionsAreOwn == ManifestsKept => []OwnSettings
  <1>1. MadeInv => OwnSettings
    BY DEF MadeInv
  <1> QED BY <1>1, MadeInit, MadeNext, PTL DEF ManifestsKept

\* No section's settings reach the pods of a Deployment created earlier in a pass.
THEOREM LeaksGoDownstream == ManifestsKept => []LeaksDownstream
  <1>1. MadeInv => LeaksDownstream
    BY DEF MadeInv
  <1> QED BY <1>1, MadeInit, MadeNext, PTL DEF ManifestsKept

\* Without the context and what is remembered, it is the specification of the
\* reconciler: what has been proved about that holds here.
LEMMA ManifestsSimulate == ManifestsKept => SpecKept
  <1>1. ManifestsInit => KeptInv /\ Init
    BY KeptInit DEF ManifestsInit
  <1>2. KeptInv /\ [ManifestsNext]_mvars => KeptInv' /\ [NextKept]_vars
    BY StepKinds, KeptNext
  <1> QED BY <1>1, <1>2, PTL DEF ManifestsKept, SpecKept

\* A cluster comes up stage by stage although sections leak from builder to builder,
\* templates fail and builders panic in the middle of a pass.
THEOREM ManifestsFollowBringup == ManifestsKept => FollowsBringup
  BY ManifestsSimulate, BringupIsFollowed, PTL

\* A policy that allows a connection is enough.
LEMMA PolicyAllows ==
    ASSUME NEW d, NEW rules, NEW pod, NEW peer, NEW port, NEW p \in DOMAIN rules,
           Exists(live[d][p]), pod \in Selects[p], <<peer, port>> \in rules[p]
    PROVE  Allowed(d, rules, pod, peer, port)
  BY DEF Allowed

\* So is to be selected by none.
LEMMA FreePod ==
    ASSUME NEW d, NEW rules, NEW pod, NEW peer, NEW port,
           \A p \in DOMAIN rules : ~Exists(live[d][p]) \/ pod \notin Selects[p]
    PROVE  Allowed(d, rules, pod, peer, port)
  BY DEF Allowed

\* A pod that an existing Deployment made under the policies' setting runs has what
\* its group's policy and the one for DNS give it.
LEMMA OwnPolicies ==
    ASSUME MadeInv, NEW d \in Clusters, NEW c \in Deployments, Exists(live[d][c]),
           made[d][c].policies, OneSetting(d, PodsOf[c])
    PROVE  /\ Exists(live[d]["dnsPolicy"])
           /\ \A p \in Policies : Gate[p] = c => Exists(live[d][p])
  <1> USE ChildNames, KeptNames
  <1>1. made[d]["config"].policies
    <2>1. made[d]["config"].policies = made[d][c].policies
      BY Zenon DEF OneSetting
    <2> QED BY <2>1, Zenon
  <1>2. Exists(live[d]["config"])
    <2>0. CacheTrue /\ TypeOK
      BY DEF MadeInv, Inv
    <2>1. live[d][c].owner = "foreign" => c \in Foreign
      BY <2>0 DEF CacheTrue
    <2>2. live[d][c] \in Object
      <3>1. c \in Child
        OBVIOUS
      <3>2. live \in [Clusters -> [Child -> Object]]
        BY <2>0 DEF TypeOK
      <3> QED BY <3>1, <3>2
    <2>3. OwnedByDask(live[d][c])
      BY <2>1, <2>2, NoneTaken DEF OwnedByDask, Exists, Object
    <2>4. c \in DOMAIN Needs /\ "config" \in Needs[c]
      BY DEF Deployments, Needs
    <2> QED BY <2>3, <2>4 DEF MadeInv, KeptInv, DependenciesFirst
  <1>3. Gate["dnsPolicy"] = "config" /\ "dnsPolicy" \in Policies /\ "config" \in Kept
    BY DEF Gate, Policies, Kept
  <1> QED BY <1>1, <1>2, <1>3 DEF MadeInv, Guarded

\* Under one setting of the switch for its own group, a pod that is there reaches
\* the pods it works with and the name server, whatever the other groups have.
THEOREM PodsAreConnected == ManifestsKept => []Connected
  <1>1. MadeInv => Connected
    <2> SUFFICES ASSUME MadeInv, NEW d \in Clusters, NEW l \in Links,
                        {l[1], l[2]} \subseteq Running(d), OneSetting(d, l[1])
                 PROVE  CanReach(d, l[1], l[2], l[3])
      BY DEF Connected
    <2> USE ChildNames, KeptNames
    <2>1. /\ "notebook" \in Running(d) => Exists(live[d]["jupyterDeployment"])
          /\ "scheduler" \in Running(d) => Exists(live[d]["schedulerDeployment"])
          /\ "worker" \in Running(d) => Exists(live[d]["workerDeployment"])
      BY DEF Running, PodsOf, Deployments
    <2>2. ASSUME NEW c \in Deployments, PodsOf[c] = l[1], Exists(live[d][c]),
                 NEW own \in Policies, Gate[own] = c,
                 l[1] \in Selects["dnsPolicy"], l[1] \in Selects[own],
                 \A p \in Policies \ {"dnsPolicy", own} : l[1] \notin Selects[p],
                 IF l[2] = "dns" THEN <<l[2], l[3]>> \in EgressRules["dnsPolicy"]
                                 ELSE <<l[2], l[3]>> \in EgressRules[own]
          PROVE  Allowed(d, EgressRules, l[1], l[2], l[3])
      <3>1. DOMAIN EgressRules = Policies
        BY DEF EgressRules, Policies
      <3>2. CASE made[d][c].policies
        BY <2>2, <3>1, <3>2, OwnPolicies, PolicyAllows DEF Policies
      <3>3. CASE ~made[d][c].policies
        <4>1. Gate["dnsPolicy"] = "config"
          BY DEF Gate
        <4>2. ~Exists(live[d]["dnsPolicy"]) /\ ~Exists(live[d][own])
          BY <2>2, <3>3, <4>1 DEF OneSetting, Policies
        <4> QED BY <2>2, <3>1, <4>2, FreePod
      <3> QED BY <3>2, <3>3
    <2>3. Allowed(d, EgressRules, l[1], l[2], l[3])
      <3>1. CASE l[1] \in {"job", "nginx"}
        BY <3>1, FreePod DEF EgressRules, Selects
      <3>2. CASE l[1] = "notebook"
        <4>1. IF l[2] = "dns" THEN <<l[2], l[3]>> \in EgressRules["dnsPolicy"]
                              ELSE <<l[2], l[3]>> \in EgressRules["jupyterPolicy"]
          BY <3>2 DEF Links, EgressRules, Port, Pod
        <4> QED BY <2>1, <2>2, <3>2, <4>1 DEF Deployments, PodsOf, Policies, Gate, Selects
      <3>3. CASE l[1] = "scheduler"
        <4>1. IF l[2] = "dns" THEN <<l[2], l[3]>> \in EgressRules["dnsPolicy"]
                              ELSE <<l[2], l[3]>> \in EgressRules["schedulerPolicy"]
          BY <3>3 DEF Links, EgressRules, Port, Pod
        <4> QED BY <2>1, <2>2, <3>3, <4>1 DEF Deployments, PodsOf, Policies, Gate, Selects
      <3>4. CASE l[1] = "worker"
        <4>1. IF l[2] = "dns" THEN <<l[2], l[3]>> \in EgressRules["dnsPolicy"]
                              ELSE <<l[2], l[3]>> \in EgressRules["workerPolicy"]
          BY <3>4 DEF Links, EgressRules, Port, Pod
        <4> QED BY <2>1, <2>2, <3>4, <4>1 DEF Deployments, PodsOf, Policies, Gate, Selects
      <3> QED BY <3>1, <3>2, <3>3, <3>4 DEF Links
    <2>4. Allowed(d, IngressRules, l[2], l[1], l[3])
      <3>1. CASE l[2] = "dns"
        BY <3>1, FreePod DEF IngressRules, Selects
      <3>2. CASE l[2] = "scheduler"
        <4>1. <<l[1], l[3]>> \in IngressRules["schedulerPolicy"]
          BY <3>2 DEF Links, IngressRules
        <4> QED BY <3>2, <4>1 DEF Allowed, IngressRules, Selects
      <3>3. CASE l[2] = "worker"
        <4>1. <<l[1], l[3]>> \in IngressRules["workerPolicy"]
          BY <3>3 DEF Links, IngressRules, Port
        <4> QED BY <3>3, <4>1 DEF Allowed, IngressRules, Selects
      <3> QED BY <3>1, <3>2, <3>3 DEF Links
    <2> QED BY <2>3, <2>4 DEF CanReach
  <1> QED BY <1>1, MadeInit, MadeNext, PTL DEF ManifestsKept
=============================================================================
