---------------------------- MODULE DaskManifests ----------------------------
(***************************************************************************)
(* What the objects of a Dask are made from.  DaskController says when a   *)
(* child is created; here each pass also carries its DaskContext, which    *)
(* types/types.go sets up and rewrites on the way, each Deployment         *)
(* remembers what it was rendered from, and the NetworkPolicies have their *)
(* rules.                                                                  *)
(*                                                                         *)
(* ForNotebook, ForScheduler and ForWorker do not copy the context: they   *)
(* write into the one of the pass.  What a pod gets therefore depends on   *)
(* which builders ran before its own in the same pass.                     *)
(***************************************************************************)
EXTENDS DaskController

CONSTANT Settings   \* what each of Specs sets, beyond what DaskController knows

\* Who sets a field: the Dask itself or its section for one kind of pod.
Part == {"cluster", "notebook", "scheduler", "worker"}
Sections == Part \ {"cluster"}

\* "env" stands for the fields that a section replaces (volumes, volumeMounts, env,
\* nodeSelector, tolerations), "affinity" for those it is merged into (affinity,
\* resources).
Field == {"env", "affinity", "pullSecrets"}

SettingsType == [cluster  : SUBSET Field,
                 section  : [Sections -> [given : BOOLEAN, sets : SUBSET Field]],
                 daemon   : BOOLEAN]

ASSUME SettingsAssumption == Settings \in [Specs -> SettingsType]

\* Nothing is known of the rules of a policy that somebody else has made.
ASSUME NoneTaken == Foreign = {}

VARIABLES
    ctx,    \* the DaskContext of the pass in progress
    made    \* what the ConfigMap and each Deployment were rendered from

mvars == <<vars, ctx, made>>

-----------------------------------------------------------------------------
(***************************************************************************)
(* The context.  A field holds the parts its value comes from.  The        *)
(* affinity is an interface: "typed" when it holds a pointer of the API's  *)
(* type (to nothing, if no part sets it), "map" when it was decoded into   *)
(* the empty interface, "nil" when it was set to nil.                      *)
(***************************************************************************)
NoContext == [env |-> {}, affinity |-> {}, form |-> "nil", pullSecrets |-> {}]

SetConfig(s) ==
    LET Set(f) == IF f \in Settings[s].cluster THEN {"cluster"} ELSE {}
    IN [env |-> Set("env"), affinity |-> Set("affinity"), form |-> "typed",
        pullSecrets |-> Set("pullSecrets")]

\* (mutant of applySpecifics) what a section leaves out stays as it was
ApplyOver(x, part, sec) ==
    IF ~sec.given THEN x
    ELSE [env |-> IF "env" \in sec.sets THEN {part} ELSE x.env,
          affinity |-> IF "affinity" \in sec.sets /\ x.form = "typed" THEN x.affinity \cup {part}
                       ELSE IF "affinity" \in sec.sets THEN {part} ELSE x.affinity,
          form |-> IF "affinity" \in sec.sets /\ x.form = "typed" /\ x.affinity = {}
                   THEN "map" ELSE x.form,
          pullSecrets |-> x.pullSecrets]

\* A section is written over the context: what it omits becomes nil, what it sets
\* replaces what was there - but an affinity already there as a pointer is decoded
\* into, and its secrets go by a JSON name that no field of the context bears.
applySpecifics(x, part, sec) ==
    IF ~sec.given THEN x
    ELSE [env         |-> IF "env" \in sec.sets THEN {part} ELSE {},
          affinity    |-> IF "affinity" \notin sec.sets THEN {}
                          ELSE {part} \cup IF x.form = "typed" THEN x.affinity ELSE {},
          form        |-> IF "affinity" \notin sec.sets THEN "nil"
                          ELSE IF x.form = "typed" /\ x.affinity # {} THEN "typed" ELSE "map",
          pullSecrets |-> IF "pullSecrets" \in sec.sets THEN x.pullSecrets ELSE {}]

\* (mutant of SectionFor) the scheduler's policy is built for the workers
SectionForMixed == [jupyterPolicy       |-> "notebook",
                    jupyterDeployment   |-> "notebook",
                    schedulerPolicy     |-> "worker",
                    schedulerDeployment |-> "scheduler",
                    workerPolicy        |-> "notebook",
                    workerDeployment    |-> "worker"]

\* The For... function called before a builder; the others take the context as it is.
SectionFor == [jupyterPolicy       |-> "notebook",
               jupyterDeployment   |-> "notebook",
               schedulerPolicy     |-> "notebook",
               schedulerDeployment |-> "scheduler",
               workerPolicy        |-> "notebook",
               workerDeployment    |-> "worker"]

\* Context x of a pass on spec s, as the For... before the builder for op leaves it.
ForPart(x, s, op) ==
    IF op \in DOMAIN SectionFor
    THEN LET part == SectionFor[op]
         IN applySpecifics(x, part, Settings[s].section[part])
    ELSE x

\* (mutant of Prepared) the call of ForWorker before the workers' builder is dropped
PreparedBare(op) == IF op = "workerDeployment" THEN ctx ELSE ForPart(ctx, rec.spec, op)

\* The context that the builder for op gets, and all later ones of the pass.
Prepared(op) == ForPart(ctx, rec.spec, op)

\* The pod templates ask each pull secret for a field it does not have.
Unrenderable(op) == op \in Deployments /\ Prepared(op).pullSecrets # {}

\* With daemon set, the worker builder takes any affinity that is not nil for a
\* map; a pointer of the API's type, even to nothing, is neither.
Panics(op) == /\ op = "workerDeployment"
              /\ Settings[rec.spec].daemon
              /\ Prepared(op).form = "typed"

\* The pods of a Deployment, and the section that is theirs.
PodsOf == [jupyterDeployment |-> "notebook", schedulerDeployment |-> "scheduler",
           workerDeployment |-> "worker"]

\* The objects whose manifest is remembered: those that carry a container, and the
\* ConfigMap for the policy created before it.
Kept == Deployments \cup {"config"}

NoManifest == [policies |-> FALSE, spec |-> NoSpec, env |-> {}, affinity |-> {}]

\* What an object is made from: whether the pass wants policies, and for pods the
\* spec, and what they get from which part of it.
Rendered(op) ==
    IF op \in Deployments
    THEN [policies |-> rec.spec.policies, spec |-> rec.spec,
          env |-> Prepared(op).env, affinity |-> Prepared(op).affinity]
    ELSE [NoManifest EXCEPT !.policies = rec.spec.policies]

-----------------------------------------------------------------------------
(***************************************************************************)
(* The steps of DaskController, and two more.  As nothing is deleted, no   *)
(* pass finds its Dask gone.                                               *)
(***************************************************************************)
Remember(op) == made' = IF op \in Kept THEN [made EXCEPT ![rec.key][op] = Rendered(op)]
                        ELSE made

Start(d) == Begin(d) /\ ctx' = SetConfig(cdask[d].spec) /\ UNCHANGED made

\* The builder for the next call gives a manifest.
Builds(op) == Due(op) /\ ~Unrenderable(op) /\ ~Panics(op)

Make(op) == /\ Builds(op)
            /\ Call(op)
            /\ ctx' = IF op = "status" THEN NoContext ELSE Prepared(op)
            /\ Remember(op)

\* A template fails, or the call is refused: the pass ends with an error.
Reject(op) == /\ Due(op) /\ ~Panics(op)
              /\ Refused(op) \/ (Unrenderable(op) /\ ApiError)
              /\ ctx' = NoContext
              /\ UNCHANGED made

\* The builder panics, and the process with it: Reconcile is not recovered from.
Panic(op) == Due(op) /\ Panics(op) /\ Crash /\ ctx' = NoContext /\ UNCHANGED made

Operator == \/ \E d \in Clusters : Start(d)
            \/ \E op \in Calls : Make(op) \/ Reject(op) \/ Panic(op)

World == (ControlPlane \/ Pods \/ Users) /\ UNCHANGED <<ctx, made>>

Failures ==
    \/ ApiError /\ ctx' = NoContext /\ UNCHANGED made
    \/ Crash /\ ctx' = NoContext /\ UNCHANGED made
    \/ \E op \in Calls : /\ Builds(op)
                         /\ LostReply(op)
                         /\ ctx' = NoContext
                         /\ Remember(op)

ManifestsInit == /\ Init
                 /\ ctx = NoContext
                 /\ made = [d \in Clusters |-> [c \in Kept |-> NoManifest]]

\* As long as nothing is deleted.
ManifestsNext == Operator \/ World \/ Failures
ManifestsKept == ManifestsInit /\ [][ManifestsNext]_mvars

\* Fairness, as in DaskController; a goroutine that panics runs on as well.
FairManifestsKept ==
    /\ ManifestsKept
    /\ \A d \in Clusters : SF_mvars(Start(d))
    /\ WF_mvars(\E op \in Calls : Make(op) \/ Reject(op) \/ Panic(op))
    /\ \A d \in Clusters :
          WF_mvars((\E o \in Watched \cup {"dask"} : Deliver(d, o)) /\ UNCHANGED <<ctx, made>>)

-----------------------------------------------------------------------------
(***************************************************************************)
(* Who may talk to whom.  Pods of a cluster, those of DaskJobs, the        *)
(* ingress controller and the name server; a port is named after what      *)
(* listens on it.                                                          *)
(***************************************************************************)
Running(d) == {PodsOf[c] : c \in {x \in Deployments : Exists(live[d][x])}}
              \cup {"job", "nginx", "dns"}
Pod == {"notebook", "scheduler", "worker", "job", "nginx", "dns"}
Port == {"scheduler", "bokeh", "worker", "dns"}

\* The pods that a policy restricts, and for each direction what it allows them:
\* <<peer, port>>.  A policy says nothing about a direction without an entry.
Selects == [dnsPolicy       |-> {"notebook", "scheduler", "worker"},
            jupyterPolicy   |-> {"notebook"},
            schedulerPolicy |-> {"scheduler"},
            workerPolicy    |-> {"worker"}]

\* (mutant of IngressRules) the notebook is forgotten in the scheduler's policy
IngressRulesShort ==
    [schedulerPolicy |-> ({"worker", "job"} \X {"scheduler"}) \cup {<<"nginx", "bokeh">>},
     workerPolicy    |-> {"worker", "scheduler"} \X Port]

IngressRules ==
    [schedulerPolicy |-> ({"worker", "notebook", "job"} \X {"scheduler"})
                         \cup {<<"nginx", "bokeh">>},
     workerPolicy    |-> {"worker", "scheduler"} \X Port]

EgressRules ==
    [dnsPolicy       |-> Pod \X {"dns"},
     jupyterPolicy   |-> {"scheduler"} \X Port,
     schedulerPolicy |-> {"worker"} \X Port,
     workerPolicy    |-> {"scheduler", "worker"} \X Port]

\* A pod that no policy selects for a direction is free in it; a selected one has
\* what any of its policies allows.
Allowed(d, rules, pod, peer, port) ==
    LET ps == {p \in DOMAIN rules : Exists(live[d][p]) /\ pod \in Selects[p]}
    IN ps = {} \/ \E p \in ps : <<peer, port>> \in rules[p]

CanReach(d, from, to, port) == /\ Allowed(d, EgressRules, from, to, port)
                               /\ Allowed(d, IngressRules, to, from, port)

\* The connections that the objects of a cluster are made for.  Workers, notebook and
\* DaskJobs have the scheduler's address in their environment, as a name; scheduler
\* and workers call each other; the Ingress has a host for the monitor.  (The comment
\* at scheduler.go:246 has the monitor open "for everyone", its rule for the
\* ingress controller only; the host that the Ingress has for the scheduler itself
\* has no rule at all.  Neither is among the links.)
Links == {<<"worker", "scheduler", "scheduler">>, <<"notebook", "scheduler", "scheduler">>,
          <<"job", "scheduler", "scheduler">>, <<"scheduler", "worker", "worker">>,
          <<"worker", "worker", "worker">>, <<"nginx", "scheduler", "bokeh">>}
         \cup ({"notebook", "scheduler", "worker", "job"} \X {"dns"} \X {"dns"})

\* The pods of one kind, the policy of their group and the one for DNS were made with
\* policies wanted, or without.  Nothing is asked of the other groups.
OneSetting(d, pod) == \A c \in Deployments : PodsOf[c] = pod =>
    LET b == made[d][c].policies IN
    /\ made[d]["config"].policies = b
    /\ \A p \in Policies : Exists(live[d][p]) /\ Gate[p] \in {c, "config"} => b

-----------------------------------------------------------------------------
(***************************************************************************)
(* Properties.                                                             *)
(***************************************************************************)

\* Manifest m of Deployment c has the replaced fields of its own section.
HasOwn(m, c) == LET sec == Settings[m.spec].section[PodsOf[c]] IN
    sec.given => m.env = IF "env" \in sec.sets THEN {PodsOf[c]} ELSE {}

\* A Deployment whose kind of pod has a section gets the fields that section
\* replaces from there and from nowhere else, whatever the builders before it
\* in the same pass have written into the context they share.
OwnSettings == \A d \in Clusters : \A c \in Deployments :
    Exists(live[d][c]) => HasOwn(made[d][c], c)

\* What leaks from one section into other pods leaks downstream only: nothing of
\* the scheduler's or the workers' section reaches the notebook, nothing of the
\* workers' reaches the scheduler.
Upstream == [jupyterDeployment   |-> {"cluster", "notebook"},
             schedulerDeployment |-> {"cluster", "notebook", "scheduler"}]
LeaksDownstream == \A d \in Clusters : \A c \in DOMAIN Upstream :
    Exists(live[d][c]) => made[d][c].env \cup made[d][c].affinity \subseteq Upstream[c]

\* Pods can do what they are made for, at any moment and however far the cluster has
\* come up, whatever the groups at the other end and beside them were made from: a
\* switch of the policies in mid-life takes connections from the pods made across
\* it, and from no others.
Connected == \A d \in Clusters : \A l \in Links :
    {l[1], l[2]} \subseteq Running(d) /\ OneSetting(d, l[1])
        => CanReach(d, l[1], l[2], l[3])

\* From some time on, only the operator and the control plane take steps.
OperatorRests == <>[][Operator \/ (ControlPlane /\ UNCHANGED <<ctx, made>>)]_mvars

\* Where there are no policies the workers' Deployment is alone in its group.  Its
\* builder cannot deal with what it gets in a pass that makes nothing before it: in a
\* longer pass the sections of others may have put the context right.
Unmanageable(s) ==
    LET x == ForPart(SetConfig(s), s, "workerDeployment") IN
    /\ ~s.policies
    /\ x.pullSecrets # {} \/ (Settings[s].daemon /\ x.form = "typed")

\* Every group comes into being, with daemon set too, although sections leak from
\* builder to builder and passes are cut short and taken up again: what one pass has
\* put into the context, the workers' builder can do without.
EventuallyMade == OperatorRests => \A d \in Clusters : <>[](
    dask[d].uid = "cur" => \/ \A g \in Required(dask[d].spec) : Exists(live[d][g])
                           \/ HalfMade(d) \/ Broken(d) \/ Unmanageable(dask[d].spec))

\* README.md:63-67: elements added to notebook:, scheduler: and worker: are "to
\* specialise for each cluster resource type".  The notebook's section reaches the
\* scheduler and the workers, even when there is no notebook.
SpecificsStayTheirs == \A d \in Clusters : \A c \in Deployments :
    Exists(live[d][c]) => made[d][c].env \subseteq {"cluster", PodsOf[c]}

\* networkpolicy.go:32: "enable the entire Dask cluster to talk to DNS".  A pod whose
\* group was made after policies were switched on has a policy of its own, and the one
\* for DNS, which goes with the ConfigMap, is never made.
NamesResolved == \A d \in Clusters : \A pod \in Running(d) \ {"dns"} :
    CanReach(d, pod, "dns", "dns")
=============================================================================
