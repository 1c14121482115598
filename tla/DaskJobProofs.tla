--------------------------- MODULE DaskJobProofs ---------------------------
(***************************************************************************)
(* Proofs about DaskJobController, for any set of DaskJobs and clusters,   *)
(* any specs, any names taken beforehand and any bounds.                   *)
(***************************************************************************)
EXTENDS DaskJobController, TLAPS

-----------------------------------------------------------------------------
(***************************************************************************)
(* Types.                                                                  *)
(***************************************************************************)

\* The names of the children and of the calls.
LEMMA Names ==
    /\ Child = {"config", "pvc", "serviceAccount", "job"}
    /\ Watched = {"config", "pvc", "job"}
    /\ Calls = Child \cup {"status"}
  BY DEF Child, Calls, Rank, Watched

\* The initial values have their types.
LEMMA NothingType ==
    /\ NoSpec \in SpecType /\ NoDaskJob \in JobType
    /\ Absent \in Object /\ Taken \in Object /\ Idle \in PassType
  <1>1. NoSpec \in SpecType
    BY ClustersAssumption DEF NoSpec, SpecType
  <1> QED BY <1>1 DEF NoDaskJob, JobType, States, Absent, Taken, Object, Phases,
                      Idle, PassType

LEMMA InitType == Init => TypeOK
  <1> SUFFICES ASSUME Init PROVE TypeOK
    OBVIOUS
  <1> USE NothingType, Names
  <1>1. Beforehand \in [Child -> Object]
    BY DEF Beforehand
  <1>2. rec = Idle /\ rec.key = NoJob
    BY DEF Init, Idle
  <1>3. live \in [Jobs -> [Child -> Object]]
    BY <1>1 DEF Init
  <1>4. cached \in [Jobs -> [Watched -> Object]]
    BY <1>1 DEF Init
  <1>5. daskjob \in [Jobs -> JobType] /\ cjob \in [Jobs -> CachedJobType]
    BY DEF Init, JobType, CachedJobType
  <1>6. dask \in [Clusters -> DaskStates] /\ cdask \in [Clusters -> DaskStates]
    BY DEF Init, DaskStates
  <1> QED BY <1>2, <1>3, <1>4, <1>5, <1>6, JobsAssumption DEF Init, TypeOK

\* What a pass is after any step.
PassOK == /\ rec \in PassType
          /\ rec.key = NoJob => rec = Idle
          /\ rec.key \in Jobs => "status" \in rec.todo

LEMMA FailType ==
    ASSUME TypeOK, rec.key \in Jobs, Fail
    PROVE  PassOK' /\ queue' \in SUBSET Jobs
  BY NothingType, JobsAssumption DEF TypeOK, Fail, Idle, PassOK

\* A pass whose copy of the DaskJob is marked stale is still a pass.
LEMMA AnnouncedType ==
    ASSUME TypeOK, NEW j \in Jobs, Announced(j)
    PROVE  /\ PassOK'
           /\ pending' \in [Jobs -> SUBSET (Watched \cup {"daskjob"})]
  BY JobsAssumption DEF TypeOK, Announced, PassType, PassOK

LEMMA StartType ==
    ASSUME TypeOK, NEW j \in Jobs, NEW state \in States, NEW todo \in SUBSET Calls,
           "status" \in todo, Start(j, state, todo)
    PROVE  TypeOK'
  <1>1. cjob[j].spec \in SpecType /\ cjob[j].uid \in {"none", "cur", "gone"}
    BY DEF TypeOK, CachedJobType
  <1>2. rec' \in PassType
    BY <1>1 DEF Start, PassType
  <1>3. rec'.key = j /\ j # NoJob /\ "status" \in rec'.todo
    BY JobsAssumption DEF Start
  <1> QED BY <1>2, <1>3 DEF Start, TypeOK

LEMMA ApplyType ==
    ASSUME TypeOK, NEW op \in Calls, Due(op), Accepted(op), Apply(op)
    PROVE  /\ daskjob' \in [Jobs -> JobType]
           /\ live' \in [Jobs -> [Child -> Object]]
           /\ pending' \in [Jobs -> SUBSET (Watched \cup {"daskjob"})]
  <1> USE Names
  <1>0. rec.key \in Jobs
    BY DEF Due
  <1>1. PICK j \in Jobs : j = rec.key
    BY <1>0
  <1>2. /\ live[j] \in [Child -> Object] /\ rec.uid \in {"none", "cur", "gone"}
        /\ rec.spec \in SpecType /\ rec.state \in States
        /\ pending[j] \in SUBSET (Watched \cup {"daskjob"}) /\ daskjob[j] \in JobType
    BY <1>1 DEF TypeOK, PassType
  <1>3. CASE op \in Child /\ Create(op)
    <2> DEFINE o == [owner |-> rec.uid, phase |-> "active",
                     script |-> ScriptOf(op), report |-> MountsReport(op)]
    <2>1. ScriptOf(op) \in Scripts \cup {"none", "invalid"} /\ MountsReport(op) \in BOOLEAN
      BY <1>2 DEF ScriptOf, MountsReport, SpecType
    <2>2. o \in Object
      BY <2>1, <1>2 DEF Object, Phases
    <2> HIDE DEF o
    <2>3. live' = [live EXCEPT ![j] = [live[j] EXCEPT ![op] = o]]
      BY <1>3, <1>1, <1>2 DEF Create, TypeOK, o
    <2>4. [live[j] EXCEPT ![op] = o] \in [Child -> Object]
      BY <2>2, <1>2, <1>3
    <2>5. live' \in [Jobs -> [Child -> Object]]
      BY <2>3, <2>4 DEF TypeOK
    <2> QED BY <2>5, <1>3, <1>1, <1>2 DEF Create, TypeOK
  <1>4. CASE op = "status" /\ SaveStatus
    <2>1. [daskjob[j] EXCEPT !.state = rec.state] \in JobType
      BY <1>2 DEF JobType
    <2> QED BY <2>1, <1>4, <1>1, <1>2 DEF SaveStatus, TypeOK
  <1> QED BY <1>3, <1>4 DEF Apply

\* A change by someone else than the reconciler.
LEMMA BecomesType ==
    ASSUME TypeOK, NEW j \in Jobs, NEW c \in Child, NEW o \in Object, Becomes(j, c, o)
    PROVE  TypeOK'
  <1> USE Names
  <1>1. live[j] \in [Child -> Object] /\ [live[j] EXCEPT ![c] = o] \in [Child -> Object]
    BY DEF TypeOK
  <1>2. live' = [live EXCEPT ![j] = [live[j] EXCEPT ![c] = o]]
    BY <1>1 DEF Becomes, TypeOK
  <1>3. live' \in [Jobs -> [Child -> Object]]
    BY <1>1, <1>2 DEF TypeOK
  <1>4. pending' \in [Jobs -> SUBSET (Watched \cup {"daskjob"})]
    BY DEF Becomes, TypeOK
  <1> QED BY <1>3, <1>4 DEF Becomes, TypeOK

\* The deletion of a DaskJob changes owners, and nothing else about the objects.
LEMMA OrphanedType ==
    ASSUME NEW o \in Object
    PROVE  /\ Orphaned(o) \in Object
           /\ Orphaned(o).phase = o.phase
           /\ Exists(Orphaned(o)) <=> Exists(o)
           /\ Orphaned(o).owner = "foreign" <=> o.owner = "foreign"
  BY DEF Orphaned, Object, Exists

LEMMA EndedType ==
    ASSUME NEW o \in Object, NEW p \in {"Complete", "Failed"}
    PROVE  /\ [o EXCEPT !.phase = p] \in Object
           /\ [o EXCEPT !.phase = p].owner = o.owner
           /\ [o EXCEPT !.phase = p].report = o.report
           /\ [o EXCEPT !.phase = p].phase = p
  BY DEF Object, Phases

LEMMA DeleteDaskJobType ==
    ASSUME TypeOK, NEW j \in Jobs, DeleteDaskJob(j)
    PROVE  TypeOK'
  <1> USE Names, NothingType
  <1>1. daskjob' \in [Jobs -> JobType] /\ queue' \in SUBSET Jobs
    BY DEF DeleteDaskJob, TypeOK
  <1>2. live' \in [Jobs -> [Child -> Object]]
    <2>1. [c \in Child |-> Orphaned(live[j][c])] \in [Child -> Object]
      BY OrphanedType DEF TypeOK
    <2> QED BY <2>1 DEF DeleteDaskJob, TypeOK
  <1>3. cached' \in [Jobs -> [Watched -> Object]]
    <2>1. [c \in Watched |-> Orphaned(cached[j][c])] \in [Watched -> Object]
      BY OrphanedType DEF TypeOK
    <2> QED BY <2>1 DEF DeleteDaskJob, TypeOK
  <1>4. cjob' \in [Jobs -> CachedJobType]
    <2>1. Deceased(cjob[j]) \in CachedJobType
      BY DEF TypeOK, Deceased, CachedJobType
    <2> QED BY <2>1 DEF DeleteDaskJob, TypeOK
  <1>5. pending' \in [Jobs -> SUBSET (Watched \cup {"daskjob"})]
    BY DEF DeleteDaskJob, TypeOK
  <1>6. PassOK'
    BY JobsAssumption DEF DeleteDaskJob, TypeOK, PassType, Deceased, PassOK
  <1> QED BY <1>1, <1>2, <1>3, <1>4, <1>5, <1>6 DEF TypeOK, DeleteDaskJob, PassOK

LEMMA DeliverType ==
    ASSUME TypeOK, NEW j \in Jobs, NEW o \in pending[j], Deliver(j, o)
    PROVE  TypeOK'
  <1> USE Names
  <1>1. o \in Watched \cup {"daskjob"} /\ o # "daskjob" => o \in Watched
    BY DEF TypeOK
  <1>2. pending' \in [Jobs -> SUBSET (Watched \cup {"daskjob"})] /\ queue' \in SUBSET Jobs
    BY DEF Deliver, TypeOK
  <1>3. cjob' \in [Jobs -> CachedJobType]
    <2>1. daskjob[j] \in JobType /\ JobType \subseteq CachedJobType
      BY DEF TypeOK, JobType, CachedJobType
    <2>2. cjob' = [cjob EXCEPT ![j] = daskjob[j]] \/ cjob' = cjob
      BY DEF Deliver
    <2> QED BY <2>1, <2>2 DEF TypeOK
  <1>4. cached' \in [Jobs -> [Watched -> Object]]
    <2>1. CASE o = "daskjob"
      BY <2>1 DEF Deliver, TypeOK
    <2>2. CASE o # "daskjob"
      <3>1. /\ live[j][o] \in Object /\ cached[j] \in [Watched -> Object]
            /\ [cached[j] EXCEPT ![o] = live[j][o]] \in [Watched -> Object]
        BY <2>2, <1>1 DEF TypeOK
      <3>2. cached' = [cached EXCEPT ![j] = [cached[j] EXCEPT ![o] = live[j][o]]]
        BY <2>2, <3>1 DEF Deliver, TypeOK
      <3> QED BY <3>1, <3>2 DEF TypeOK
    <2> QED BY <2>1, <2>2
  <1> QED BY <1>2, <1>3, <1>4 DEF Deliver, TypeOK

\* What a pass finds a Job's state to be is one of the states.
LEMMA JobStateType ==
    ASSUME NEW o \in Object
    PROVE  JobState(o) \in States /\ JobState(o) # "Pending" /\ JobState(o) # ""
  BY DEF JobState, Object, Phases, States

\* A call that succeeds leaves a pass or ends it.
LEMMA CallPass ==
    ASSUME TypeOK, NEW op \in Calls, Call(op)
    PROVE  PassOK' /\ queue' \in SUBSET Jobs
  <1>1. rec.key \in Jobs /\ rec \in PassType /\ "status" \in rec.todo
    BY DEF Call, Due, TypeOK
  <1>2. CASE op # "status" /\ rec' = [rec EXCEPT !.todo = @ \ {op}] /\ UNCHANGED queue
    BY <1>1, <1>2, JobsAssumption DEF PassOK, PassType, TypeOK
  <1>3. CASE rec' = Idle /\ UNCHANGED queue
    BY <1>3, NothingType, JobsAssumption DEF PassOK, TypeOK, Idle
  <1>4. CASE Fail
    BY <1>1, <1>4, FailType
  <1> QED BY <1>2, <1>3, <1>4 DEF Call

\* Every step keeps the types.
LEMMA NextType == TypeOK /\ [Next]_vars => TypeOK'
  <1> SUFFICES ASSUME TypeOK, [Next]_vars PROVE TypeOK'
    OBVIOUS
  <1> USE Names, NothingType
  <1>1. ASSUME NEW j \in Jobs, Begin(j) PROVE TypeOK'
    <2>1. cached[j]["job"] \in Object
      BY DEF TypeOK
    <2>2. JobState(cached[j]["job"]) \in States
      BY <2>1, JobStateType
    <2>3. /\ ToDo(cjob[j].spec, cached[j]) \in SUBSET Calls
          /\ "status" \in ToDo(cjob[j].spec, cached[j])
      BY DEF ToDo
    <2> QED BY <1>1, <2>2, <2>3, StartType DEF Begin
  <1>2. ASSUME NEW j \in Jobs, BeginPending(j) PROVE TypeOK'
    <2>1. "Pending" \in States /\ {"status"} \in SUBSET Calls /\ "status" \in {"status"}
      BY DEF States
    <2> QED BY <1>2, <2>1, StartType DEF BeginPending
  <1>3. ASSUME NEW j \in Jobs, BeginGone(j) PROVE TypeOK'
    BY <1>3 DEF BeginGone, TypeOK
  <1>4. ASSUME NEW op \in Calls, Call(op) PROVE TypeOK'
    <2>1. /\ daskjob' \in [Jobs -> JobType]
          /\ live' \in [Jobs -> [Child -> Object]]
          /\ pending' \in [Jobs -> SUBSET (Watched \cup {"daskjob"})]
      BY <1>4, ApplyType DEF Call
    <2> QED BY <1>4, <2>1, CallPass DEF Call, TypeOK, PassOK
  <1>5. ASSUME NEW op \in Calls, Refused(op) PROVE TypeOK'
    BY <1>5, FailType DEF Refused, Due, TypeOK, PassOK
  <1>6. ASSUME NEW j \in Jobs, NEW o \in pending[j], Deliver(j, o) PROVE TypeOK'
    BY <1>6, DeliverType
  <1>7. ASSUME NEW j \in Jobs, Resync(j) PROVE TypeOK'
    BY <1>7 DEF Resync, TypeOK
  <1>8. ASSUME NEW j \in Jobs, NEW c \in Child, GarbageCollect(j, c) PROVE TypeOK'
    BY <1>8, BecomesType DEF GarbageCollect
  <1>9. ASSUME NEW c \in Clusters, DeliverDask(c) PROVE TypeOK'
    BY <1>9 DEF DeliverDask, TypeOK
  <1>10. ASSUME NEW j \in Jobs, JobEnds(j) PROVE TypeOK'
    <2>1. PICK p \in {"Complete", "Failed"} :
             Becomes(j, "job", [live[j]["job"] EXCEPT !.phase = p])
      BY <1>10 DEF JobEnds
    <2>2. live[j]["job"] \in Object
      BY DEF TypeOK
    <2>3. [live[j]["job"] EXCEPT !.phase = p] \in Object
      BY <2>2, EndedType
    <2> QED BY <2>1, <2>3, BecomesType
  <1>11. ASSUME NEW c \in Clusters, DaskChanges(c) PROVE TypeOK'
    BY <1>11 DEF DaskChanges, TypeOK
  <1>12. ASSUME NEW j \in Jobs, NEW s \in JobSpecs, CreateDaskJob(j, s) PROVE TypeOK'
    <2>1. [uid |-> "cur", spec |-> s, state |-> ""] \in JobType
      BY SpecsAssumption DEF JobType, States
    <2> QED BY <1>12, <2>1, AnnouncedType DEF CreateDaskJob, TypeOK, PassOK
  <1>13. ASSUME NEW j \in Jobs, NEW s \in JobSpecs, EditDaskJob(j, s) PROVE TypeOK'
    <2>1. daskjob[j] \in JobType /\ s \in SpecType
      BY SpecsAssumption DEF TypeOK
    <2>2. [daskjob[j] EXCEPT !.spec = s] \in JobType
      BY <2>1 DEF JobType
    <2> QED BY <1>13, <2>2, AnnouncedType DEF EditDaskJob, TypeOK, PassOK
  <1>14. ASSUME NEW j \in Jobs, DeleteDaskJob(j) PROVE TypeOK'
    BY <1>14, DeleteDaskJobType
  <1>15. ASSUME NEW j \in Jobs, NEW c \in Removable, DeleteChild(j, c) PROVE TypeOK'
    BY <1>15, BoundsAssumption, BecomesType DEF DeleteChild
  <1>16. CASE ApiError
    BY <1>16, FailType DEF ApiError, TypeOK, PassOK
  <1>17. ASSUME NEW op \in Calls, LostReply(op) PROVE TypeOK'
    BY <1>17, ApplyType, FailType DEF LostReply, Due, TypeOK, PassOK
  <1>18. CASE Crash
    <2>1. cached' \in [Jobs -> [Watched -> Object]]
      <3>1. \A j \in Jobs : \A c \in Watched : live[j][c] \in Object
        BY DEF TypeOK
      <3>2. \A j \in Jobs : [c \in Watched |-> live[j][c]] \in [Watched -> Object]
        BY <3>1
      <3>3. cached' = [j \in Jobs |-> [c \in Watched |-> live[j][c]]]
        BY <1>18 DEF Crash
      <3> QED BY <3>2, <3>3
    <2>2. cjob' \in [Jobs -> CachedJobType]
      BY <1>18 DEF Crash, TypeOK, JobType, CachedJobType
    <2>3. rec' = Idle /\ rec'.key = NoJob
      BY <1>18 DEF Crash, Idle
    <2>4. /\ daskjob' \in [Jobs -> JobType] /\ live' \in [Jobs -> [Child -> Object]]
          /\ pending' \in [Jobs -> SUBSET (Watched \cup {"daskjob"})]
          /\ queue' \in SUBSET Jobs
          /\ dask' \in [Clusters -> DaskStates] /\ cdask' \in [Clusters -> DaskStates]
      BY <1>18 DEF Crash, TypeOK
    <2> QED BY <2>1, <2>2, <2>3, <2>4, JobsAssumption DEF TypeOK
  <1>19. CASE UNCHANGED vars
    BY <1>19 DEF vars, TypeOK
  <1> QED BY <1>1, <1>2, <1>3, <1>4, <1>5, <1>6, <1>7, <1>8, <1>9, <1>10, <1>11,
             <1>12, <1>13, <1>14, <1>15, <1>16, <1>17, <1>18, <1>19
      DEF Next, Reconciler, ControlPlane, Workload, Users, Removals, Faults

\* The types hold in every behaviour, with and without faults and removals.
THEOREM TypeCorrect == Spec => []TypeOK
  BY InitType, NextType, PTL DEF Spec

-----------------------------------------------------------------------------
(***************************************************************************)
(* The effects of the steps.                                               *)
(***************************************************************************)

\* When the status update is due, it is the only call left; before the Job, its
\* ServiceAccount and claim, and before these the ConfigMap.
LEMMA Order ==
    ASSUME TypeOK, NEW op \in Calls, Due(op)
    PROVE  /\ op = "status" => rec.todo = {"status"}
           /\ op = "job" => rec.todo \cap {"config", "pvc", "serviceAccount"} = {}
  <1>1. /\ Rank["config"] = 1 /\ Rank["pvc"] = 2 /\ Rank["serviceAccount"] = 3
        /\ Rank["job"] = 4 /\ Rank["status"] = 5
    BY DEF Rank
  <1>2. rec.todo \subseteq {"config", "pvc", "serviceAccount", "job", "status"}
    BY Names DEF TypeOK, PassType
  <1>3. \A x \in rec.todo : Rank[op] <= Rank[x]
    BY DEF Due
  <1>4. op \in rec.todo
    BY DEF Due
  <1> QED BY <1>1, <1>2, <1>3, <1>4

\* The effect of a call, answered or not, on behalf of k.
Effect(op, k) ==
    /\ \A j \in Jobs : pending[j] \subseteq pending'[j]
    /\ \A j \in Jobs : \A c \in Child :
          \/ live'[j][c] = live[j][c]
          \/ j = k /\ c = op /\ ~Exists(live[k][op])
    /\ op \in Child => /\ live'[k][op].owner = rec.uid
                       /\ live'[k][op].phase = "active"
                       /\ live'[k][op].report = MountsReport(op)
    /\ op \in Watched => op \in pending'[k]
    /\ \A j \in Jobs : \/ daskjob'[j] = daskjob[j]
                       \/ op = "status" /\ j = k /\ "daskjob" \in pending'[k]
    /\ op = "status" => /\ live' = live
                        /\ daskjob'[k] = [daskjob[k] EXCEPT !.state = rec.state]

LEMMA ApplyEffect ==
    ASSUME TypeOK, NEW op \in Calls, Due(op), Accepted(op), Apply(op),
           NEW k \in Jobs, k = rec.key
    PROVE  Effect(op, k)
  <1> USE Names
  <1>1. live[k] \in [Child -> Object] /\ daskjob[k] \in JobType
    BY DEF TypeOK
  <1>2. CASE op \in Child /\ Create(op)
    <2>1. ~Exists(live[k][op])
      BY <1>2 DEF Accepted
    <2>2. /\ pending' = [pending EXCEPT ![k] = @ \cup ({op} \cap Watched)]
          /\ daskjob' = daskjob
      BY <1>2 DEF Create
    <2> DEFINE o == [owner  |-> rec.uid, phase  |-> "active",
                     script |-> ScriptOf(op), report |-> MountsReport(op)]
    <2>3. live' = [live EXCEPT ![k] = [live[k] EXCEPT ![op] = o]]
      BY <1>2, <1>1 DEF Create, TypeOK
    <2>4. o.owner = rec.uid /\ o.phase = "active" /\ o.report = MountsReport(op)
      OBVIOUS
    <2> HIDE DEF o
    <2>5. /\ live'[k][op] = o
          /\ \A j \in Jobs : \A c \in Child : live'[j][c] = live[j][c] \/ (j = k /\ c = op)
      BY <2>3, <1>1, <1>2 DEF TypeOK
    <2>6. \A j \in Jobs : pending[j] \subseteq pending'[j]
      BY <2>2 DEF TypeOK
    <2>7. op \in Watched => op \in pending'[k]
      BY <2>2 DEF TypeOK
    <2>8. op # "status"
      BY <1>2
    <2> QED BY <2>1, <2>2, <2>4, <2>5, <2>6, <2>7, <2>8 DEF Effect
  <1>3. CASE op = "status" /\ SaveStatus
    <2>1. /\ live' = live
          /\ daskjob' = [daskjob EXCEPT ![k] = [daskjob[k] EXCEPT !.state = rec.state]]
          /\ pending' = IF daskjob[k].state = rec.state THEN pending
                        ELSE [pending EXCEPT ![k] = @ \cup {"daskjob"}]
      BY <1>3, <1>1 DEF SaveStatus, TypeOK
    <2>2. \A j \in Jobs : pending[j] \subseteq pending'[j]
      BY <2>1 DEF TypeOK
    <2>3. daskjob'[k] = [daskjob[k] EXCEPT !.state = rec.state]
      BY <2>1 DEF TypeOK
    <2>4. daskjob[k].state = rec.state => daskjob'[k] = daskjob[k]
      BY <2>3, <1>1 DEF JobType
    <2>5. daskjob[k].state # rec.state => "daskjob" \in pending'[k]
      BY <2>1 DEF TypeOK
    <2>6. \A j \in Jobs : j # k => daskjob'[j] = daskjob[j]
      BY <2>1 DEF TypeOK
    <2> QED BY <1>3, <2>1, <2>2, <2>3, <2>4, <2>5, <2>6 DEF Effect
  <1> QED BY <1>2, <1>3 DEF Apply

\* A call announces its effect.
LEMMA ApplyAnnounced ==
    ASSUME TypeOK, NEW op \in Calls, Due(op), Accepted(op), Apply(op),
           NEW k \in Jobs, k = rec.key, NEW j \in Jobs
    PROVE  /\ pending[j] \subseteq pending'[j]
           /\ \A c \in Watched : c \in pending'[j] \/ live'[j][c] = live[j][c]
           /\ \/ daskjob'[j] = daskjob[j]
              \/ op = "status" /\ j = k /\ "daskjob" \in pending'[j]
  <1>1. Effect(op, k)
    BY ApplyEffect
  <1> QED BY <1>1, Names DEF Effect

\* The effect of a change by someone else.
LEMMA BecomesEffect ==
    ASSUME TypeOK, NEW k \in Jobs, NEW x \in Child, NEW o \in Object, Becomes(k, x, o)
    PROVE  /\ \A j \in Jobs : pending[j] \subseteq pending'[j]
           /\ \A j \in Jobs : \A c \in Child :
                 \/ live'[j][c] = live[j][c]
                 \/ j = k /\ c = x /\ live'[j][c] = o /\ (c \in Watched => c \in pending'[j])
  <1> USE Names
  <1>1. live[k] \in [Child -> Object]
    BY DEF TypeOK
  <1>2. live' = [live EXCEPT ![k] = [live[k] EXCEPT ![x] = o]]
    BY <1>1 DEF Becomes, TypeOK
  <1>3. \A j \in Jobs : \A c \in Child :
           \/ live'[j][c] = live[j][c]
           \/ j = k /\ c = x /\ live'[j][c] = o
    BY <1>1, <1>2 DEF TypeOK
  <1>4. /\ \A j \in Jobs : pending[j] \subseteq pending'[j]
        /\ x \in Watched => x \in pending'[k]
    BY DEF Becomes, TypeOK
  <1> QED BY <1>3, <1>4

-----------------------------------------------------------------------------
(***************************************************************************)
(* No wake-up is lost.                                                     *)
(***************************************************************************)

\* A step announces what it changes of an object or of its copy.
LEMMA CacheStep ==
    ASSUME TypeOK, CacheTrue,
           NEW j \in Jobs,
           pending[j] \subseteq pending'[j],
           \/ "daskjob" \in pending'[j]
           \/ daskjob'[j] = daskjob[j] /\ cjob'[j] = cjob[j],
           \A c \in Watched :
              \/ c \in pending'[j]
              \/ live'[j][c] = live[j][c] /\ cached'[j][c] = cached[j][c]
              \/ live'[j][c] = cached'[j][c],
           \A c \in Child : live'[j][c].owner = "foreign" => live[j][c].owner = "foreign",
           \A c \in Watched : cached'[j][c].owner = "foreign" => cached[j][c].owner = "foreign"
    PROVE  /\ "daskjob" \notin pending'[j] => cjob'[j] = daskjob'[j]
           /\ \A c \in Watched \ pending'[j] : cached'[j][c] = live'[j][c]
           /\ \A c \in Child : live'[j][c].owner = "foreign" => c \in Foreign
           /\ \A c \in Watched : cached'[j][c].owner = "foreign" => c \in Foreign
  BY DEF CacheTrue

\* A step that starts nothing, wakes j up again if it stops its pass, and announces
\* what it changes of it leaves the claims about j alone.
LEMMA ClaimsKept ==
    ASSUME NEW j \in Jobs, PassTrue(j), RestTrue(j),
           j \in queue => j \in queue',
           pending[j] \subseteq pending'[j],
           \A c \in {"config", "job"} \ pending'[j] :
              /\ Exists(live[j][c]) => Exists(live'[j][c])
              /\ JobState(live'[j][c]) = JobState(live[j][c]),
           rec'.key = j => rec.key = j /\ rec'.todo = rec.todo /\ rec'.state = rec.state,
           rec.key = j => rec'.key = j \/ j \in queue',
           \/ "daskjob" \in pending'[j]
           \/ daskjob'[j].uid # "cur"
           \/ daskjob'[j] = daskjob[j]
    PROVE  PassTrue(j)' /\ RestTrue(j)'
  <1>1. PassTrue(j)'
    BY DEF PassTrue, Claim
  <1>2. RestTrue(j)'
    BY DEF RestTrue, Claim
  <1> QED BY <1>1, <1>2

LEMMA InitInv == Init => Inv
  <1> SUFFICES ASSUME Init PROVE Inv
    OBVIOUS
  <1>1. TypeOK
    BY InitType
  <1>2. CacheTrue
    <2>1. \A j \in Jobs : \A c \in Watched : cached[j][c] = live[j][c]
      BY Names DEF Init
    <2>2. \A j \in Jobs : \A c \in Child : live[j][c].owner = "foreign" => c \in Foreign
      BY DEF Init, Beforehand, Absent
    <2> QED BY <2>1, <2>2, Names DEF Init, CacheTrue
  <1>3. \A j \in Jobs : daskjob[j].uid # "cur" /\ rec.key # j
    BY JobsAssumption DEF Init, NoDaskJob, Idle
  <1> QED BY <1>1, <1>2, <1>3 DEF Inv, PassTrue, RestTrue

\* A change by someone else than the reconciler is announced.
LEMMA BecomesInv ==
    ASSUME Inv, NEW k \in Jobs, NEW x \in Child, NEW o \in Object, Becomes(k, x, o),
           o.owner = "foreign" => live[k][x].owner = "foreign"
    PROVE  Inv'
  <1> USE Names
  <1>1. TypeOK /\ TypeOK' /\ CacheTrue
    BY BecomesType DEF Inv
  <1>2. /\ \A j \in Jobs : pending[j] \subseteq pending'[j]
        /\ \A j \in Jobs : \A c \in Child :
              \/ live'[j][c] = live[j][c]
              \/ j = k /\ c = x /\ live'[j][c] = o /\ (c \in Watched => c \in pending'[j])
    BY <1>1, BecomesEffect
  <1>3. UNCHANGED <<daskjob, cjob, cached, queue, rec>>
    BY DEF Becomes
  <1>4. CacheTrue'
    BY <1>1, <1>2, <1>3 DEF CacheTrue
  <1>5. ASSUME NEW j \in Jobs PROVE PassTrue(j)' /\ RestTrue(j)'
    <2>1. PassTrue(j) /\ RestTrue(j)
      BY DEF Inv
    <2>2. \A c \in {"config", "job"} \ pending'[j] : live'[j][c] = live[j][c]
      BY <1>2
    <2> QED BY <1>2, <1>3, <2>1, <2>2, ClaimsKept
  <1> QED BY <1>1, <1>4, <1>5 DEF Inv

\* A pass that ends with an error is repeated.
LEMMA FailInv ==
    ASSUME Inv, TypeOK', rec.key \in Jobs, Fail,
           UNCHANGED <<daskjob, live, cjob, cached, pending>>
    PROVE  Inv'
  <1>1. CacheTrue'
    BY DEF Inv, CacheTrue
  <1>2. ASSUME NEW j \in Jobs PROVE PassTrue(j)' /\ RestTrue(j)'
    <2>1. PassTrue(j) /\ RestTrue(j)
      BY DEF Inv
    <2>2. rec'.key # j /\ queue' = queue \cup {rec.key}
      BY JobsAssumption DEF Fail, Idle
    <2> QED BY <2>1, <2>2, ClaimsKept
  <1> QED BY <1>1, <1>2 DEF Inv

\* The cache after the effect of a call.
LEMMA ApplyCache ==
    ASSUME TypeOK, CacheTrue, NEW op \in Calls, Due(op), Accepted(op), Apply(op),
           UNCHANGED <<cjob, cached>>
    PROVE  CacheTrue'
  <1> USE Names
  <1>1. PICK k \in Jobs : k = rec.key
    BY DEF Due
  <1>2. rec.uid # "foreign"
    BY DEF TypeOK, PassType
  <1>3. ASSUME NEW j \in Jobs
        PROVE  /\ pending[j] \subseteq pending'[j]
               /\ "daskjob" \in pending'[j] \/ daskjob'[j] = daskjob[j]
               /\ \A c \in Watched : c \in pending'[j] \/ live'[j][c] = live[j][c]
    BY <1>1, ApplyAnnounced
  <1>4. \A j \in Jobs : \A c \in Child :
           live'[j][c].owner = "foreign" => live[j][c].owner = "foreign"
    <2>1. Effect(op, k)
      BY <1>1, ApplyEffect
    <2> QED BY <1>2, <2>1 DEF Effect
  <1> QED BY <1>3, <1>4 DEF CacheTrue

\* A call takes effect, and the pass goes on, ends or is repeated.
LEMMA ApplyInv ==
    ASSUME Inv, TypeOK', NEW op \in Calls, Due(op), Accepted(op), Apply(op),
           UNCHANGED <<cjob, cached>>,
           \/ op # "status" /\ rec' = [rec EXCEPT !.todo = @ \ {op}] /\ UNCHANGED queue
           \/ op = "status" /\ rec.state # "Pending" /\ rec' = Idle /\ UNCHANGED queue
           \/ Fail
    PROVE  Inv'
  <1> USE Names
  <1>0. TypeOK /\ CacheTrue
    BY DEF Inv
  <1>1. PICK k \in Jobs : k = rec.key
    BY DEF Due
  <1>2. CacheTrue'
    BY <1>0, ApplyCache
  <1>3. ASSUME NEW j \in Jobs
        PROVE  /\ pending[j] \subseteq pending'[j]
               /\ \A c \in {"config", "job"} \ pending'[j] : live'[j][c] = live[j][c]
               /\ \/ daskjob'[j] = daskjob[j]
                  \/ j = k /\ op = "status" /\ "daskjob" \in pending'[j]
    BY <1>0, <1>1, ApplyAnnounced
  <1>4. ASSUME NEW j \in Jobs, j # k \/ Fail PROVE PassTrue(j)' /\ RestTrue(j)'
    <2>1. PassTrue(j) /\ RestTrue(j)
      BY DEF Inv
    <2>2. rec'.key # j
      <3>1. CASE rec' = Idle
        BY <3>1, JobsAssumption DEF Idle
      <3>2. CASE rec' = [rec EXCEPT !.todo = @ \ {op}] /\ ~Fail
        BY <3>2, <1>0, <1>1, <1>4 DEF TypeOK, PassType
      <3> QED BY <3>1, <3>2 DEF Fail
    <2>3. j \in queue => j \in queue'
      BY DEF Fail
    <2>4. rec.key = j => j \in queue'
      BY <1>1, <1>4 DEF Fail
    <2> QED BY <1>3, <2>1, <2>2, <2>3, <2>4, ClaimsKept
  <1>5. CASE op # "status" /\ rec' = [rec EXCEPT !.todo = @ \ {op}] /\ UNCHANGED queue
    <2>1. /\ rec'.key = k /\ rec'.todo = rec.todo \ {op} /\ rec'.state = rec.state
      BY <1>0, <1>1, <1>5 DEF TypeOK, PassType
    <2>2. op \in {"config", "job"} => op \in pending'[k]
      <3>1. Effect(op, k)
        BY <1>0, <1>1, ApplyEffect
      <3> QED BY <3>1 DEF Effect
    <2>3. PassTrue(k)'
      <3>1. PassTrue(k)
        BY DEF Inv
      <3> QED BY <1>1, <1>3, <1>5, <2>1, <2>2, <3>1 DEF PassTrue, Claim
    <2>4. RestTrue(k)'
      BY <2>1 DEF RestTrue
    <2> QED BY <1>0, <1>2, <1>4, <2>3, <2>4 DEF Inv
  <1>6. CASE op = "status" /\ rec.state # "Pending" /\ rec' = Idle /\ UNCHANGED queue
    <2>1. rec'.key # k
      BY <1>6, JobsAssumption DEF Idle
    <2>2. /\ live' = live /\ rec.todo = {"status"} /\ pending[k] \subseteq pending'[k]
          /\ daskjob'[k] = [daskjob[k] EXCEPT !.state = rec.state]
      <3>1. Effect(op, k) /\ rec.todo = {"status"}
        BY <1>0, <1>1, <1>6, ApplyEffect, Order
      <3> QED BY <1>6, <3>1 DEF Effect
    <2>3. daskjob'[k].state = rec.state
      BY <2>2, <1>0 DEF TypeOK, JobType
    <2>4. RestTrue(k)'
      <3>1. PassTrue(k)
        BY DEF Inv
      <3> QED BY <1>1, <1>6, <2>2, <2>3, <3>1 DEF PassTrue, RestTrue, Claim
    <2>5. PassTrue(k)'
      BY <2>1 DEF PassTrue
    <2> QED BY <1>0, <1>2, <1>4, <2>4, <2>5 DEF Inv
  <1>7. CASE Fail
    BY <1>0, <1>2, <1>4, <1>7 DEF Inv
  <1> QED BY <1>5, <1>6, <1>7

\* A pass begins with what the cache says, which is true or about to be corrected.
LEMMA StartInv ==
    ASSUME Inv, TypeOK', NEW k \in Jobs, NEW state, NEW todo, rec = Idle,
           Start(k, state, todo),
           state # "Pending" =>
              /\ \A g \in {"config", "job"} \ todo : Exists(cached[k][g])
              /\ state = JobState(cached[k]["job"])
    PROVE  Inv'
  <1> USE Names
  <1>1. CacheTrue'
    BY DEF Inv, CacheTrue, Start
  <1>2. /\ rec'.key = k /\ rec'.todo = todo /\ rec'.state = state
        /\ queue' = queue \ {k} /\ UNCHANGED <<daskjob, live, pending>>
    BY DEF Start
  <1>3. \A j \in Jobs : rec.key # j
    BY JobsAssumption DEF Idle
  <1>4. ASSUME NEW j \in Jobs, j # k PROVE PassTrue(j)' /\ RestTrue(j)'
    BY <1>2, <1>3, <1>4 DEF Inv, PassTrue, RestTrue, Claim
  <1>5. PassTrue(k)'
    <2>1. \A g \in {"config", "job"} \ pending[k] : cached[k][g] = live[k][g]
      BY DEF Inv, CacheTrue
    <2> QED BY <1>2, <2>1 DEF PassTrue, Claim
  <1>6. RestTrue(k)'
    BY <1>2 DEF RestTrue
  <1> QED BY <1>1, <1>4, <1>5, <1>6 DEF Inv

\* An event brings a copy up to date and wakes the DaskJob up, unless the object
\* belonged to somebody else.
LEMMA DeliverInv ==
    ASSUME Inv, NEW k \in Jobs, NEW o \in pending[k], Deliver(k, o)
    PROVE  Inv'
  <1> USE Names
  <1>1. TypeOK /\ TypeOK' /\ CacheTrue
    BY DeliverType DEF Inv
  <1>2. /\ \A j \in Jobs : pending'[j] = IF j = k THEN pending[j] \ {o} ELSE pending[j]
        /\ queue \subseteq queue' /\ UNCHANGED <<daskjob, live, rec>>
    BY <1>1 DEF Deliver, TypeOK
  <1>3. /\ \A j \in Jobs : cjob'[j] = IF j = k /\ o = "daskjob" THEN daskjob[j] ELSE cjob[j]
        /\ \A j \in Jobs : \A c \in Watched :
              cached'[j][c] = IF j = k /\ c = o THEN live[j][c] ELSE cached[j][c]
    <2>1. /\ o \in Watched \cup {"daskjob"} /\ "daskjob" \notin Watched
          /\ cached[k] \in [Watched -> Object]
      BY <1>1 DEF TypeOK
    <2>2. CASE o = "daskjob"
      BY <2>1, <2>2, <1>1 DEF Deliver, TypeOK
    <2>3. CASE o # "daskjob"
      <3>1. cached' = [cached EXCEPT ![k] = [cached[k] EXCEPT ![o] = live[k][o]]]
        BY <2>1, <2>3, <1>1 DEF Deliver, TypeOK
      <3>2. cjob' = cjob
        BY <2>3 DEF Deliver
      <3> QED BY <2>1, <2>3, <3>1, <3>2, <1>1 DEF TypeOK
    <2> QED BY <2>2, <2>3
  <1>4. CacheTrue'
    <2>1. \A j \in Jobs : "daskjob" \notin pending'[j] => cjob'[j] = daskjob'[j]
      BY <1>1, <1>2, <1>3 DEF CacheTrue
    <2>2. ASSUME NEW j \in Jobs, NEW c \in Watched, c \notin pending'[j]
          PROVE  cached'[j][c] = live'[j][c]
      <3>1. c \notin pending[j] => cached[j][c] = live[j][c]
        BY <1>1 DEF CacheTrue
      <3>2. live'[j][c] = live[j][c] /\ (c \notin pending[j] \/ (j = k /\ c = o))
        BY <1>2, <2>2
      <3> QED BY <1>3, <3>1, <3>2
    <2>3. /\ \A j \in Jobs : \A c \in Child : live'[j][c].owner = "foreign" => c \in Foreign
          /\ \A j \in Jobs : \A c \in Watched :
                cached'[j][c].owner = "foreign" => c \in Foreign
      BY <1>1, <1>2, <1>3 DEF CacheTrue
    <2> QED BY <2>1, <2>2, <2>3 DEF CacheTrue
  <1>5. k \in queue' \/ o \in Foreign
    <2>1. \A c \in Watched : cached[k][c].owner = "foreign" => c \in Foreign
      BY <1>1 DEF CacheTrue
    <2>2. o \in Watched \cup {"daskjob"}
      BY <1>1 DEF TypeOK
    <2> QED BY <2>1, <2>2 DEF Deliver
  <1>6. ASSUME NEW j \in Jobs PROVE PassTrue(j)' /\ RestTrue(j)'
    <2>1. PassTrue(j) /\ RestTrue(j)
      BY DEF Inv
    <2>2. CASE j = k /\ k \in queue'
      BY <2>2 DEF PassTrue, RestTrue
    <2>3. CASE j # k \/ o \in Foreign
      <3>1. /\ pending'[j] \cup Foreign = pending[j] \cup Foreign
            /\ "daskjob" \in pending'[j] <=> "daskjob" \in pending[j]
        BY <1>2, <2>3, BoundsAssumption
      <3>2. \A todo, st : Claim(j, todo, st) =>
               /\ \A g \in {"config", "job"} \ (Foreign \cup pending'[j] \cup todo) :
                     Exists(live'[j][g])
               /\ "job" \notin Foreign \cup pending'[j] => st = JobState(live'[j]["job"])
        BY <3>1, <1>2 DEF Claim
      <3>3. PassTrue(j)'
        BY <1>2, <2>1, <3>1, <3>2 DEF PassTrue, Claim
      <3>4. RestTrue(j)'
        BY <1>2, <2>1, <3>1, <3>2 DEF RestTrue, Claim
      <3> QED BY <3>3, <3>4
    <2> QED BY <1>5, <2>2, <2>3
  <1> QED BY <1>1, <1>4, <1>6 DEF Inv

\* A DaskJob that is created or edited is announced, one that is gone claims nothing.
LEMMA AnnouncedInv ==
    ASSUME Inv, TypeOK', NEW k \in Jobs, NEW x \in JobType,
           daskjob' = [daskjob EXCEPT ![k] = x], Announced(k),
           UNCHANGED <<live, cjob, cached, queue>>
    PROVE  Inv'
  <1> USE Names
  <1>1. TypeOK /\ CacheTrue
    BY DEF Inv
  <1>2. /\ \A j \in Jobs : pending'[j] = IF j = k THEN pending[j] \cup {"daskjob"}
                                        ELSE pending[j]
        /\ \A j \in Jobs : j # k => daskjob'[j] = daskjob[j]
        /\ rec'.key = rec.key /\ rec'.todo = rec.todo /\ rec'.state = rec.state
    BY <1>1 DEF Announced, TypeOK, PassType
  <1>3. CacheTrue'
    BY <1>1, <1>2 DEF CacheTrue
  <1>4. ASSUME NEW j \in Jobs PROVE PassTrue(j)' /\ RestTrue(j)'
    <2>1. PassTrue(j) /\ RestTrue(j)
      BY DEF Inv
    <2> QED BY <1>2, <2>1, ClaimsKept
  <1> QED BY <1>3, <1>4 DEF Inv

LEMMA DeleteDaskJobInv ==
    ASSUME Inv, NEW k \in Jobs, DeleteDaskJob(k)
    PROVE  Inv'
  <1> USE Names
  <1>1. TypeOK /\ TypeOK' /\ CacheTrue
    BY DeleteDaskJobType DEF Inv
  <1>2. /\ \A j \in Jobs : pending'[j] = IF j = k THEN pending[j] \cup {"daskjob"}
                                        ELSE pending[j]
        /\ \A j \in Jobs : j # k => daskjob'[j] = daskjob[j] /\ cjob'[j] = cjob[j]
        /\ rec'.key = rec.key /\ rec'.todo = rec.todo /\ rec'.state = rec.state
        /\ queue' = queue
    BY <1>1 DEF DeleteDaskJob, Deceased, TypeOK, PassType
  <1>3. /\ \A j \in Jobs : \A c \in Child :
              live'[j][c] = IF j = k THEN Orphaned(live[j][c]) ELSE live[j][c]
        /\ \A j \in Jobs : \A c \in Watched :
              cached'[j][c] = IF j = k THEN Orphaned(cached[j][c]) ELSE cached[j][c]
    BY <1>1 DEF DeleteDaskJob, TypeOK
  <1>4. /\ \A j \in Jobs : \A c \in Child :
              /\ Exists(live'[j][c]) <=> Exists(live[j][c])
              /\ live'[j][c].phase = live[j][c].phase
              /\ live'[j][c].owner = "foreign" <=> live[j][c].owner = "foreign"
        /\ \A j \in Jobs : \A c \in Watched :
              cached'[j][c].owner = "foreign" <=> cached[j][c].owner = "foreign"
    <2>1. /\ \A j \in Jobs : \A c \in Child : live[j][c] \in Object
          /\ \A j \in Jobs : \A c \in Watched : cached[j][c] \in Object
      BY <1>1 DEF TypeOK
    <2> QED BY <1>3, <2>1, OrphanedType
  <1>5. CacheTrue'
    <2>1. ASSUME NEW j \in Jobs, NEW c \in Watched, c \notin pending'[j]
          PROVE  cached'[j][c] = live'[j][c]
      <3>1. c \notin pending[j]
        BY <1>2, <2>1
      <3>2. cached[j][c] = live[j][c]
        BY <1>1, <3>1 DEF CacheTrue
      <3> QED BY <1>3, <3>2
    <2>2. \A j \in Jobs : "daskjob" \notin pending'[j] => cjob'[j] = daskjob'[j]
      BY <1>1, <1>2 DEF CacheTrue
    <2> QED BY <1>1, <1>4, <2>1, <2>2 DEF CacheTrue
  <1>6. ASSUME NEW j \in Jobs PROVE PassTrue(j)' /\ RestTrue(j)'
    <2>1. PassTrue(j) /\ RestTrue(j)
      BY DEF Inv
    <2>2. \A c \in {"config", "job"} \ pending'[j] :
             /\ Exists(live[j][c]) => Exists(live'[j][c])
             /\ JobState(live'[j][c]) = JobState(live[j][c])
      BY <1>4 DEF JobState
    <2> QED BY <1>2, <2>1, <2>2, ClaimsKept
  <1> QED BY <1>1, <1>5, <1>6 DEF Inv

\* Whatever fails, restarts or is deleted, nothing is lost sight of.
LEMMA InvNext == Inv /\ [Next]_vars => Inv'
  <1> SUFFICES ASSUME Inv, [Next]_vars PROVE Inv'
    OBVIOUS
  <1> USE Names
  <1>0. TypeOK /\ TypeOK'
    BY NextType DEF Inv
  <1>1. ASSUME NEW j \in Jobs, Begin(j) PROVE Inv'
    <2>1. /\ \A g \in {"config", "job"} \ ToDo(cjob[j].spec, cached[j]) :
                Exists(cached[j][g])
      BY DEF ToDo
    <2> QED BY <1>0, <1>1, <2>1, StartInv DEF Begin
  <1>2. ASSUME NEW j \in Jobs, BeginPending(j) PROVE Inv'
    BY <1>0, <1>2, StartInv DEF BeginPending
  <1>3. ASSUME NEW k \in Jobs, BeginGone(k) PROVE Inv'
    <2>1. CacheTrue'
      BY <1>3 DEF Inv, CacheTrue, BeginGone
    <2>2. ASSUME NEW j \in Jobs PROVE PassTrue(j)'
      <3>1. rec'.key # j
        BY <1>3, JobsAssumption DEF BeginGone, Idle
      <3> QED BY <3>1 DEF PassTrue
    <2>3. ASSUME NEW j \in Jobs PROVE RestTrue(j)'
      <3>1. CASE j = k
        BY <3>1, <1>3 DEF Inv, CacheTrue, RestTrue, BeginGone
      <3>2. CASE j # k
        BY <3>2, <1>3 DEF Inv, RestTrue, Claim, BeginGone
      <3> QED BY <3>1, <3>2
    <2> QED BY <1>0, <2>1, <2>2, <2>3 DEF Inv
  <1>4. ASSUME NEW op \in Calls, Call(op) PROVE Inv'
    BY <1>0, <1>4, ApplyInv DEF Call
  <1>5. ASSUME NEW op \in Calls, Refused(op) PROVE Inv'
    BY <1>0, <1>5, FailInv DEF Refused, Due
  <1>6. ASSUME NEW j \in Jobs, NEW o \in pending[j], Deliver(j, o) PROVE Inv'
    BY <1>6, DeliverInv
  <1>7. ASSUME NEW k \in Jobs, Resync(k) PROVE Inv'
    <2>1. CacheTrue'
      BY <1>7 DEF Inv, CacheTrue, Resync
    <2>2. ASSUME NEW j \in Jobs PROVE PassTrue(j)' /\ RestTrue(j)'
      BY <1>7 DEF Inv, PassTrue, RestTrue, Claim, Resync
    <2> QED BY <1>0, <2>1, <2>2 DEF Inv
  <1>8. ASSUME NEW j \in Jobs, NEW c \in Child, GarbageCollect(j, c) PROVE Inv'
    <2>1. Absent \in Object /\ Absent.owner # "foreign"
      BY NothingType DEF Absent
    <2> QED BY <1>8, <2>1, BecomesInv DEF GarbageCollect
  <1>9. ASSUME NEW c \in Clusters, DeliverDask(c) PROVE Inv'
    BY <1>0, <1>9 DEF DeliverDask, Inv, CacheTrue, PassTrue, RestTrue, Claim
  <1>10. ASSUME NEW j \in Jobs, JobEnds(j) PROVE Inv'
    <2>1. PICK p \in {"Complete", "Failed"} :
             Becomes(j, "job", [live[j]["job"] EXCEPT !.phase = p])
      BY <1>10 DEF JobEnds
    <2>2. live[j]["job"] \in Object
      BY <1>0 DEF TypeOK
    <2>3. /\ [live[j]["job"] EXCEPT !.phase = p] \in Object
          /\ [live[j]["job"] EXCEPT !.phase = p].owner = live[j]["job"].owner
      BY <2>2, EndedType
    <2> QED BY <2>1, <2>3, BecomesInv
  <1>11. ASSUME NEW c \in Clusters, DaskChanges(c) PROVE Inv'
    BY <1>0, <1>11 DEF DaskChanges, Inv, CacheTrue, PassTrue, RestTrue, Claim
  <1>12. ASSUME NEW j \in Jobs, NEW s \in JobSpecs, CreateDaskJob(j, s) PROVE Inv'
    <2>1. [uid |-> "cur", spec |-> s, state |-> ""] \in JobType
      BY SpecsAssumption DEF JobType, States
    <2> QED BY <1>0, <1>12, <2>1, AnnouncedInv DEF CreateDaskJob
  <1>13. ASSUME NEW j \in Jobs, NEW s \in JobSpecs, EditDaskJob(j, s) PROVE Inv'
    <2>1. daskjob[j] \in JobType /\ s \in SpecType
      BY <1>0, SpecsAssumption DEF TypeOK
    <2>2. [daskjob[j] EXCEPT !.spec = s] \in JobType
      BY <2>1 DEF JobType
    <2>3. daskjob' = [daskjob EXCEPT ![j] = [daskjob[j] EXCEPT !.spec = s]]
      BY <1>0, <1>13 DEF EditDaskJob, TypeOK
    <2> QED BY <1>0, <1>13, <2>2, <2>3, AnnouncedInv DEF EditDaskJob
  <1>14. ASSUME NEW j \in Jobs, DeleteDaskJob(j) PROVE Inv'
    BY <1>14, DeleteDaskJobInv
  <1>15. ASSUME NEW j \in Jobs, NEW c \in Removable, DeleteChild(j, c) PROVE Inv'
    <2>1. Absent \in Object /\ Absent.owner # "foreign" /\ c \in Child
      BY NothingType, BoundsAssumption DEF Absent
    <2> QED BY <1>15, <2>1, BecomesInv DEF DeleteChild
  <1>16. CASE ApiError
    BY <1>0, <1>16, FailInv DEF ApiError
  <1>17. ASSUME NEW op \in Calls, LostReply(op) PROVE Inv'
    BY <1>0, <1>17, ApplyInv DEF LostReply
  <1>18. CASE Crash
    <2>1. /\ \A j \in Jobs : cjob'[j] = daskjob'[j]
          /\ \A j \in Jobs : \A c \in Watched : cached'[j][c] = live'[j][c]
          /\ live' = live /\ rec' = Idle
          /\ \A j \in Jobs : daskjob'[j].uid = "cur" => j \in queue'
      BY <1>0, <1>18 DEF Crash, TypeOK
    <2>2. CacheTrue'
      BY <2>1 DEF Inv, CacheTrue
    <2>3. ASSUME NEW j \in Jobs PROVE PassTrue(j)' /\ RestTrue(j)'
      BY <2>1, JobsAssumption DEF PassTrue, RestTrue, Idle
    <2> QED BY <1>0, <2>2, <2>3 DEF Inv
  <1>19. CASE UNCHANGED vars
    BY <1>0, <1>19 DEF vars, Inv, CacheTrue, PassTrue, RestTrue, Claim
  <1> QED BY <1>1, <1>2, <1>3, <1>4, <1>5, <1>6, <1>7, <1>8, <1>9, <1>10, <1>11,
             <1>12, <1>13, <1>14, <1>15, <1>16, <1>17, <1>18, <1>19
      DEF Next, Reconciler, ControlPlane, Workload, Users, Removals, Faults

\* No wake-up is lost, for any number of DaskJobs, any specs and any names taken.
THEOREM QuiescentReported == Spec => []QuiescentMeansReported
  <1>1. Inv => QuiescentMeansReported
    <2> SUFFICES ASSUME Inv, NEW j \in Jobs, daskjob[j].uid = "cur", Settled(j)
                 PROVE  Reported(j)
      BY DEF QuiescentMeansReported
    <2>1. Claim(j, {}, daskjob[j].state)
      BY DEF Inv, RestTrue, Settled
    <2> QED BY <2>1 DEF Claim, Settled, Reported
  <1> QED BY <1>1, InitInv, InvNext, PTL DEF Spec

\* What an announced end is based on, for any number of DaskJobs.
THEOREM EndIsCertified == Spec => EndCertified
  <1> DEFINE Certified == \A j \in Jobs :
                /\ daskjob'[j].state \in {"Complete", "Failed"} \ {daskjob[j].state}
                /\ "job" \notin Foreign
                => \/ live[j]["job"].phase = daskjob'[j].state
                   \/ "job" \in pending'[j]
                   \/ j \in queue'
  <1>1. ASSUME Inv, NEW op \in Calls, Due(op), Accepted(op), Apply(op), queue \subseteq queue'
        PROVE  Certified
    <2>1. PICK k \in Jobs : k = rec.key
      BY <1>1 DEF Due
    <2>2. TypeOK /\ Effect(op, k) /\ (op = "status" => rec.todo = {"status"})
      BY <1>1, <2>1, ApplyEffect, Order DEF Inv
    <2> SUFFICES ASSUME NEW j \in Jobs, "job" \notin Foreign,
                        daskjob'[j].state \in {"Complete", "Failed"} \ {daskjob[j].state},
                        "job" \notin pending'[j], j \notin queue'
                 PROVE  live[j]["job"].phase = daskjob'[j].state
      OBVIOUS
    <2>3. op = "status" /\ j = k
      BY <2>2 DEF Effect
    <2>4. daskjob'[k].state = rec.state
      BY <2>2, <2>3 DEF Effect, TypeOK, JobType
    <2>5. rec.key = j /\ j \notin queue /\ rec.state # "Pending" /\ "job" \notin pending[j]
      BY <1>1, <2>1, <2>2, <2>3, <2>4 DEF Effect
    <2>6. rec.state = JobState(live[j]["job"])
      BY <1>1, <2>5 DEF Inv, PassTrue, Claim
    <2> QED BY <2>3, <2>4, <2>6 DEF JobState
  <1>2. ASSUME TypeOK, \A j \in Jobs : daskjob'[j].state \in {"", daskjob[j].state}
        PROVE  Certified
    BY <1>2
  <1>3. ASSUME Inv, [Next]_vars PROVE Certified
    <2>0. TypeOK
      BY <1>3 DEF Inv
    <2>1. ASSUME NEW op \in Calls, Call(op) PROVE Certified
      <3>1. queue \subseteq queue'
        BY <2>1 DEF Call, Fail
      <3> QED BY <1>1, <1>3, <2>1, <3>1 DEF Call
    <2>2. ASSUME NEW op \in Calls, LostReply(op) PROVE Certified
      <3>1. queue \subseteq queue'
        BY <2>2 DEF LostReply, Fail
      <3> QED BY <1>1, <1>3, <2>2, <3>1 DEF LostReply
    <2>3. ASSUME NEW k \in Jobs, NEW s \in JobSpecs, CreateDaskJob(k, s) PROVE Certified
      BY <1>2, <2>0, <2>3 DEF CreateDaskJob, TypeOK
    <2>4. ASSUME NEW k \in Jobs, NEW s \in JobSpecs, EditDaskJob(k, s) PROVE Certified
      <3>1. /\ daskjob[k] \in JobType
            /\ daskjob' = [daskjob EXCEPT ![k] = [daskjob[k] EXCEPT !.spec = s]]
        BY <2>0, <2>4 DEF EditDaskJob, TypeOK
      <3>2. [daskjob[k] EXCEPT !.spec = s].state = daskjob[k].state
        BY <3>1 DEF JobType
      <3>3. \A j \in Jobs : daskjob'[j].state = daskjob[j].state
        BY <2>0, <3>1, <3>2 DEF TypeOK
      <3> QED BY <1>2, <2>0, <3>3
    <2>5. ASSUME NEW k \in Jobs, DeleteDaskJob(k) PROVE Certified
      BY <1>2, <2>0, <2>5 DEF DeleteDaskJob, TypeOK, NoDaskJob
    <2>6. CASE UNCHANGED daskjob
      BY <1>2, <2>0, <2>6
    <2> QED BY <1>3, <2>1, <2>2, <2>3, <2>4, <2>5, <2>6
      DEF Next, Reconciler, ControlPlane, Workload, Users, Removals, Faults, Begin,
          BeginPending, Start, BeginGone, Refused, Deliver, Resync, GarbageCollect,
          Becomes, DeliverDask, JobEnds, DaskChanges, DeleteChild, ApiError, Crash, vars
  <1>4. Inv /\ [Next]_vars => [Certified]_vars
    BY <1>3
  <1> QED BY <1>4, InitInv, InvNext, PTL DEF Spec, EndCertified

-----------------------------------------------------------------------------
(***************************************************************************)
(* While nothing is deleted.                                               *)
(***************************************************************************)

\* A step that makes no Job, publishes no state and starts no pass.
LEMMA KeptUnmoved ==
    ASSUME KeptInv, TypeOK',
           \A j \in Jobs : \A c \in Child :
              /\ Exists(live[j][c]) => Exists(live'[j][c])
              /\ live'[j][c].owner # "gone",
           \A j \in Jobs :
              /\ OwnedByJob(live'[j]["job"]) => OwnedByJob(live[j]["job"])
              /\ live'[j]["job"].report = live[j]["job"].report
              /\ \/ live'[j]["job"].phase = live[j]["job"].phase
                 \/ live[j]["job"].phase = "active" /\ Exists(live[j]["job"]),
           \/ rec' = Idle
           \/ /\ rec'.key = rec.key /\ rec'.uid = rec.uid /\ rec'.spec = rec.spec
              /\ rec'.state = rec.state /\ rec'.todo = rec.todo,
           \A j \in Jobs : daskjob'[j].state \in {"", daskjob[j].state},
           \A j \in Jobs : cjob'[j].uid # "gone",
           \A j \in Jobs : \A c \in Watched : cached'[j][c] \in {cached[j][c], live[j][c]}
    PROVE  KeptInv'
  <1> USE Names
  <1>1. ASSUME NEW j \in Jobs PROVE PassKept(j)'
    <2>0. PassKept(j)
      BY DEF KeptInv
    <2>1. CASE rec' = Idle
      BY <2>1, JobsAssumption DEF PassKept, Idle
    <2>2. CASE /\ rec'.key = rec.key /\ rec'.uid = rec.uid /\ rec'.spec = rec.spec
               /\ rec'.state = rec.state /\ rec'.todo = rec.todo
      BY <2>0, <2>2 DEF PassKept
    <2> QED BY <2>1, <2>2
  <1>2. ASSUME NEW j \in Jobs PROVE CacheKept(j)'
    <2>0. CacheKept(j)
      BY DEF KeptInv
    <2>1. \A c \in Watched : Exists(cached'[j][c]) => Exists(live'[j][c])
      BY <2>0 DEF CacheKept
    <2>2. live'[j]["job"].phase # "active" => Exists(live'[j]["job"])
      BY <2>0 DEF CacheKept
    <2>3. cached'[j]["job"].phase # "active" =>
             live'[j]["job"].phase = cached'[j]["job"].phase
      BY <2>0 DEF CacheKept
    <2> QED BY <2>1, <2>2, <2>3 DEF CacheKept
  <1>3. JobDependencies'
    <2> SUFFICES ASSUME NEW j \in Jobs, OwnedByJob(live'[j]["job"])
                 PROVE  /\ Exists(live'[j]["config"]) /\ Exists(live'[j]["serviceAccount"])
                        /\ live'[j]["job"].report => Exists(live'[j]["pvc"])
      BY DEF JobDependencies
    <2>1. /\ Exists(live[j]["config"]) /\ Exists(live[j]["serviceAccount"])
          /\ live[j]["job"].report => Exists(live[j]["pvc"])
      BY DEF KeptInv, JobDependencies
    <2> QED BY <2>1
  <1>4. StateTrue'
    <2> SUFFICES ASSUME NEW j \in Jobs
                 PROVE  /\ daskjob'[j].state = "Running" => Exists(live'[j]["job"])
                        /\ daskjob'[j].state \in {"Complete", "Failed"} =>
                              live'[j]["job"].phase = daskjob'[j].state
      BY DEF StateTrue
    <2>1. /\ daskjob[j].state = "Running" => Exists(live[j]["job"])
          /\ daskjob[j].state \in {"Complete", "Failed"} =>
                live[j]["job"].phase = daskjob[j].state
      BY DEF KeptInv, StateTrue
    <2>2. daskjob'[j].state \in {"", daskjob[j].state}
      OBVIOUS
    <2> QED BY <2>1, <2>2
  <1> QED BY <1>1, <1>2, <1>3, <1>4 DEF KeptInv

LEMMA KeptInit == Init => KeptInv
  <1> SUFFICES ASSUME Init PROVE KeptInv
    OBVIOUS
  <1> USE Names
  <1>1. \A j \in Jobs : \A c \in Child : live[j][c] \in {Absent, Taken}
    BY DEF Init, Beforehand
  <1>2. \A j \in Jobs : \A c \in Watched : cached[j][c] = live[j][c]
    BY DEF Init
  <1>3. \A j \in Jobs : rec.key # j /\ cjob[j].uid # "gone" /\ daskjob[j].state = ""
    BY JobsAssumption DEF Init, Idle, NoDaskJob
  <1>4. \A j \in Jobs : CacheKept(j)
    <2>1. \A j \in Jobs : \A c \in Child :
             live[j][c].owner # "gone" /\ live[j][c].phase = "active"
      BY <1>1 DEF Absent, Taken
    <2> QED BY <1>2, <1>3, <2>1 DEF CacheKept
  <1>5. JobDependencies
    BY <1>1 DEF JobDependencies, OwnedByJob, Absent, Taken
  <1> QED BY <1>3, <1>4, <1>5, InitType DEF KeptInv, PassKept, StateTrue

\* A pass that begins finds made what it does not make.
LEMMA KeptStart ==
    ASSUME KeptInv, TypeOK', NEW k \in Jobs, cjob[k].uid # "none",
           \/ Start(k, JobState(cached[k]["job"]), ToDo(cjob[k].spec, cached[k]))
           \/ Start(k, "Pending", {"status"})
    PROVE  KeptInv'
  <1> USE Names
  <1>1. UNCHANGED <<daskjob, live, cjob, cached>>
    BY DEF Start
  <1>2. ASSUME NEW j \in Jobs, j # k PROVE PassKept(j)'
    BY <1>2 DEF PassKept, Start
  <1>3. cjob[k].uid = "cur" /\ CacheKept(k)
    BY DEF KeptInv, TypeOK, CachedJobType, CacheKept
  <1>4. PassKept(k)'
    <2>1. CASE Start(k, "Pending", {"status"})
      BY <1>3, <2>1 DEF PassKept, Start
    <2>2. CASE Start(k, JobState(cached[k]["job"]), ToDo(cjob[k].spec, cached[k]))
      <3>1. /\ rec'.uid = "cur" /\ rec'.spec = cjob[k].spec
            /\ rec'.state = JobState(cached[k]["job"])
            /\ rec'.todo = ToDo(cjob[k].spec, cached[k])
        BY <1>3, <2>2 DEF Start
      <3>2. cached[k]["job"] \in Object
        BY DEF KeptInv, TypeOK
      <3>3. rec'.state # "Pending"
        BY <3>1, <3>2, JobStateType
      <3>4. \A c \in {"config", "job"} \ rec'.todo : Exists(live'[k][c])
        BY <1>1, <1>3, <3>1 DEF ToDo, CacheKept
      <3>5. "job" \in rec'.todo =>
               \A c \in {"serviceAccount", "pvc"} \ rec'.todo :
                  (c = "pvc" => rec'.spec.report) => Exists(live'[k][c])
        BY <1>1, <1>3, <3>1 DEF ToDo, CacheKept
      <3>6. rec'.state \in {"Complete", "Failed"} => live'[k]["job"].phase = rec'.state
        BY <1>1, <1>3, <3>1 DEF JobState, CacheKept
      <3> QED BY <3>1, <3>3, <3>4, <3>5, <3>6 DEF PassKept
    <2> QED BY <2>1, <2>2
  <1>5. ASSUME NEW j \in Jobs PROVE CacheKept(j)'
    BY <1>1 DEF KeptInv, CacheKept
  <1>6. JobDependencies' /\ StateTrue'
    BY <1>1 DEF KeptInv, JobDependencies, StateTrue
  <1> QED BY <1>2, <1>4, <1>5, <1>6 DEF KeptInv

\* A call takes effect: what the Job needs has been made before it, and the state
\* is published last.
LEMMA KeptApply ==
    ASSUME KeptInv, TypeOK', NEW op \in Calls, Due(op), Accepted(op), Apply(op),
           UNCHANGED <<cjob, cached>>,
           \/ op # "status" /\ rec' = [rec EXCEPT !.todo = @ \ {op}]
           \/ rec' = Idle
    PROVE  KeptInv'
  <1> USE Names
  <1>0. TypeOK
    BY DEF KeptInv
  <1>1. PICK k \in Jobs : k = rec.key
    BY DEF Due
  <1>2. /\ Effect(op, k)
        /\ op = "status" => rec.todo = {"status"}
        /\ op = "job" => rec.todo \cap {"config", "pvc", "serviceAccount"} = {}
    BY <1>0, <1>1, ApplyEffect, Order
  <1>3. PassKept(k) /\ rec.uid = "cur" /\ CacheKept(k)
    BY <1>1 DEF KeptInv, PassKept
  <1>4. /\ \A j \in Jobs : \A c \in Child :
              /\ Exists(live[j][c]) => Exists(live'[j][c])
              /\ live'[j][c].owner # "gone"
        /\ op \in Child => Exists(live'[k][op])
    <2>1. \A j \in Jobs : \A c \in Child : live[j][c].owner # "gone"
      BY DEF KeptInv, CacheKept
    <2> QED BY <1>2, <1>3, <2>1 DEF Effect, Exists
  <1>5. /\ \A j \in Jobs : \/ live'[j]["job"] = live[j]["job"]
                           \/ j = k /\ op = "job"
        /\ \A j \in Jobs : live'[j]["job"].phase = live[j]["job"].phase
    <2>1. \A j \in Jobs : \/ live'[j]["job"] = live[j]["job"]
                          \/ j = k /\ op = "job" /\ ~Exists(live[k]["job"])
      BY <1>2 DEF Effect
    <2>2. op = "job" => live'[k]["job"].phase = "active"
      BY <1>2 DEF Effect
    <2>3. ~Exists(live[k]["job"]) => live[k]["job"].phase = "active"
      BY <1>3 DEF CacheKept
    <2> QED BY <2>1, <2>2, <2>3
  <1>6. ASSUME NEW j \in Jobs PROVE PassKept(j)'
    <2>1. CASE rec' = Idle
      BY <2>1, JobsAssumption DEF PassKept, Idle
    <2>2. CASE op # "status" /\ rec' = [rec EXCEPT !.todo = @ \ {op}]
      <3>1. /\ rec'.key = rec.key /\ rec'.uid = rec.uid /\ rec'.spec = rec.spec
            /\ rec'.state = rec.state /\ rec'.todo = rec.todo \ {op}
        BY <1>0, <2>2 DEF TypeOK, PassType
      <3>2. CASE j # k
        BY <1>1, <3>1, <3>2 DEF PassKept
      <3>3. CASE j = k
        <4>1. rec.state # "Pending" /\ op \in Child /\ op \in rec.todo
          BY <1>1, <1>3, <2>2 DEF PassKept, Due
        <4>2. \A c \in {"config", "job"} \ rec'.todo : Exists(live'[k][c])
          BY <1>1, <1>3, <1>4, <3>1, <4>1 DEF PassKept
        <4>3. "job" \in rec'.todo =>
                 \A c \in {"serviceAccount", "pvc"} \ rec'.todo :
                    (c = "pvc" => rec'.spec.report) => Exists(live'[k][c])
          BY <1>1, <1>3, <1>4, <3>1, <4>1 DEF PassKept
        <4>4. rec'.state \in {"Complete", "Failed"} => live'[k]["job"].phase = rec'.state
          BY <1>1, <1>3, <1>5, <3>1 DEF PassKept
        <4> QED BY <1>3, <3>1, <3>3, <4>1, <4>2, <4>3, <4>4 DEF PassKept
      <3> QED BY <3>2, <3>3
    <2> QED BY <2>1, <2>2
  <1>7. ASSUME NEW j \in Jobs PROVE CacheKept(j)'
    <2>1. CacheKept(j)
      BY DEF KeptInv
    <2> QED BY <1>4, <1>5, <2>1 DEF CacheKept
  <1>8. JobDependencies'
    <2> SUFFICES ASSUME NEW j \in Jobs, OwnedByJob(live'[j]["job"])
                 PROVE  /\ Exists(live'[j]["config"]) /\ Exists(live'[j]["serviceAccount"])
                        /\ live'[j]["job"].report => Exists(live'[j]["pvc"])
      BY DEF JobDependencies
    <2>1. CASE live'[j]["job"] = live[j]["job"]
      BY <1>4, <2>1 DEF KeptInv, JobDependencies
    <2>2. CASE j = k /\ op = "job"
      <3>1. /\ "job" \in rec.todo /\ rec.state # "Pending"
            /\ rec.todo \cap {"config", "pvc", "serviceAccount"} = {}
        BY <1>1, <1>2, <1>3, <2>2 DEF PassKept, Due
      <3>2. live'[k]["job"].report => rec.spec.report
        <4>1. live'[k][op].report = MountsReport(op)
          BY <1>2, <2>2 DEF Effect
        <4> QED BY <2>2, <4>1 DEF MountsReport
      <3>3. /\ Exists(live[k]["config"]) /\ Exists(live[k]["serviceAccount"])
            /\ rec.spec.report => Exists(live[k]["pvc"])
        BY <1>1, <1>3, <3>1 DEF PassKept
      <3> QED BY <1>4, <2>2, <3>2, <3>3
    <2> QED BY <1>5, <2>1, <2>2
  <1>9. StateTrue'
    <2> SUFFICES ASSUME NEW j \in Jobs
                 PROVE  /\ daskjob'[j].state = "Running" => Exists(live'[j]["job"])
                        /\ daskjob'[j].state \in {"Complete", "Failed"} =>
                              live'[j]["job"].phase = daskjob'[j].state
      BY DEF StateTrue
    <2>1. CASE daskjob'[j] = daskjob[j]
      BY <1>4, <1>5, <2>1 DEF KeptInv, StateTrue
    <2>2. CASE op = "status" /\ j = k
      <3>1. daskjob'[k].state = rec.state /\ live' = live /\ rec.todo = {"status"}
        BY <1>0, <1>2, <2>2 DEF Effect, TypeOK, JobType
      <3> QED BY <1>1, <1>3, <2>2, <3>1 DEF PassKept
    <2> QED BY <1>2, <2>1, <2>2 DEF Effect
  <1> QED BY <1>6, <1>7, <1>8, <1>9 DEF KeptInv

\* Nothing but Create and SaveStatus is close to breaking it.
LEMMA KeptNext == KeptInv /\ [NextKept]_vars => KeptInv'
  <1> SUFFICES ASSUME KeptInv, [NextKept]_vars PROVE KeptInv'
    OBVIOUS
  <1> USE Names
  <1>0. TypeOK /\ TypeOK'
    BY NextType DEF KeptInv, Next, NextKept
  <1>1. /\ \A j \in Jobs : \A c \in Child : live[j][c].owner # "gone"
        /\ \A j \in Jobs : cjob[j].uid # "gone" /\ daskjob[j].uid # "gone"
    BY <1>0 DEF KeptInv, CacheKept, TypeOK, JobType
  <1>2. ASSUME NEW j \in Jobs, Begin(j) \/ BeginPending(j) PROVE KeptInv'
    BY <1>0, <1>2, KeptStart DEF Begin, BeginPending
  <1>3. ASSUME NEW op \in Calls, Call(op) PROVE KeptInv'
    BY <1>0, <1>3, KeptApply DEF Call, Fail
  <1>4. ASSUME NEW op \in Calls, LostReply(op) PROVE KeptInv'
    BY <1>0, <1>4, KeptApply DEF LostReply, Fail
  <1>5. ASSUME UNCHANGED <<daskjob, live, cjob, cached>>, UNCHANGED rec \/ rec' = Idle
        PROVE  KeptInv'
    BY <1>0, <1>1, <1>5, KeptUnmoved
  <1>6. ASSUME NEW k \in Jobs, NEW o \in pending[k], Deliver(k, o) PROVE KeptInv'
    <2>1. /\ UNCHANGED <<daskjob, live, rec>>
          /\ \A j \in Jobs : cjob'[j].uid # "gone"
      BY <1>0, <1>1, <1>6 DEF Deliver, TypeOK
    <2>2. \A j \in Jobs : \A c \in Watched : cached'[j][c] \in {cached[j][c], live[j][c]}
      <3>1. o \in Watched \cup {"daskjob"} /\ cached[k] \in [Watched -> Object]
        BY <1>0 DEF TypeOK
      <3>2. CASE o = "daskjob"
        BY <1>6, <3>2 DEF Deliver
      <3>3. CASE o # "daskjob"
        <4>1. cached' = [cached EXCEPT ![k] = [cached[k] EXCEPT ![o] = live[k][o]]]
          BY <1>0, <1>6, <3>1, <3>3 DEF Deliver, TypeOK
        <4> QED BY <1>0, <3>1, <3>3, <4>1 DEF TypeOK
      <3> QED BY <3>2, <3>3
    <2> QED BY <1>0, <1>1, <2>1, <2>2, KeptUnmoved
  <1>7. ASSUME NEW k \in Jobs, JobEnds(k) PROVE KeptInv'
    <2> DEFINE o == live[k]["job"]
    <2>1. PICK p \in {"Complete", "Failed"} : Becomes(k, "job", [o EXCEPT !.phase = p])
      BY <1>7 DEF JobEnds
    <2>2. o \in Object /\ Exists(o) /\ o.phase = "active"
      BY <1>0, <1>7 DEF TypeOK, JobEnds
    <2>3. PICK e \in Object : /\ e = [o EXCEPT !.phase = p]
                              /\ e.owner = o.owner /\ e.report = o.report
      BY <2>2, EndedType
    <2>4. \A j \in Jobs : \A c \in Child :
             live'[j][c] = live[j][c] \/ (j = k /\ c = "job" /\ live'[j][c] = e)
      BY <1>0, <2>1, <2>3, BecomesEffect
    <2>5. UNCHANGED <<daskjob, cjob, cached, rec>>
      BY <2>1 DEF Becomes
    <2>6. \A j \in Jobs : \A c \in Child :
             /\ Exists(live[j][c]) => Exists(live'[j][c])
             /\ live'[j][c].owner # "gone"
      <3>1. e.owner # "none" /\ e.owner # "gone"
        BY <1>1, <2>2, <2>3 DEF Exists
      <3> QED BY <1>1, <2>4, <3>1 DEF Exists
    <2>7. \A j \in Jobs :
             /\ OwnedByJob(live'[j]["job"]) => OwnedByJob(live[j]["job"])
             /\ live'[j]["job"].report = live[j]["job"].report
             /\ \/ live'[j]["job"].phase = live[j]["job"].phase
                \/ live[j]["job"].phase = "active" /\ Exists(live[j]["job"])
      BY <2>2, <2>3, <2>4 DEF OwnedByJob
    <2> QED BY <1>0, <1>1, <2>5, <2>6, <2>7, KeptUnmoved
  <1>8. ASSUME NEW k \in Jobs, NEW x \in JobType, Announced(k),
               daskjob' = [daskjob EXCEPT ![k] = x], x.state \in {"", daskjob[k].state},
               UNCHANGED <<live, cjob, cached>>
        PROVE  KeptInv'
    <2>1. \A j \in Jobs : daskjob'[j].state \in {"", daskjob[j].state}
      BY <1>0, <1>8 DEF TypeOK
    <2>2. /\ rec'.key = rec.key /\ rec'.uid = rec.uid /\ rec'.spec = rec.spec
          /\ rec'.state = rec.state /\ rec'.todo = rec.todo
      BY <1>0, <1>8 DEF Announced, TypeOK, PassType
    <2> QED BY <1>0, <1>1, <1>8, <2>1, <2>2, KeptUnmoved
  <1>9. ASSUME NEW k \in Jobs, NEW s \in JobSpecs, CreateDaskJob(k, s) PROVE KeptInv'
    <2>1. [uid |-> "cur", spec |-> s, state |-> ""] \in JobType
      BY SpecsAssumption DEF JobType, States
    <2> QED BY <1>8, <1>9, <2>1 DEF CreateDaskJob
  <1>10. ASSUME NEW k \in Jobs, NEW s \in JobSpecs, EditDaskJob(k, s) PROVE KeptInv'
    <2>1. daskjob[k] \in JobType /\ s \in SpecType
      BY <1>0, SpecsAssumption DEF TypeOK
    <2>2. /\ [daskjob[k] EXCEPT !.spec = s] \in JobType
          /\ [daskjob[k] EXCEPT !.spec = s].state = daskjob[k].state
      BY <2>1 DEF JobType
    <2>3. daskjob' = [daskjob EXCEPT ![k] = [daskjob[k] EXCEPT !.spec = s]]
      BY <1>0, <1>10 DEF EditDaskJob, TypeOK
    <2> QED BY <1>8, <1>10, <2>2, <2>3 DEF EditDaskJob
  <1>11. CASE Crash
    <2>1. /\ UNCHANGED <<daskjob, live>> /\ rec' = Idle
          /\ \A j \in Jobs : cjob'[j].uid # "gone"
          /\ \A j \in Jobs : \A c \in Watched : cached'[j][c] = live[j][c]
      BY <1>0, <1>1, <1>11 DEF Crash, TypeOK
    <2> QED BY <1>0, <1>1, <2>1, KeptUnmoved
  <1>12. ASSUME NEW j \in Jobs, NEW c \in Child, GarbageCollect(j, c) PROVE KeptInv'
    BY <1>1, <1>12 DEF GarbageCollect
  <1>13. ASSUME \/ \E j \in Jobs : BeginGone(j) \/ Resync(j)
                \/ \E op \in Calls : Refused(op)
                \/ \E c \in Clusters : DeliverDask(c) \/ DaskChanges(c)
                \/ ApiError
                \/ UNCHANGED vars
         PROVE  KeptInv'
    BY <1>5, <1>13
      DEF BeginGone, Resync, Refused, Fail, DeliverDask, DaskChanges, ApiError, vars
  <1> QED BY <1>2, <1>3, <1>4, <1>6, <1>7, <1>9, <1>10, <1>11, <1>12, <1>13
      DEF NextKept, Reconciler, ControlPlane, Workload, Users, Faults

\* What a Job needs is there first, whatever fails, for any specs and names taken.
THEOREM JobDependenciesFirst == SpecKept => []JobDependencies
  <1>1. KeptInv => JobDependencies
    BY DEF KeptInv
  <1> QED BY <1>1, KeptInit, KeptNext, PTL DEF SpecKept

\* A published state is the state of a Job that exists.
THEOREM StateIsTrue == SpecKept => []StateTrue
  <1>1. KeptInv => StateTrue
    BY DEF KeptInv
  <1> QED BY <1>1, KeptInit, KeptNext, PTL DEF SpecKept

-----------------------------------------------------------------------------
(***************************************************************************)
(* An announced end stays.                                                 *)
(***************************************************************************)

\* The cache moves from one truth about a Job to a later one.
LEMMA EndCached ==
    ASSUME KeptInv, NEW j \in Jobs,
           cached'[j]["job"] \in {cached[j]["job"], live[j]["job"]}
    PROVE  cached[j]["job"].phase \in Ends => cached'[j]["job"].phase = cached[j]["job"].phase
  BY DEF KeptInv, CacheKept, Ends

\* A step that publishes no state and starts no pass.
LEMMA EndUnmoved ==
    ASSUME KeptInv, \A j \in Jobs : EndKept(j),
           \A j \in Jobs : cached'[j]["job"] \in {cached[j]["job"], live[j]["job"]},
           \A j \in Jobs : daskjob'[j].state \in {"", daskjob[j].state},
           rec' = Idle \/ (rec'.key = rec.key /\ rec'.state = rec.state)
    PROVE  \A j \in Jobs : EndKept(j)'
  <1> SUFFICES ASSUME NEW j \in Jobs PROVE EndKept(j)'
    OBVIOUS
  <1>1. EndKept(j) /\ "" \notin Ends
    BY DEF Ends
  <1>2. cached[j]["job"].phase \in Ends => cached'[j]["job"].phase = cached[j]["job"].phase
    BY EndCached
  <1>3. daskjob'[j].state \in {"", daskjob[j].state}
    OBVIOUS
  <1>4. CASE rec' = Idle
    <2>1. rec'.key # j
      BY <1>4, JobsAssumption DEF Idle
    <2> QED BY <1>1, <1>2, <1>3, <2>1 DEF EndKept
  <1>5. CASE rec'.key = rec.key /\ rec'.state = rec.state
    BY <1>1, <1>2, <1>3, <1>5 DEF EndKept
  <1> QED BY <1>4, <1>5

\* The state a pass sets out with agrees with the end announced before.
LEMMA EndStart ==
    ASSUME KeptInv, \A j \in Jobs : EndKept(j), NEW k \in Jobs,
           \/ \E todo : Start(k, JobState(cached[k]["job"]), todo)
           \/ Start(k, "Pending", {"status"})
    PROVE  \A j \in Jobs : EndKept(j)'
  <1> SUFFICES ASSUME NEW j \in Jobs PROVE EndKept(j)'
    OBVIOUS
  <1>1. EndKept(j) /\ UNCHANGED <<daskjob, cached>> /\ rec'.key = k
    BY DEF Start
  <1>2. CASE j # k
    BY <1>1, <1>2 DEF EndKept
  <1>3. CASE j = k
    <2>1. cached[j]["job"].phase \in Phases
      BY Names DEF KeptInv, TypeOK, Object
    <2>2. \/ rec'.state = "Pending"
          \/ rec'.state = JobState(cached[j]["job"])
      BY <1>3 DEF Start
    <2>3. /\ rec'.state \in Ends => cached[j]["job"].phase = rec'.state
          /\ rec'.state \notin Ends \cup {"Pending"} => cached[j]["job"].phase \notin Ends
      BY <2>1, <2>2 DEF JobState, Phases, Ends
    <2> QED BY <1>1, <2>3 DEF EndKept
  <1> QED BY <1>2, <1>3

\* A call, answered or not: only the last one publishes, and what the pass has
\* set out with.
LEMMA EndApply ==
    ASSUME KeptInv, \A j \in Jobs : EndKept(j),
           NEW op \in Calls, Due(op), Accepted(op), Apply(op), UNCHANGED cached,
           \/ op # "status" /\ rec' = [rec EXCEPT !.todo = @ \ {op}]
           \/ rec' = Idle
    PROVE  /\ \A j \in Jobs : EndKept(j)'
           /\ \A j \in Jobs : daskjob[j].uid = "cur" /\ daskjob[j].state \in Ends =>
                 daskjob'[j].state \in {daskjob[j].state, "Pending"}
  <1>0. TypeOK /\ rec.key \in Jobs
    BY DEF KeptInv, Due
  <1>1. CASE op # "status"
    <2>1. daskjob' = daskjob
      BY <1>1 DEF Apply, Create
    <2>2. rec' = Idle \/ (rec'.key = rec.key /\ rec'.state = rec.state)
      BY <1>0 DEF TypeOK, PassType
    <2>3. \A j \in Jobs : EndKept(j)'
      BY <2>1, <2>2, EndUnmoved
    <2> QED BY <2>1, <2>3
  <1>2. CASE op = "status"
    <2>1. /\ daskjob'[rec.key].state = rec.state
          /\ \A j \in Jobs : j # rec.key => daskjob'[j] = daskjob[j]
      BY <1>0, <1>2 DEF Apply, SaveStatus, TypeOK, JobType, Child, Calls
    <2>2. \A j \in Jobs : rec'.key # j
      <3>1. rec' = Idle
        BY <1>2
      <3>2. rec'.key = NoJob
        BY <3>1 DEF Idle
      <3> QED BY <3>2, JobsAssumption
    <2>3. ASSUME NEW j \in Jobs
          PROVE  /\ EndKept(j)'
                 /\ daskjob[j].state \in Ends =>
                       daskjob'[j].state \in {daskjob[j].state, "Pending"}
      <3>1. EndKept(j) /\ cached' = cached
        OBVIOUS
      <3>2. CASE j = rec.key
        <4>1. /\ rec.state \in Ends => cached[j]["job"].phase = rec.state
              /\ daskjob[j].state \in Ends => cached[j]["job"].phase = daskjob[j].state
              /\ rec.state \notin Ends \cup {"Pending"} => daskjob[j].state \notin Ends
          BY <3>1, <3>2 DEF EndKept
        <4> QED BY <2>1, <2>2, <3>1, <3>2, <4>1 DEF EndKept
      <3>3. CASE j # rec.key
        BY <2>1, <2>2, <3>1, <3>3 DEF EndKept
      <3> QED BY <3>2, <3>3
    <2> QED BY <2>3
  <1> QED BY <1>1, <1>2

LEMMA EndNext ==
    ASSUME KeptInv, \A j \in Jobs : EndKept(j), [NextKept]_vars
    PROVE  /\ \A j \in Jobs : EndKept(j)'
           /\ \A j \in Jobs : daskjob[j].uid = "cur" /\ daskjob[j].state \in Ends =>
                 daskjob'[j].state \in {daskjob[j].state, "Pending"}
  <1> USE Names
  <1> DEFINE Kept == /\ \A j \in Jobs : EndKept(j)'
                     /\ \A j \in Jobs : daskjob[j].uid = "cur" /\ daskjob[j].state \in Ends =>
                           daskjob'[j].state \in {daskjob[j].state, "Pending"}
  <1>0. TypeOK
    BY DEF KeptInv
  <1>1. ASSUME UNCHANGED daskjob,
               \A j \in Jobs : cached'[j]["job"] \in {cached[j]["job"], live[j]["job"]},
               rec' = Idle \/ (rec'.key = rec.key /\ rec'.state = rec.state)
        PROVE  Kept
    BY <1>1, EndUnmoved
  <1>2. ASSUME NEW j \in Jobs, Begin(j) \/ BeginPending(j) PROVE Kept
    <2>1. UNCHANGED daskjob
      BY <1>2 DEF Begin, BeginPending, Start
    <2>2. \A i \in Jobs : EndKept(i)'
      BY <1>2, EndStart DEF Begin, BeginPending
    <2> QED BY <2>1, <2>2
  <1>3. ASSUME NEW op \in Calls, Call(op) \/ LostReply(op) PROVE Kept
    BY <1>3, EndApply DEF Call, LostReply, Fail
  <1>4. ASSUME NEW k \in Jobs, NEW o \in pending[k], Deliver(k, o) PROVE Kept
    <2>1. o \in Watched \cup {"daskjob"}
      BY <1>0 DEF TypeOK
    <2>2. CASE o = "daskjob"
      BY <1>1, <1>4, <2>2 DEF Deliver
    <2>3. CASE o # "daskjob"
      <3>1. cached' = [cached EXCEPT ![k] = [cached[k] EXCEPT ![o] = live[k][o]]]
        BY <1>0, <1>4, <2>1, <2>3 DEF Deliver, TypeOK
      <3>2. \A j \in Jobs : cached'[j]["job"] \in {cached[j]["job"], live[j]["job"]}
        BY <1>0, <2>1, <2>3, <3>1 DEF TypeOK
      <3> QED BY <1>1, <1>4, <3>2 DEF Deliver
    <2> QED BY <2>2, <2>3
  <1>5. CASE Crash
    <2>1. \A j \in Jobs : cached'[j]["job"] = live[j]["job"]
      BY <1>5 DEF Crash
    <2> QED BY <1>1, <1>5, <2>1 DEF Crash
  <1>6. ASSUME NEW k \in Jobs, NEW c \in Child, NEW o, Becomes(k, c, o) PROVE Kept
    BY <1>1, <1>6 DEF Becomes
  <1>7. ASSUME NEW k \in Jobs, NEW s \in JobSpecs, CreateDaskJob(k, s) \/ EditDaskJob(k, s)
        PROVE  Kept
    <2>1. /\ UNCHANGED cached /\ rec'.key = rec.key /\ rec'.state = rec.state
          /\ \A j \in Jobs : j # k => daskjob'[j] = daskjob[j]
      BY <1>0, <1>7 DEF CreateDaskJob, EditDaskJob, Announced, TypeOK, PassType
    <2>2. CASE CreateDaskJob(k, s)
      <3>1. daskjob[k].uid = "none" /\ daskjob'[k].state = ""
        BY <1>0, <2>2 DEF CreateDaskJob, TypeOK
      <3>2. \A j \in Jobs : daskjob'[j].state \in {"", daskjob[j].state}
        BY <2>1, <3>1
      <3>3. \A j \in Jobs : daskjob[j].uid = "cur" => daskjob'[j] = daskjob[j]
        BY <2>1, <3>1
      <3> QED BY <2>1, <3>2, <3>3, EndUnmoved
    <2>3. CASE EditDaskJob(k, s)
      <3>1. daskjob'[k].state = daskjob[k].state
        BY <1>0, <2>3 DEF EditDaskJob, TypeOK, JobType
      <3>2. \A j \in Jobs : daskjob'[j].state = daskjob[j].state
        BY <2>1, <3>1
      <3> QED BY <2>1, <3>2, EndUnmoved
    <2> QED BY <1>7, <2>2, <2>3
  <1>8. ASSUME NEW k \in Jobs, \E c \in Child : GarbageCollect(k, c) \/ JobEnds(k)
        PROVE  Kept
    BY <1>6, <1>8 DEF GarbageCollect, JobEnds
  <1>9. ASSUME \/ \E j \in Jobs : BeginGone(j) \/ Resync(j)
               \/ \E op \in Calls : Refused(op)
               \/ \E c \in Clusters : DeliverDask(c) \/ DaskChanges(c)
               \/ ApiError
               \/ UNCHANGED vars
        PROVE  Kept
    BY <1>1, <1>9
      DEF BeginGone, Resync, Refused, Fail, DeliverDask, DaskChanges, ApiError, vars
  <1> QED BY <1>2, <1>3, <1>4, <1>5, <1>7, <1>8, <1>9
      DEF NextKept, Reconciler, ControlPlane, Workload, Users, Faults

\* An announced end is overwritten by nothing but the complaint that there is no
\* such Dask.
THEOREM EndIsKept == SpecKept => EndStays
  <1> DEFINE Stays == \A j \in Jobs : daskjob[j].uid = "cur" /\ daskjob[j].state \in Ends =>
                        daskjob'[j].state \in {daskjob[j].state, "Pending"}
             I == KeptInv /\ \A j \in Jobs : EndKept(j)
  <1>1. Init => I
    <2> SUFFICES ASSUME Init PROVE \A j \in Jobs : EndKept(j)
      BY KeptInit
    <2> QED BY JobsAssumption DEF Init, Idle, NoDaskJob, EndKept, Ends
  <1>2. I /\ [NextKept]_vars => I' /\ Stays
    BY KeptNext, EndNext
  <1>3. SpecKept => [][Stays]_vars
    <2>1. I /\ [NextKept]_vars => I'
      BY <1>2
    <2>2. I /\ [NextKept]_vars => [Stays]_vars
      BY <1>2
    <2> QED BY <1>1, <2>1, <2>2, PTL DEF SpecKept
  <1> QED BY <1>3 DEF EndStays

-----------------------------------------------------------------------------
(***************************************************************************)
(* What a pass is refused, and why.                                        *)
(***************************************************************************)
LEMMA Deciders ==
    /\ \A c \in Child : DecidedBy[c] \in Watched
    /\ DecidedBy["status"] = "daskjob" /\ DecidedBy["serviceAccount"] = "job"
    /\ \A c \in Watched : DecidedBy[c] = c
  BY Names DEF DecidedBy

LEMMA TodoStays ==
    ASSUME NEW e \in Jobs, TodoTrue(e),
           rec'.key = e /\ e \notin queue' =>
              /\ rec.key = e /\ e \notin queue
              /\ rec'.todo \subseteq rec.todo
              /\ \A c \in Watched : Exists(cached'[e][c]) => Exists(cached[e][c])
              /\ "daskjob" \in pending[e] => "daskjob" \in pending'[e]
              /\ rec'.stale => rec.stale \/ "daskjob" \in pending'[e]
    PROVE  TodoTrue(e)'
  BY Deciders DEF TodoTrue

\* Where no pass begins or goes on, there is nothing to show.
LEMMA TodoEnds ==
    ASSUME NEW e \in Jobs, rec' = Idle
    PROVE  TodoTrue(e)'
  BY JobsAssumption DEF TodoTrue, Idle

\* A pass begins with what its snapshot lacks.
LEMMA TodoBegin ==
    ASSUME NEW j \in Jobs, Begin(j) \/ BeginPending(j), NEW e \in Jobs
    PROVE  TodoTrue(e)'
  <1>0. PICK state, todo : /\ Start(j, state, todo)
                           /\ todo = ToDo(cjob[j].spec, cached[j]) \/ todo = {"status"}
    BY Zenon DEF Begin, BeginPending
  <1>1. /\ rec'.key = j /\ UNCHANGED <<cached, pending>>
        /\ rec'.todo = ToDo(cjob[j].spec, cached[j]) \/ rec'.todo = {"status"}
        /\ rec'.stale = ("daskjob" \in pending[j])
    BY <1>0 DEF Start
  <1>2. \A c \in Child \cap rec'.todo : ~Exists(cached[j][DecidedBy[c]])
    BY <1>1, Names, Deciders DEF ToDo
  <1> QED BY <1>1, <1>2 DEF TodoTrue

LEMMA TodoBecomes ==
    ASSUME TypeOK, NEW j \in Jobs, NEW c, NEW o, Becomes(j, c, o),
           NEW e \in Jobs, TodoTrue(e)
    PROVE  TodoTrue(e)'
  <1>1. pending[e] \subseteq pending'[e]
    BY DEF Becomes, TypeOK
  <1> QED BY <1>1, TodoStays DEF Becomes

LEMMA TodoAnnounced ==
    ASSUME TypeOK, NEW j \in Jobs, Announced(j), UNCHANGED <<cached, queue>>,
           NEW e \in Jobs, TodoTrue(e)
    PROVE  TodoTrue(e)'
  <1>1. /\ rec'.key = rec.key /\ rec'.todo = rec.todo
        /\ rec'.stale => rec.stale \/ rec.key = j
    BY DEF Announced, TypeOK, PassType
  <1>2. pending[e] \subseteq pending'[e] /\ "daskjob" \in pending'[j]
    BY DEF Announced, TypeOK
  <1> QED BY <1>1, <1>2, TodoStays

LEMMA TodoDeleteDaskJob ==
    ASSUME TypeOK, NEW j \in Jobs, DeleteDaskJob(j), NEW e \in Jobs, TodoTrue(e)
    PROVE  TodoTrue(e)'
  <1>1. /\ rec'.key = rec.key /\ rec'.todo = rec.todo
        /\ rec'.stale => rec.stale \/ rec.key = j
    BY DEF DeleteDaskJob, Deceased, TypeOK, PassType
  <1>2. pending[e] \subseteq pending'[e] /\ "daskjob" \in pending'[j] /\ queue' = queue
    BY DEF DeleteDaskJob, TypeOK
  <1>3. ASSUME NEW c \in Watched PROVE Exists(cached'[e][c]) => Exists(cached[e][c])
    <2>1. CASE e = j
      <3>1. cached[j][c] \in Object
        BY DEF TypeOK
      <3>2. cached'[j][c] = Orphaned(cached[j][c])
        BY DEF DeleteDaskJob, TypeOK
      <3> QED BY <2>1, <3>1, <3>2, OrphanedType
    <2>2. CASE e # j
      <3>1. cached'[e] = cached[e]
        BY <2>2 DEF DeleteDaskJob, TypeOK
      <3> QED BY <3>1
    <2> QED BY <2>1, <2>2
  <1> QED BY <1>1, <1>2, <1>3, TodoStays

\* An event queues the name, unless it is about an object of another owner that
\* nobody has put one of ours in the place of.
LEMMA TodoDeliver ==
    ASSUME TypeOK, NEW j \in Jobs, NEW o \in pending[j], Deliver(j, o),
           NEW e \in Jobs, TodoTrue(e)
    PROVE  TodoTrue(e)'
  <1>1. /\ rec' = rec /\ queue \subseteq queue'
        /\ pending'[j] = pending[j] \ {o}
        /\ e # j => pending'[e] = pending[e] /\ cached'[e] = cached[e]
    BY DEF Deliver, TypeOK
  <1>2. CASE e # j
    BY <1>1, <1>2, TodoStays
  <1>3. CASE e = j /\ o = "daskjob"
    BY <1>3 DEF Deliver, TodoTrue
  <1>4. CASE e = j /\ o # "daskjob" /\ e \notin queue'
    <2>1. o \in Watched
      BY <1>4 DEF TypeOK
    <2>2. cached[j][o].owner = "foreign"
      BY <1>4, <2>1 DEF Deliver
    <2>3. \A c \in Watched : c = o \/ cached'[j][c] = cached[j][c]
      BY <1>4, <2>1 DEF Deliver, TypeOK
    <2>4. \A c \in Watched : Exists(cached'[j][c]) => Exists(cached[j][c])
      BY <2>2, <2>3 DEF Exists
    <2> QED BY <1>1, <1>4, <2>1, <2>4, TodoStays
  <1>5. CASE e \in queue'
    BY <1>5 DEF TodoTrue
  <1> QED BY <1>2, <1>3, <1>4, <1>5

LEMMA TodoCall ==
    ASSUME TypeOK, NEW op \in Calls, Call(op), NEW e \in Jobs, TodoTrue(e)
    PROVE  TodoTrue(e)'
  <1>1. CASE op = "status"
    BY <1>1, TodoEnds DEF Call, Fail
  <1>2. CASE op # "status"
    <2>1. /\ rec'.key = rec.key /\ rec'.todo \subseteq rec.todo
          /\ rec'.stale = rec.stale /\ UNCHANGED <<cached, queue>>
      BY <1>2 DEF Call, TypeOK, PassType
    <2>2. PICK k \in Jobs : k = rec.key
      BY DEF Call, Due
    <2>3. pending[e] \subseteq pending'[e]
      BY <2>2, ApplyEffect DEF Call, Effect
    <2> QED BY <2>1, <2>3, TodoStays
  <1> QED BY <1>1, <1>2

LEMMA TodoNext ==
    ASSUME TypeOK, [Next]_vars, NEW e \in Jobs, TodoTrue(e)
    PROVE  TodoTrue(e)'
  <1>1. CASE Reconciler
    <2>1. ASSUME NEW op \in Calls, Refused(op) PROVE TodoTrue(e)'
      BY <2>1, TodoEnds DEF Refused, Fail
    <2>2. ASSUME NEW j \in Jobs, BeginGone(j) PROVE TodoTrue(e)'
      BY <2>2, JobsAssumption DEF BeginGone, Idle, TodoTrue
    <2> QED BY <1>1, <2>1, <2>2, TodoBegin, TodoCall DEF Reconciler
  <1>2. CASE ControlPlane
    <2>1. ASSUME NEW j \in Jobs, Resync(j) PROVE TodoTrue(e)'
      BY <2>1, TodoStays DEF Resync
    <2>2. ASSUME NEW c \in Clusters, DeliverDask(c) PROVE TodoTrue(e)'
      BY <2>2, TodoStays DEF DeliverDask
    <2> QED BY <1>2, <2>1, <2>2, TodoDeliver, TodoBecomes DEF ControlPlane, GarbageCollect
  <1>3. CASE Workload
    <2>1. ASSUME NEW j \in Jobs, JobEnds(j) PROVE TodoTrue(e)'
      BY <2>1, TodoBecomes DEF JobEnds
    <2>2. ASSUME NEW c \in Clusters, DaskChanges(c) PROVE TodoTrue(e)'
      BY <2>2, TodoStays DEF DaskChanges
    <2> QED BY <1>3, <2>1, <2>2 DEF Workload
  <1>4. CASE Users
    BY <1>4, TodoAnnounced DEF Users, CreateDaskJob, EditDaskJob
  <1>5. CASE Removals
    BY <1>5, TodoDeleteDaskJob, TodoBecomes DEF Removals, DeleteChild
  <1>6. CASE Faults
    BY <1>6, TodoEnds DEF Faults, ApiError, Crash, LostReply, Fail
  <1>7. CASE UNCHANGED vars
    BY <1>7 DEF vars, TodoTrue
  <1> QED BY <1>1, <1>2, <1>3, <1>4, <1>5, <1>6, <1>7 DEF Next

LEMMA RefusalReason ==
    ASSUME Inv, NEW j \in Jobs, TodoTrue(j), NEW op \in Calls, rec.key = j, Refused(op)
    PROVE  \/ op \in rec.spec.broken
           \/ HalfMade(j)'
           \/ j \in queue
           \/ DecidedBy[op] \in pending[j]
  <1> SUFFICES ASSUME op \notin rec.spec.broken, j \notin queue, DecidedBy[op] \notin pending[j]
               PROVE  HalfMade(j)'
    OBVIOUS
  <1>1. op \in rec.todo /\ ~Accepted(op) /\ rec' = Idle /\ live' = live
    BY DEF Refused, Due, Fail
  <1>2. op \in Child
    BY <1>1, Names, Deciders DEF Accepted, TodoTrue
  <1>3. Exists(live[j][op]) /\ ~Exists(cached[j][DecidedBy[op]])
    BY <1>1, <1>2 DEF Accepted, TodoTrue
  <1>4. ~Exists(live[j][DecidedBy[op]])
    BY <1>2, <1>3, Deciders DEF Inv, CacheTrue
  <1>5. op = "serviceAccount"
    BY <1>2, <1>3, <1>4, Names, Deciders
  <1> QED BY <1>1, <1>3, <1>4, <1>5, Deciders, JobsAssumption DEF HalfMade, Idle

\* Whatever happens in between, a pass is refused a call for a reason that goes
\* away by a retry, or for one that is named: a broken spec, or a ServiceAccount
\* whose Job has not been made.
THEOREM RefusalsHaveReasons == Spec => RefusedForAReason
  <1> DEFINE J == Inv /\ \A j \in Jobs : TodoTrue(j)
             Reason == \A j \in Jobs : \A op \in Calls :
                rec.key = j /\ Refused(op) =>
                    \/ op \in rec.spec.broken
                    \/ HalfMade(j)'
                    \/ j \in queue
                    \/ DecidedBy[op] \in pending[j]
  <1>1. Init => J
    <2>1. ASSUME Init, NEW j \in Jobs PROVE TodoTrue(j)
      BY <2>1, JobsAssumption DEF Init, Idle, TodoTrue
    <2> QED BY <2>1, InitInv
  <1>2. J /\ [Next]_vars => J'
    BY InvNext, TodoNext DEF Inv
  <1>3. J /\ [Next]_vars => [Reason]_vars
    BY RefusalReason
  <1> QED BY <1>1, <1>2, <1>3, PTL DEF Spec, RefusedForAReason
=============================================================================
