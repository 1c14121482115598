--------------------------- MODULE ClusterBringup ---------------------------
(***************************************************************************)
(* What the Dask controller promises about the bring-up of a cluster that  *)
(* nobody takes apart: its stages come up one by one, each after those it  *)
(* builds on, none ever goes away, and the world is told about the cluster *)
(* only once its core is there.  Nothing is said of passes, caches, queues *)
(* or of how often a stage is tried.                                       *)
(***************************************************************************)
CONSTANTS
    Clusters,  \* the names of the Dask resources
    Given      \* stages whose last object somebody else has made beforehand

Stage == {"config", "notebook", "scheduler", "workers", "ingress"}
Core  == {"config", "scheduler", "workers"}

\* What a stage builds on.
After == [config    |-> {},
          notebook  |-> {"config"},
          scheduler |-> {"config"},
          workers   |-> {"config", "scheduler"},
          ingress   |-> {"config", "scheduler", "workers"}]

VARIABLES
    built,  \* the stages of each cluster that are complete
    told    \* whether a status has been published since its Dask was created

Init ==
    /\ built = [d \in Clusters |-> Given \cap Stage]
    /\ told = [d \in Clusters |-> FALSE]

Complete(d, s) ==
    /\ s \notin built[d]
    /\ After[s] \subseteq built[d]
    /\ built' = [built EXCEPT ![d] = @ \cup {s}]
    /\ UNCHANGED told

Tell(d) ==
    /\ Core \subseteq built[d]
    /\ told' = [told EXCEPT ![d] = TRUE]
    /\ UNCHANGED built

Next == \E d \in Clusters : Tell(d) \/ \E s \in Stage : Complete(d, s)

Spec == Init /\ [][Next]_<<built, told>>
=============================================================================
