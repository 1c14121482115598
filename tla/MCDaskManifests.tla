--------------------------- MODULE MCDaskManifests ---------------------------
(***************************************************************************)
(* Instances of DaskManifests for TLC.                                     *)
(***************************************************************************)
EXTENDS DaskManifests, TLC

SpecOf(j, p) ==
    [jupyter |-> j, policies |-> p, ingress |-> FALSE, replicas |-> 1, broken |-> {}]

NoSection == [given |-> FALSE, sets |-> {}]
SectionOf(f) == [given |-> TRUE, sets |-> f]
Three(n, s, w) == [notebook |-> n, scheduler |-> s, worker |-> w]

\* A notebook and daemon workers of their own kind, under policies; the sections
\* clear the pull secret, and turn the affinity into a map, before anybody minds.
Specialised == SpecOf(TRUE, TRUE)

\* Daemon workers with a section; no notebook, no policies.
Scattered == SpecOf(FALSE, FALSE)

\* Daemon workers without a section, and a pull secret; told apart from Scattered
\* by a builder that is never called for it.
Unmanaged == [SpecOf(FALSE, FALSE) EXCEPT !.broken = {"ingress"}]

SettingsOf ==
    (Specialised :> [cluster |-> {"env", "pullSecrets"}, daemon |-> TRUE,
                     section |-> Three(SectionOf({"env", "affinity"}), NoSection,
                                       SectionOf({"affinity"}))])
    @@
    (Scattered :> [cluster |-> {"env", "affinity"}, daemon |-> TRUE,
                   section |-> Three(NoSection, SectionOf({"affinity"}), SectionOf({"env"}))])
    @@
    (Unmanaged :> [cluster |-> {"pullSecrets"}, daemon |-> TRUE,
                   section |-> Three(NoSection, NoSection, NoSection)])

ThreeSpecs == DOMAIN SettingsOf
=============================================================================
