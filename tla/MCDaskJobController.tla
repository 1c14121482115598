------------------------ MODULE MCDaskJobController ------------------------
(***************************************************************************)
(* Instances of DaskJobController for TLC.  The set of clusters is written *)
(* out here, as specs refer to its members.                                *)
(***************************************************************************)
EXTENDS DaskJobController

CONSTANT c1

SpecOf(script, report, b) ==
    [cluster |-> c1, script |-> script, report |-> report, broken |-> b]

\* A script that saves no report.
PlainScript == {SpecOf("py", FALSE, {})}

\* A notebook with a report, edited to a script without one.
TwoScripts == {SpecOf("ipynb", TRUE, {}), SpecOf("py", FALSE, {})}

\* A good script, one that is neither script nor notebook, and one whose Job
\* cannot be rendered.
GoodAndBad == {SpecOf("py", TRUE, {}), SpecOf("invalid", FALSE, {}),
               SpecOf("py", FALSE, {"job"})}
=============================================================================
