---------------------------- MODULE ProjectOpsMC -----------------------------
\* Sets of frames and presses for the runs of ProjectOps.
EXTENDS ProjectOps

LOCAL Fr(k, vs) == [key : {k}, value : vs]

IdleFrames == Fr("running", {"no"}) \cup Fr("armed", {"no"})

\* Arming and loading, no show.
ArmFrames == IdleFrames \cup Fr("armed", {"yes"}) \cup Fr("load", Project)

Plain  == [kind |-> "load", reload |-> FALSE, force |-> FALSE]
Unload == [Plain EXCEPT !.kind = "unload"]

PlainPresses == {Plain, Unload}
=============================================================================
