--------------------------- MODULE PowerBridgeMC -----------------------------
\* Sets of frames and presses for the runs of PowerBridge.
EXTENDS PowerBridge

LOCAL Fr(k, vs) == [key : {k}, value : vs]

IdleFrames == Fr("running", {"no"}) \cup Fr("armed", {"no"})
ArmFrames  == IdleFrames \cup Fr("armed", {"yes"}) \cup Fr("load", Project)
ShowFrames == ArmFrames \cup Fr("running", {"yes"})

\* The engine only ever loads the auto project.
AutoFrames == IdleFrames \cup Fr("armed", {"yes"}) \cup Fr("load", {AutoProject})

Plain  == [kind |-> "load", reload |-> FALSE, force |-> FALSE]
Reload == [Plain EXCEPT !.reload = TRUE]
Force  == [Plain EXCEPT !.force = TRUE]
Unload == [Plain EXCEPT !.kind = "unload"]

NoPresses     == {}
LoadPresses   == {Plain}
ReloadPresses == {Reload}
PlainPresses  == {Plain, Unload}
AllPresses    == {Plain, Reload, Force, Unload}
=============================================================================
