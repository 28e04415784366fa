----------------------------- MODULE OscRelayMC ------------------------------
\* Values for the run of OscRelay.
EXTENDS OscRelay

CuePaths == {Started(c) : c \in Cues} \cup {Ended(c) : c \in Cues}
=============================================================================
