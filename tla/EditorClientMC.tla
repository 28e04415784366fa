--------------------------- MODULE EditorClientMC ----------------------------
\* Every project_ready asks for the same project: the case in which only the
\* slot keeps a late reply from a later request.
EXTENDS EditorClient

MCProjectOf == [r \in ReadyReq |-> "a"]
=============================================================================
