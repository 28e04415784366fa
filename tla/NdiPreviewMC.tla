---------------------------- MODULE NdiPreviewMC -----------------------------
\* Values for the runs of NdiPreview.
EXTENDS NdiPreview

SameScreens == Permutations(Screens)
=============================================================================
