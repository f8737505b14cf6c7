----------------------------- MODULE MCOverlays -----------------------------
EXTENDS Overlays, TLC
\* Sidebars that are all animated are alike, as dropdowns are.
Alike == Permutations(Sidebars) \cup Permutations(Dropdowns)
=============================================================================
