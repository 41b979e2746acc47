------------------------- MODULE MCCollaborativeRoom -------------------------
(* CollaborativeRoom for TLC: which user each tab belongs to is left open, so *)
(* one user may have several tabs.  Tabs are symmetric, and so are users.     *)
EXTENDS CollaborativeRoom, TLC

Symmetry == Permutations(Tabs) \cup Permutations(Users)
=============================================================================
