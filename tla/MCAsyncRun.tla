----------------------------- MODULE MCAsyncRun -----------------------------
(* AsyncRun for TLC: the descendants are interchangeable model values.     *)
EXTENDS AsyncRun, TLC

Symmetry == Permutations(Kin)
=============================================================================
