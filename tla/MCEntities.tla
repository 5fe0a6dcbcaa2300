----------------------------- MODULE MCEntities -----------------------------
(***************************************************************************)
(* Entities for TLC; the configurations give the constants.                *)
(***************************************************************************)
EXTENDS Entities, TLC

\* Threads, and attributes, are interchangeable (in runs without liveness).
Symmetry == Permutations(Thread) \cup Permutations(Attr)
=============================================================================
