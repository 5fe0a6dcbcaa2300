------------------------------- MODULE MCTroe -------------------------------
(***************************************************************************)
(* Small instances of Troe.  Neither the threads nor the tenants are told  *)
(* apart by any action or property.                                        *)
(***************************************************************************)
EXTENDS Troe, TLC

Symmetry == Permutations(Thread) \cup Permutations(Tenant)
=============================================================================
