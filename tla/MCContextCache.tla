--------------------------- MODULE MCContextCache ---------------------------
(***************************************************************************)
(* ContextCache for TLC; the configuration gives the constants.  Liveness  *)
(* is checked, so no symmetry is declared.                                 *)
(***************************************************************************)
EXTENDS ContextCache
=============================================================================
