----------------------------- MODULE MCNetServer -----------------------------
(***************************************************************************)
(* A network daemon with its goroutines in numbered slots.  No symmetry:   *)
(* the run checks liveness.                                                *)
(***************************************************************************)
EXTENDS NetServer
=============================================================================
