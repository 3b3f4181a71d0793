---------------------------- MODULE MCRateLimit ----------------------------
(* RateLimit instantiated for TLC.  No symmetry: the runs check liveness. *)
EXTENDS RateLimit

=============================================================================
