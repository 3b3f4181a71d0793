----------------------------- MODULE MCPipeline -----------------------------
EXTENDS Pipeline

(* Users are interchangeable: no definition names a particular one. *)
MCSymmetry == Permutations(Users)

=============================================================================
