--------------------------- MODULE MCModelRebuild ---------------------------
(* A small instance of ModelRebuild; its bounds are in the configuration. *)
EXTENDS ModelRebuild

=============================================================================
