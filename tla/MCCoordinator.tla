--------------------------- MODULE MCCoordinator ----------------------------
(* Constants for model checking Coordinator. *)
EXTENDS Coordinator

MCInitialLoads == {{}, Parts}
=============================================================================
