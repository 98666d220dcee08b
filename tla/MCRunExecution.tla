--------------------------- MODULE MCRunExecution ---------------------------
(***************************************************************************)
(* RunExecution with one or two web clients.  The switches of the          *)
(* environment are set by each configuration.                              *)
(***************************************************************************)
EXTENDS RunExecution

=============================================================================
