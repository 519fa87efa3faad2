------------------------ MODULE MCCloseObservations ------------------------
(***************************************************************************)
(* The instance of CloseObservations that TLC checks.                      *)
(***************************************************************************)
EXTENDS CloseObservations
=============================================================================
