---- MODULE MCAppRestore ----
(* The instance of AppRestore that TLC checks. *)
EXTENDS AppRestore
=============================================================================
