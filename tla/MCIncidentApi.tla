---------------------------- MODULE MCIncidentApi -----------------------------
(***************************************************************************)
(* The incidents and approval requests the configurations choose from.     *)
(***************************************************************************)
EXTENDS IncidentApi

CONSTANTS inc1, inc2, inc3, app1, app2
=============================================================================
