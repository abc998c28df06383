------------------------ MODULE MCIncidentRemediation -------------------------
(***************************************************************************)
(* A plan of three steps whose middle one, like rollback_deployment, has no*)
(* undo descriptor.                                                        *)
(***************************************************************************)
EXTENDS IncidentRemediation

MCUndoable == {1, 3}
=============================================================================
