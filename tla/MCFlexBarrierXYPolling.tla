----------------------- MODULE MCFlexBarrierXYPolling -----------------------
(* Small meshes for FlexBarrierXYPolling. *)
EXTENDS FlexBarrierXYPolling
=============================================================================
