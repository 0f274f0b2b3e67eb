------------------------ MODULE MCFlexGlobalBarrier -------------------------
(* Small meshes and programs for FlexGlobalBarrier. *)
EXTENDS FlexGlobalBarrier
=============================================================================
