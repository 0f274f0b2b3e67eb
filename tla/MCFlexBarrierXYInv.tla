-------------------------- MODULE MCFlexBarrierXYInv ---------------------------
(* Small meshes for FlexBarrierXY. *)
EXTENDS FlexBarrierXYInv
=============================================================================
