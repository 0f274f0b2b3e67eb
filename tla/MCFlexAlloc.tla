---------------------------- MODULE MCFlexAlloc -----------------------------
(* Small heaps for FlexAlloc. *)
EXTENDS FlexAlloc
=============================================================================
