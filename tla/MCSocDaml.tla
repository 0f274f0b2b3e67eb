----------------------------- MODULE MCSocDaml ------------------------------
(* Small heaps for SocDaml. *)
EXTENDS SocDaml
=============================================================================
