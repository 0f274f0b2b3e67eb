------------------------- MODULE MCFlexGroupBarrier -------------------------
(* Small meshes and programs for FlexGroupBarrier. *)
EXTENDS FlexGroupBarrier

\* As hello_world does: a global barrier between grid_sync_group_init and the
\* first barrier of a group.
GlobalPollGroup == <<"global", "poll", "group">>
GlobalPollGroupGlobal == <<"global", "poll", "group", "global">>
=============================================================================
