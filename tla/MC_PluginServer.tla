--------------------------- MODULE MC_PluginServer ---------------------------
(***************************************************************************)
(* Two multiplex IDs and two concurrent RPC goroutines: enough for two     *)
(* mounts served side by side, a Cleanup of one while the other's RPC is   *)
(* in its backend, and a Setup racing an RPC for the same ID.              *)
(***************************************************************************)
EXTENDS PluginServer

CONSTANTS i1, i2, r1, r2

MCIds == {i1, i2}
MCRpcs == {r1, r2}

=============================================================================
