-------------------------- MODULE MCRedisPipeline --------------------------
(***************************************************************************)
(* Small instances of RedisPipeline.                                       *)
(***************************************************************************)
EXTENDS RedisPipeline

Both == <<"auth", "select">>
=============================================================================
