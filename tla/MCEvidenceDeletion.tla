-------------------------- MODULE MCEvidenceDeletion --------------------------
(* The files of one store in path order: a daily shard, the projection and a *)
(* retained image.                                                           *)
EXTENDS EvidenceDeletion

CONSTANTS app, mcp, shard, index, image

MCPaths == <<shard, index, image>>
=============================================================================
