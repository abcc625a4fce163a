---------------------------- MODULE MCPorcelain ----------------------------
(* The families of commands for TLC, on the remotes of MCDefaultRepo and    *)
(* the files of MCReleases.                                                *)
EXTENDS Porcelain, MCDefaultRepo, MCReleases
=============================================================================
