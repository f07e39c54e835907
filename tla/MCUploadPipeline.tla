---------------------------- MODULE MCUploadPipeline ----------------------------
(***************************************************************************)
(* UploadPipeline for TLC: four actions, three of them of the same port,   *)
(* and counters that hold three.                                           *)
(***************************************************************************)
EXTENDS UploadPipeline

MCPorts == <<"a", "b", "a", "a">>
MCItem == 1 .. 4
================================================================================
