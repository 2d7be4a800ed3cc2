------------------------------ MODULE MCRpcLog ------------------------------
(***************************************************************************)
(* Two tabs, a channel of one record, and rotation at every third line, so *)
(* that four records meet a full channel, two rotations and torn lines.    *)
(***************************************************************************)
EXTENDS RpcLog

MCPartial == {"partial"}
MCInRotation == {"in rotation"}
=============================================================================
