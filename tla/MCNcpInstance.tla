--------------------------- MODULE MCNcpInstance ---------------------------
(***************************************************************************)
(* Instances of NcpInstance for TLC.                                       *)
(***************************************************************************)
EXTENDS NcpInstance
=============================================================================
