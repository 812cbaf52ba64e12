-------------------------- MODULE MCScanCollector --------------------------
(***************************************************************************)
(* Instances of ScanCollector for TLC; the bounds are in the cfg files.    *)
(***************************************************************************)
EXTENDS ScanCollector
=============================================================================
