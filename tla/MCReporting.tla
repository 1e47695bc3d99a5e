---------------------------- MODULE MCReporting ----------------------------
(***************************************************************************)
(* Instances of Reporting for TLC.                                         *)
(***************************************************************************)
EXTENDS Reporting

MCPackets == [no : 1 .. MaxPackets, type : {"keepalive", "data", "secure"},
              about : SUBSET IBeacons]
=============================================================================
