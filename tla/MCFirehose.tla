------------------------------ MODULE MCFirehose ------------------------------
(***************************************************************************)
(* Firehose with values for TLC.                                           *)
(***************************************************************************)
EXTENDS Firehose, FirehosePorts

MCPorts == AllPorts
MCPythonShared == {PythonShared}
MCCopyingPorts == {JavaChan, CsChan}
=============================================================================
