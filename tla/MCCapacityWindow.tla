--------------------------- MODULE MCCapacityWindow ---------------------------
(***************************************************************************)
(* CapacityWindow with values for TLC.                                     *)
(***************************************************************************)
EXTENDS CapacityWindow, CapacityPorts

MCUnthrottled == AllPorts \ {Cpp}
MCCountingAccepted == CountingAccepted
MCCountingAttempts == CountingAttempts
MCJava == {Java}
MCCpp == {Cpp}
MCShortSleeps == {Cs, Ts}

MCBothPaces == BOOLEAN
MCUnpaced == {FALSE}
MCPaced == {TRUE}
=============================================================================
