------------------------------ MODULE MCIrqmp ------------------------------
(* Small instances of the interrupt controller. *)
EXTENDS Irqmp

\* Line 4 has its broadcast bit at 4 and, in the code, looked up at 5.
MCSources == {4, 17}
MCLevels == {{}, {3}}
MCPendings == {{}, {17}}
MCForces == {{4}}
MCClears == {{4}, {17}}
MCBroadcasts == {{}, {5}}
MCMasks == {Lines, Lines \ {4, 17}}
MCForceSets == {{}, {4}}
MCForceClears == {{}, {4}}
MCEirIds == {17}
=============================================================================
