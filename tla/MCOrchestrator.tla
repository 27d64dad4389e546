--------------------------- MODULE MCOrchestrator ---------------------------
(* Two equal machines, with absolute limits or limits per hypervisor.        *)
EXTENDS Orchestrator, TLC

CONSTANTS a, b

MCRam == (a :> 3) @@ (b :> 3)

MCAbsolute == [minRAM |-> 2, maxRAM |-> 3, percent |-> 0, margin |-> 0,
               hyperMinRAM |-> 1, hyperMaxRAM |-> 2, deadRowMargin |-> 0]
MCRelative == [minRAM |-> 0, maxRAM |-> 0, percent |-> 100, margin |-> 1,
               hyperMinRAM |-> 1, hyperMaxRAM |-> 1, deadRowMargin |-> 1]
MCPolicies == {MCAbsolute, MCRelative}
=============================================================================
