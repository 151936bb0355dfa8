------------------------- MODULE MCPrimeProcurement -------------------------
(* Instances of PrimeProcurement: windows of one tick each, one             *)
(* orchestrator process.                                                     *)
EXTENDS PrimeProcurement

CONSTANTS o1

TickWindows == [i \in 1..6 |-> i]

OneOrchestrator == {o1}
=============================================================================
