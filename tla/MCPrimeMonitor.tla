--------------------------- MODULE MCPrimeMonitor ---------------------------
(* One monitor whose cycles do not overlap, over a chain that reorganises.   *)
EXTENDS PrimeMonitor

QuietChains == {[b \in 1..5 |-> [hash |-> 0, events |-> {}]]}

(* The interval keeps starting cycles, and no call to the chain hangs. *)
FairMonitor ==
    /\ MonitorSpec
    /\ WF_monitorVars(StartMonitor)
    /\ \A c \in CycleIds : WF_monitorVars(BeginCycle(c)) /\ WF_monitorVars(CycleStep(c))
=============================================================================
