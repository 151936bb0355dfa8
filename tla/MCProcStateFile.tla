-------------------------- MODULE MCProcStateFile --------------------------
(* Instances of ProcStateFile: the updates are those of the commit phase.    *)
EXTENDS ProcStateFile

Op(k, s, f) == [kind |-> k, status |-> s, fields |-> f]

CallerOps ==
    {Op("create", "KEEP", {}),                              \* monitor: discovery
     Op("set", "KEEP", {"sync"}),                           \* monitor: lastChainSync
     Op("set", "INSPECTED", {}),                            \* orchestrator
     Op("set", "FIT_APPROVED", {}),                         \* operator
     Op("transition", "APPLICATION_DRAFTED", {"material"}), \* orchestrator
     Op("transition", "MISSED_WINDOW", {})}                 \* monitor

OverrideOps == CallerOps \cup {Op("force", "INSPECTED", {})} \* fixture tools

OwnMillisecond  == [w \in Writers |-> {w}]
SameMillisecond == [w \in Writers |-> {"ms"}]
=============================================================================
