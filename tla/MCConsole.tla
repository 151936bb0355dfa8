----------------------------- MODULE MCConsole -----------------------------
(***************************************************************************)
(* One instance of the parts of mission control, which share no file: the   *)
(* queue of transactions to sign (OperatorQueue), the scores that a         *)
(* validator's agent and the console prepare (ValidatorScoring), the views  *)
(* of the chain (ChainViews), the runs handed to outside agents (AgentRuns);*)
(* of the operator's browser (BrowserPanels), of the monitor that follows   *)
(* the chain (PrimeMonitor), and of the contents and the archive            *)
(* (PrimeMemory).  part says which one a behaviour is about; the others     *)
(* rest in one initial state.                                               *)
(***************************************************************************)
EXTENDS OperatorQueue, ValidatorScoring, ChainViews, AgentRuns, PrimeMonitor, PrimeMemory, BrowserPanels

VARIABLE part

consoleVars == <<queueVars, vars, viewVars, runVars, monitorVars, memoryVars, browserVars, part>>

Moves == {"assigned", "deliverable_ready", "completion_pending_review"}

(* Scores that are whole points; an adjudication of two decimals also gives *)
(* half points, for which RevealOpens does not hold.                        *)
WholeScores == {140}
OtherScores == {142}
OtherSalts == {9}

TwoPackets == {[job |-> 1, lane |-> "job", phase |-> ""], [job |-> 2, lane |-> "prime", phase |-> "reveal"]}
Answers ==
    {[job |-> 1, faults |-> {}, files |-> {"deliverable", "candidate"}],
     [job |-> 1, faults |-> {"hash"}, files |-> {"deliverable", "candidate"}],
     [job |-> 2, faults |-> {}, files |-> {"reveal"}]}
SaidOfRuns == {"running", "completed"}

(* What an address adds to the monitor (two more scans) and what an active   *)
(* procurement adds (its refresh) do not meet: one of them at a time.        *)

(* When the monitor is first started the chain has five blocks, with an      *)
(* event in the second or none.                                             *)
FiveBlocks(n) == [b \in 1..5 |-> [hash |-> 0, events |-> IF b = n THEN {"created"} ELSE {}]]
OneOrNoEvent == {FiveBlocks(2), FiveBlocks(6)}

(* Each program alone, the console with callers too, and everybody at once;  *)
(* the role of state.json is the one its assignment was set with.           *)
ScoringStarts ==
    /\ writers \in {{"console"}, {"console", "caller"}, {"agent"}, Writers}
    /\ state.role = state.assigned
    /\ "agent" \notin writers => ~state.assigned
    /\ "agent" \in writers => adjudication = None

ScoringRests ==
    writers = {} /\ ~assignedOnChain /\ ~state.assigned /\ ~state.role /\ adjudication = None

(* Two jobs of the first manager, a procurement.                            *)
ThreeJobs == [a |-> "v1", b |-> "v1", d |-> "prime"]

(* Without a model that may be asked, every content is a template.          *)
CloudAndLocal == <<"anthropic", "ollama">>
NoModel == [keys |-> {}, preferred |-> "", ollama |-> FALSE, image |-> FALSE]

(* A stranger's second assignment differs from the first by its lane only,  *)
(* and so does ours.                                                        *)
OneOfEach ==
    /\ onChain["v2"].agent # "other"
    /\ ~ \A lane \in Lanes : onChain[lane].agent = "us"

(* The last package is prepared where nothing else is read and written back: *)
(* without a status request, and while no update of the agent's is under way.*)
LastAlone == prepares = MaxPrepares => agentHolds = NoRecord /\ reads = 0

(* A request for a view takes nothing from the one before: one is enough.    *)
OneView == shown # Missing => reading = NoView

(* A program dies in the behaviours in which it is alone; among others, one  *)
(* that stands still for good has left the same files.  Requests overlap     *)
(* where mission control is alone; with callers one at a time is open, and   *)
(* among all writers these bring scores but no salt.                        *)
OneCall == CHOOSE r \in ScoreCalls : TRUE
ScoringBounds ==
    /\ writers = Writers => deaths = 0 /\ \A r \in ScoreCalls : hold[r] # None => hold[r].salt \notin AskedSalts
    /\ "caller" \in writers => \A r \in ScoreCalls \ {OneCall} : pc[r] = "rest"

MCInit ==
    /\ QueueInit /\ Init /\ ViewInit /\ RunInit /\ MonitorInit /\ MemoryInit /\ BrowserInit
    /\ part \in {"queue", "scoring", "views", "runs", "monitor", "memory", "detail", "wallet", "list"}
    /\ part # "wallet" => chosen = Nobody
    /\ env = NoModel \/ (part = "memory" /\ env.ollama)
    /\ IF part = "scoring" THEN ScoringStarts ELSE ScoringRests
    /\ part # "queue" => job = NoRecord
    /\ IF part = "monitor" THEN addressed <=> procStatus = "NONE"
                           ELSE addressed /\ procStatus = "NONE" /\ blocks = FiveBlocks(6)

MCNext ==
    /\ UNCHANGED part
    /\ \/ part = "queue" /\ QueueNext /\ OneOfEach' /\ LastAlone' /\ UNCHANGED <<vars, viewVars, runVars, monitorVars, memoryVars, browserVars>>
       \/ part = "scoring" /\ Next /\ ScoringBounds' /\ UNCHANGED <<queueVars, viewVars, runVars, monitorVars, memoryVars, browserVars>>
       \/ part = "views" /\ ViewNext /\ OneView' /\ UNCHANGED <<queueVars, vars, runVars, monitorVars, memoryVars, browserVars>>
       \/ part = "runs" /\ RunNext /\ UNCHANGED <<queueVars, vars, viewVars, monitorVars, memoryVars, browserVars>>
       \/ part = "monitor" /\ MonitorNext /\ UNCHANGED <<queueVars, vars, viewVars, runVars, memoryVars, browserVars>>
       \/ part = "memory" /\ MemoryNext /\ UNCHANGED <<queueVars, vars, viewVars, runVars, monitorVars, browserVars>>
       \/ /\ \/ part = "detail" /\ DetailNext /\ UNCHANGED <<walletVars, listVars>>
             \/ part = "wallet" /\ WalletNext /\ UNCHANGED <<detailVars, listVars>>
             \/ part = "list" /\ ListNext /\ UNCHANGED <<detailVars, walletVars>>
          /\ UNCHANGED <<queueVars, vars, viewVars, runVars, monitorVars, memoryVars>>

MCSpec == MCInit /\ [][MCNext]_consoleVars
=============================================================================
