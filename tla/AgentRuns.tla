------------------------------ MODULE AgentRuns ------------------------------
(***************************************************************************)
(* External agents run from mission control (mission-control/server.js,     *)
(* lib/agent-runs.js, lib/agent-connections.js, agent/agent-runner.js,      *)
(* agent/adapters, agent/agent-result-ingest.js): a packet is prepared and  *)
(* submitted, the run is polled, its result taken in or the run cancelled.  *)
(* Every request reads the record of its run, waits for the agent's server   *)
(* and then merges what it learnt into the record as it is by then.         *)
(***************************************************************************)
EXTENDS Naturals, Sequences, FiniteSets, SequencesExt

CONSTANTS
    Absent,
    Requesters,  \* requests that may be under way at once
    Packets,     \* job packets: [job, lane, phase]
    Results,     \* results an agent may give: [job, faults, files]
    AgentStatuses, \* what an agent's server may say of a run
    MaxRuns, MaxCalls  \* bounds: packets submitted, requests made

ASSUME RunAssumption ==
    /\ MaxRuns \in Nat /\ MaxCalls \in Nat
    /\ \A p \in Packets : p.lane \in {"job", "prime"}
    /\ \A r \in Results : r.faults \subseteq {"schema", "path", "hash"}
    /\ \A r \in Results, ok \in BOOLEAN : [of |-> r, ok |-> ok] # Absent

VARIABLES
    connection,  \* the connection record: "absent", "disabled" or "enabled"
    prepared,    \* packets of agent-runs.json
    runs,        \* runs of agent-runs.json, in the order of the file
    inFlight,    \* per request: Absent or [op, packet, run, result]
    runNo, callNo

runVars == <<connection, prepared, runs, inFlight, runNo, callNo>>

RunInit ==
    /\ connection = "absent" /\ prepared = {} /\ runs = <<>>
    /\ inFlight = [c \in Requesters |-> Absent]
    /\ runNo = 0 /\ callNo = 0

---------------------------------------------------------------------------
(* The file of the runs.                                                    *)

(* getRun and updateRun take the first record of an id.                     *)
FirstOf(id) == SelectInSeq(runs, LAMBDA r : r.id = id)

Run(id) == runs[FirstOf(id)]

Merged(record, patch) ==
    [f \in DOMAIN record |-> IF f \in DOMAIN patch THEN patch[f] ELSE record[f]]

(* Mutant: the record read before the wait is merged with the patch.        *)
UpdateRunFromRead(snapshot, patch) ==
    runs' = [runs EXCEPT ![FirstOf(snapshot.id)] = Merged(snapshot, patch)]

(* updateRun: read, merge and write in one step.                            *)
UpdateRun(snapshot, patch) ==
    runs' = [runs EXCEPT ![FirstOf(snapshot.id)] = Merged(@, patch)]

---------------------------------------------------------------------------
(* Ingestion.                                                               *)

(* The required artifacts of a packet: buildLaneArtifactsAndChecks.          *)
RequiredFiles(packet) ==
    IF packet.lane = "prime" THEN {packet.phase} ELSE {"deliverable", "candidate"}

(* What the lane's validateResult asks for: the server passes no phase, and  *)
(* the prime lanes then take "commit".                                       *)
LaneAsks(packet) == IF packet.lane = "prime" THEN {"commit"} ELSE {"deliverable"}

(* The first checks: the schema, the job and each declared path.             *)
Mistakes(packet, result) ==
    (result.faults \ {"hash"}) \cup (IF packet.job = result.job THEN {} ELSE {"jobId"})

(* The inventory is left empty once one of these failed.                     *)
Inventory(packet, result) == IF Mistakes(packet, result) = {} THEN result.files ELSE {}

(* A declared hash is compared with the inventory's, so with none if empty.  *)
IngestErrors(packet, result) ==
    Mistakes(packet, result)
    \cup (IF Inventory(packet, result) = {} THEN {} ELSE result.faults \cap {"hash"})
    \cup ((RequiredFiles(packet) \cup LaneAsks(packet)) \ Inventory(packet, result))

ValidationReport(packet, result) == [of |-> result, ok |-> IngestErrors(packet, result) = {}]

---------------------------------------------------------------------------
(* Connections: createAgentConnection, updateAgentConnection, delete.        *)
ConnectionChanges ==
    /\ callNo < MaxCalls
    /\ \/ connection = "absent" /\ connection' \in {"enabled", "disabled"}
       \/ connection = "enabled" /\ connection' \in {"disabled", "absent"}
       \/ connection = "disabled" /\ connection' \in {"enabled", "absent"}
    /\ callNo' = callNo + 1
    /\ UNCHANGED <<prepared, runs, inFlight, runNo>>

(* POST prepare: a packet of a listed job is built, checked and kept.        *)
PreparePacket(p) ==
    /\ connection # "absent" /\ p \notin prepared
    /\ prepared' = prepared \cup {p}
    /\ UNCHANGED <<connection, runs, inFlight, runNo, callNo>>

Waits(c, request) ==
    /\ inFlight[c] = Absent /\ callNo < MaxCalls
    /\ callNo' = callNo + 1
    /\ inFlight' = [inFlight EXCEPT ![c] = request]
    /\ UNCHANGED <<connection, prepared, runs, runNo>>

(* POST start: a prepared packet comes with the request or from the file.    *)
StartRequest(c) == \E p \in prepared :
    /\ connection = "enabled" /\ runNo < MaxRuns
    /\ Waits(c, [op |-> "start", packet |-> p, run |-> Absent, result |-> Absent])

(* startAgentRun adds the record to the file, and createRun adds it again:   *)
(* with a result if the agent answers at once, with its run id if not.       *)
Started(c) ==
    /\ inFlight[c] # Absent /\ inFlight[c].op = "start" /\ runNo < MaxRuns
    /\ LET record(ext, status, result) ==
              [id |-> runNo + 1, packet |-> inFlight[c].packet, ext |-> ext, status |-> status,
               result |-> result, report |-> Absent]
       IN  \E rec \in {record(TRUE, "submitted", Absent)}
                       \cup {record(FALSE, "completed", r) : r \in Results} :
              runs' = runs \o <<rec, rec>>
    /\ runNo' = runNo + 1
    /\ inFlight' = [inFlight EXCEPT ![c] = Absent]
    /\ UNCHANGED <<connection, prepared, callNo>>

(* GET a run: without a connection or a run id nothing is asked, and the     *)
(* record is written as it is.                                              *)
PollRequest(c) == \E id \in 1..runNo :
    /\ connection # "absent" /\ Run(id).ext
    /\ Waits(c, [op |-> "poll", packet |-> Run(id).packet, run |-> Run(id), result |-> Absent])

(* The poll's answer, or the error it met, becomes the run's status.         *)
Polled(c) ==
    /\ inFlight[c] # Absent /\ inFlight[c].op = "poll"
    /\ \E s \in AgentStatuses \cup {"poll_error"} : UpdateRun(inFlight[c].run, [status |-> s])
    /\ inFlight' = [inFlight EXCEPT ![c] = Absent]
    /\ UNCHANGED <<connection, prepared, runNo, callNo>>

(* POST ingest, with the packet of the job selected by then or the run's own, *)
(* and perhaps with a result, which is then the one taken in.               *)
IngestRequest(c) == \E id \in 1..runNo, p \in prepared, brought \in Results \cup {Absent} :
    /\ connection # "absent"
    /\ Waits(c, [op |-> "ingest", packet |-> p, run |-> Run(id), result |-> brought])

(* fetchAgentRunResult: the result of the record that was read comes first.  *)
Fetched(c) ==
    /\ inFlight[c] # Absent /\ inFlight[c].op = "ingest" /\ inFlight[c].result = Absent
    /\ \E r \in Results :
          /\ inFlight[c].run.result # Absent => r = inFlight[c].run.result
          /\ inFlight' = [inFlight EXCEPT ![c].result = r]
    /\ UNCHANGED <<connection, prepared, runs, runNo, callNo>>

(* ingestAgentResult, whose own awaits (the checks before signing) never     *)
(* fail on the package it has just built.                                   *)
Ingested(c) ==
    /\ inFlight[c] # Absent /\ inFlight[c].op = "ingest" /\ inFlight[c].result # Absent
    /\ LET report == ValidationReport(inFlight[c].packet, inFlight[c].result)
       IN  UpdateRun(inFlight[c].run,
                     [status |-> IF report.ok THEN "ingested" ELSE "ingest_failed",
                      result |-> inFlight[c].result, report |-> report])
    /\ inFlight' = [inFlight EXCEPT ![c] = Absent]
    /\ UNCHANGED <<connection, prepared, runNo, callNo>>

(* POST cancel: an agent that will not cancel leaves the status that was     *)
(* read, whatever it has become.                                            *)
CancelRequest(c) == \E id \in 1..runNo :
    /\ connection # "absent"
    /\ Waits(c, [op |-> "cancel", packet |-> Run(id).packet, run |-> Run(id), result |-> Absent])

Cancelled(c) ==
    /\ inFlight[c] # Absent /\ inFlight[c].op = "cancel"
    /\ \E ok \in BOOLEAN :
          /\ ok => inFlight[c].run.ext
          /\ UpdateRun(inFlight[c].run, [status |-> IF ok THEN "cancelled" ELSE inFlight[c].run.status])
    /\ inFlight' = [inFlight EXCEPT ![c] = Absent]
    /\ UNCHANGED <<connection, prepared, runNo, callNo>>

(* The agent's server fails: the request ends with an error; only a poll     *)
(* leaves a trace (Polled).                                                 *)
CallFails(c) ==
    /\ inFlight[c] # Absent /\ inFlight[c].op \in {"start", "ingest", "cancel"}
    /\ inFlight[c].result = Absent
    /\ inFlight' = [inFlight EXCEPT ![c] = Absent]
    /\ UNCHANGED <<connection, prepared, runs, runNo, callNo>>

RunNext ==
    \/ ConnectionChanges
    \/ \E p \in Packets : PreparePacket(p)
    \/ \E c \in Requesters :
          \/ StartRequest(c) \/ Started(c) \/ PollRequest(c) \/ Polled(c)
          \/ IngestRequest(c) \/ Fetched(c) \/ Ingested(c) \/ CancelRequest(c) \/ Cancelled(c)
          \/ CallFails(c)

RunSpec == RunInit /\ [][RunNext]_runVars

---------------------------------------------------------------------------
(* What was taken in stays: a request that began before the result of a run  *)
(* came in, and ends after it, takes neither the result nor its report from   *)
(* the record, and the report a record holds is about the result it holds     *)
(* (updateRun merges with the record of the moment, ingest writes both).     *)
ReportKept ==
    [][\A i \in DOMAIN runs : runs[i].report # Absent =>
          /\ runs'[i].report # Absent
          /\ runs'[i].report.of = runs'[i].result]_runVars

=============================================================================
