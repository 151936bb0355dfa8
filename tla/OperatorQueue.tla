--------------------------- MODULE OperatorQueue ---------------------------
(***************************************************************************)
(* Mission control's queue of transactions to sign (mission-control/        *)
(* server.js, lib/operator-actions.js).  The console keeps the unsigned     *)
(* packages of a job in the agent's own state file <jobId>.json: requests   *)
(* prepare them, the operator marks them signed, broadcast and finalized,   *)
(* and a status request reconciles the file with the chain.  A request that *)
(* waits for the chain lets every other one run meanwhile, and the agent    *)
(* moves the status in the same file.                                       *)
(***************************************************************************)
EXTENDS FiniteSets, SequencesExt

LOCAL INSTANCE JobStatus

CONSTANTS
    NoRecord,
    Requests,      \* slots for requests that wait for the chain
    AgentMoves,    \* the statuses the agent's loop sets
    DetailsDefined,  \* whether the builder of v1 applications can name its details
    MaxPrepares, MaxMarks, MaxReads  \* bounds on what operator and page ask for

ASSUME QueueAssumption ==
    /\ AgentMoves \subseteq Status
    /\ DetailsDefined \in BOOLEAN
    /\ MaxPrepares \in Nat /\ MaxMarks \in Nat /\ MaxReads \in Nat

VARIABLES
    job,     \* the state file: NoRecord or [lane, status, pkgs, receipts, applied]
    onChain, \* per contract version: the job's agent, and whether completion is requested
    req,     \* per slot: NoRecord, or the request and what it read
    row,     \* the row of the queue the operator has open: an id and the package it showed
    prepares, marks, reads,
    agentHolds  \* what the agent's update has read of the file and will set: [old, next]

queueVars == <<job, onChain, req, row, prepares, marks, reads, agentHolds>>

Lanes == {"v1", "v2"}
Kinds == {"apply", "validate", "dispute"}

Package(kind) == [kind |-> kind, signed |-> FALSE, sent |-> FALSE, final |-> FALSE]

(* What a request's read of the contract may return: an RPC failure leaves   *)
(* context.core null.                                                       *)
Unread == [agent |-> "unread", completion |-> FALSE]

OnChainOpen(view) == view.agent = "none" /\ ~view.completion

---------------------------------------------------------------------------
(* The queue's rows.                                                        *)

(* normalizeActionName searches the action, the entity's status and the      *)
(* file name together, in this order of words; so a status of the job can    *)
(* name its packages.                                                       *)
NormalizedAction(kind, status) ==
    IF kind = "dispute" \/ status = "disputed" THEN "dispute"
    ELSE IF status \in {"completed", "completion_pending_review", "completion_package_ready"}
    THEN "completion"
    ELSE kind

(* Mutant: the id without the package's file.                               *)
ActionIdWithoutFile(file, index) ==
    <<file.lane, NormalizedAction(file.pkgs[index].kind, file.status), index>>

(* buildOperatorActionId: lane, entity, action, file and index; a file is    *)
(* named after the kind of package it holds.                                *)
ActionId(file, index) ==
    <<file.lane, NormalizedAction(file.pkgs[index].kind, file.status), file.pkgs[index].kind, index>>

(* collectOperatorActions: every package has a name and a path.             *)
Rows == IF job = NoRecord THEN {} ELSE DOMAIN job.pkgs

(* findOperatorActionById.                                                  *)
FoundAt(id) == {i \in Rows : ActionId(job, i) = id}

(* GET /api/operator-actions, and the row the operator opens.               *)
OpenRow == \E i \in Rows :
    /\ row' = [id |-> ActionId(job, i), kind |-> job.pkgs[i].kind]
    /\ row' # row
    /\ UNCHANGED <<job, onChain, req, prepares, marks, reads, agentHolds>>

---------------------------------------------------------------------------
(* Marks: one synchronous read, change and write.                           *)

(* mutateOperatorActionState: the id is looked up again and its package      *)
(* changed in the file as it is now.                                        *)
Mutate(Change(_), Entry(_, _)) ==
    /\ row # NoRecord /\ marks < MaxMarks
    /\ \E i \in FoundAt(row.id) :
        LET action == NormalizedAction(job.pkgs[i].kind, job.status)
            changed == [job EXCEPT !.pkgs[i] = Change(@)]
        IN  job' = Entry(changed, action)
    /\ marks' = marks + 1
    /\ UNCHANGED <<onChain, req, row, prepares, reads, agentHolds>>

MarkSigned == Mutate(LAMBDA p : [p EXCEPT !.signed = TRUE], LAMBDA f, a : f)

(* Whatever the receipt said before, it is pending again.                   *)
MarkBroadcast ==
    Mutate(LAMBDA p : [p EXCEPT !.signed = TRUE, !.sent = TRUE],
           LAMBDA f, a : [f EXCEPT !.receipts[a] = "broadcast_pending"])

PastApplication ==
    {"assigned", "working", "deliverable_ready", "completion_pending_review", "submitted",
     "completed", "disputed"}

Finalized(p, hash) == [p EXCEPT !.signed = TRUE, !.sent = @ \/ hash, !.final = TRUE]

(* An application's mark also moves the job's status.                        *)
Booked(file, action) ==
    [file EXCEPT !.receipts[action] = "finalized",
                 !.applied = @ \/ action = "apply",
                 !.status = IF action = "apply" /\ @ \notin PastApplication THEN "applied" ELSE @]

(* mark-finalized, with or without a hash.                                   *)
MarkFinalized == \E hash \in BOOLEAN : Mutate(LAMBDA p : Finalized(p, hash), Booked)

---------------------------------------------------------------------------
(* Preparing packages.                                                      *)

Fresh(lane) == [lane |-> lane, status |-> "", pkgs |-> <<>>, applied |-> FALSE,
                receipts |-> [a \in Kinds \cup {"completion"} |-> "none"]]

FileOr(lane) == IF job = NoRecord THEN Fresh(lane) ELSE job

(* The code filters; of each kind there is one package at most.             *)
Without(pkgs, kind) == RemoveFirstMatch(pkgs, LAMBDA p : p.kind = kind)

(* upsertV1ApplyTxPackage, upsertV2ApplyTxPackage: both write the file of    *)
(* the job's number.  The requests modelled bring the applicant's wallet.    *)
UpsertApply(lane) ==
    [FileOr(lane) EXCEPT !.lane = lane, !.status = "application_pending_review",
                         !.pkgs = Append(Without(@, "apply"), Package("apply"))]

(* upsertExternalValidatorState and its v2 form.                            *)
UpsertValidator(lane) ==
    [FileOr(lane) EXCEPT !.lane = lane,
                         !.status = IF @ = "" THEN "completion_pending_review" ELSE @,
                         !.pkgs = Without(Without(@, "validate"), "dispute")
                                    \o <<Package("validate"), Package("dispute")>>]

AllowedExisting == {"", "queued", "scored", "application_pending_review", "open"}

(* POST /api/job-applications/prepare, up to the read of the job on chain.     *)
PrepareCheck(r, lane) ==
    /\ req[r] = NoRecord /\ prepares < MaxPrepares
    /\ job # NoRecord => job.status \in AllowedExisting
    /\ req' = [req EXCEPT ![r] = [op |-> "prepare", lane |-> lane, old |-> NoRecord, view |-> onChain[lane]]]
    /\ prepares' = prepares + 1
    /\ UNCHANGED <<job, onChain, row, marks, reads, agentHolds>>

Views(r) == {req[r].view, onChain[req[r].lane], Unread}

(* buildUnsignedApplyJobTxPackage reads a `details` that nothing defines at   *)
(* this commit, and throws; buildUnsignedApplyJobV2TxPackage does not.      *)
CanBuild(lane) == lane = "v2" \/ DetailsDefined

(* The rest of it: refused when the job was read and is not open, or when    *)
(* the package cannot be built.                                             *)
PrepareWrite(r) ==
    /\ req[r] # NoRecord /\ req[r].op = "prepare"
    /\ \E view \in Views(r) :
        job' = IF (view = Unread \/ OnChainOpen(view)) /\ CanBuild(req[r].lane)
               THEN UpsertApply(req[r].lane)
               ELSE job
    /\ req' = [req EXCEPT ![r] = NoRecord]
    /\ UNCHANGED <<onChain, row, prepares, marks, reads, agentHolds>>

(* POST /api/validator/v1/prepare: nothing of the file is read before its    *)
(* reads of the chain and of IPFS.                                           *)
ValidatorPrepare(lane) ==
    /\ prepares < MaxPrepares /\ onChain[lane].completion
    /\ job' = UpsertValidator(lane)
    /\ prepares' = prepares + 1
    /\ UNCHANGED <<onChain, req, row, marks, reads, agentHolds>>

(* POST /api/validator/v2/prepare, with the v2 forms of all it calls.        *)
ValidatorPrepareV2 == ValidatorPrepare("v2")

---------------------------------------------------------------------------
(* Reconciling, which every request for the application's status does too.   *)

HasApply(file) == \E i \in DOMAIN file.pkgs : file.pkgs[i].kind = "apply"

ReconcileRead(r, lane) ==
    /\ req[r] = NoRecord /\ job # NoRecord /\ reads < MaxReads
    /\ HasApply(job)
    /\ req' = [req EXCEPT ![r] = [op |-> "reconcile", lane |-> lane, old |-> job, view |-> onChain[lane]]]
    /\ reads' = reads + 1
    /\ UNCHANGED <<job, onChain, row, prepares, marks, agentHolds>>

BeforeAssignment ==
    {"application_pending_review", "applied", "assignment_pending", "queued", "scored"}

HasFinalizedApply(file) ==
    \/ file.applied \/ file.receipts["apply"] = "finalized"
    \/ \E i \in DOMAIN file.pkgs : file.pkgs[i].kind = "apply" /\ file.pkgs[i].final

(* Mutant: any assigned agent counts as the applicant.                      *)
ReconciledAnyAgent(old, view) ==
    IF view.agent \in {"us", "other"} THEN [old EXCEPT !.status = "assigned"] ELSE old

(* reconcileV1ApplyState, reconcileV2ApplyState: the file as it was read,    *)
(* with the status the chain gives it, whatever the status was.               *)
Reconciled(old, view) ==
    IF view.agent = "us" THEN [old EXCEPT !.status = "assigned"]
    ELSE IF HasFinalizedApply(old) /\ old.status \in BeforeAssignment
    THEN [old EXCEPT !.status = "applied"]
    ELSE old

(* Mutant: the packages are rebuilt rather than kept.                       *)
ReconcileWriteRebuilding(r) ==
    /\ req[r] # NoRecord /\ req[r].op = "reconcile"
    /\ job' = [req[r].old EXCEPT !.pkgs = <<Package("apply")>>]
    /\ req' = [req EXCEPT ![r] = NoRecord]
    /\ UNCHANGED <<onChain, row, prepares, marks, reads, agentHolds>>

ReconcileWrite(r) ==
    /\ req[r] # NoRecord /\ req[r].op = "reconcile"
    /\ \E view \in Views(r) : job' = [Reconciled(req[r].old, view) EXCEPT !.lane = req[r].lane]
    /\ req' = [req EXCEPT ![r] = NoRecord]
    /\ UNCHANGED <<onChain, row, prepares, marks, reads, agentHolds>>

---------------------------------------------------------------------------
(* The rest of the world: the agent's loop on the same file, and the chain.    *)

(* setJobState, over a job whose v1 contract the agent reads: it awaits      *)
(* between its read of the file and its write, in a process of its own.  A   *)
(* read an agent dies with is as if it had not been made.                   *)
AgentReads(s) ==
    /\ job # NoRecord /\ agentHolds = NoRecord
    /\ s = job.status \/ IsValidJobTransition(job.status, s)
    /\ s = "assigned" => onChain["v1"].agent = "us"
    /\ agentHolds' = [old |-> job, next |-> s]
    /\ UNCHANGED <<job, onChain, req, row, prepares, marks, reads>>

AgentWrites ==
    /\ agentHolds # NoRecord
    /\ job' = [agentHolds.old EXCEPT !.status = agentHolds.next]
    /\ agentHolds' = NoRecord
    /\ UNCHANGED <<onChain, req, row, prepares, marks, reads>>

ChainAssigns(lane) ==
    /\ onChain[lane].agent = "none"
    /\ \E who \in {"us", "other"} : onChain' = [onChain EXCEPT ![lane].agent = who]
    /\ UNCHANGED <<job, req, row, prepares, marks, reads, agentHolds>>

ChainCompletes(lane) ==
    /\ onChain[lane].agent # "none" /\ ~onChain[lane].completion
    /\ onChain' = [onChain EXCEPT ![lane].completion = TRUE]
    /\ UNCHANGED <<job, req, row, prepares, marks, reads, agentHolds>>

---------------------------------------------------------------------------
QueueInit ==
    /\ job \in {NoRecord, [Fresh("v1") EXCEPT !.status = "scored"]}
    /\ onChain = [lane \in Lanes |-> [agent |-> "none", completion |-> FALSE]]
    /\ req = [r \in Requests |-> NoRecord]
    /\ row = NoRecord
    /\ prepares = 0 /\ marks = 0 /\ reads = 0
    /\ agentHolds = NoRecord

QueueNext ==
    \/ OpenRow \/ MarkSigned \/ MarkBroadcast \/ MarkFinalized
    \/ ValidatorPrepare("v1") \/ ValidatorPrepareV2
    \/ \E lane \in Lanes : ChainAssigns(lane) \/ ChainCompletes(lane)
    \/ \E r \in Requests :
        \/ PrepareWrite(r) \/ ReconcileWrite(r)
        \/ \E lane \in Lanes : PrepareCheck(r, lane) \/ ReconcileRead(r, lane)
    \/ AgentWrites
    \/ \E s \in AgentMoves : AgentReads(s)

QueueSpec == QueueInit /\ [][QueueNext]_queueVars

---------------------------------------------------------------------------
(* The id of the row the operator has open never resolves to a package of    *)
(* another kind, whatever was prepared, reordered or renamed in between: a   *)
(* hash of a dispute is not booked on an application                         *)
(* (buildOperatorActionId, mutateOperatorActionState).                       *)
MarkHitsChosen == row # NoRecord => \A i \in FoundAt(row.id) : job.pkgs[i].kind = row.kind

(* The file calls the job assigned only when one of the contracts has given  *)
(* it to the applicant's wallet (reconcileV1ApplyState, the agent's confirm).*)
AssignedIsOurs ==
    job # NoRecord /\ job.status = "assigned" => \E lane \in Lanes : onChain[lane].agent = "us"

Progress(p) == (IF p.signed THEN 1 ELSE 0) + (IF p.sent THEN 1 ELSE 0) + (IF p.final THEN 1 ELSE 0)

Marked(file, kind) == \E i \in DOMAIN file.pkgs : file.pkgs[i].kind = kind /\ Progress(file.pkgs[i]) > 0

(* What the operator has marked on a package is lost in three ways only: a    *)
(* request prepares that package anew; a reconciliation that read the file   *)
(* before the mark writes it back (reconcileV1ApplyState keeps the file it   *)
(* read over its question to the chain); or an update of the agent's that    *)
(* read the file before the mark does (setJobState, between its awaits).       *)
MarksKept ==
    [][job # NoRecord =>
        \A kind \in Kinds : Marked(job, kind) =>
            \/ Marked(job', kind)
            \/ kind = "apply" /\ \E r \in Requests : PrepareWrite(r)
            \/ kind # "apply" /\ \E lane \in Lanes : ValidatorPrepare(lane)
            \/ \E r \in Requests : ReconcileWrite(r) /\ ~Marked(req[r].old, kind)
            \/ AgentWrites /\ ~Marked(agentHolds.old, kind)]_queueVars

=============================================================================
