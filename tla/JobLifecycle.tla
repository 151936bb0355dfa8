---------------------------- MODULE JobLifecycle ----------------------------
(***************************************************************************)
(* The life of AGIJobManager jobs in agent/state/jobs/<id>.json.  One       *)
(* process, the agent, recovers (agent/recovery.js) and then runs the cycle *)
(* of agent/orchestrator.js for ever: discover, evaluate, apply, confirm,   *)
(* execute, validate, submit, reconcile.  A stage lists the jobs it is for, *)
(* and takes them one by one; most stages claim a job under an idempotency  *)
(* key before they work.  The operator drives some jobs by command-line     *)
(* tools instead (run_execute_job, stage_storage, build_completion_package),*)
(* which write the same files from processes of their own.                  *)
(*                                                                          *)
(* One update of a job's file is one step here; ProcStateFile looks inside  *)
(* such an update.  The claims of evaluate, apply, confirm and reconcile    *)
(* are keyed by the time of the last update, which every claim changes, so  *)
(* they stop nobody and are left out.                                       *)
(***************************************************************************)
EXTENDS JobStatus, FiniteSets

CONSTANTS
    Jobs,        \* the jobs on the market
    None,        \* no job
    Seeded,      \* jobs that seed_review_pending_fixture.js may have put up for review
    Viable,      \* jobs evaluateJobStrategy wants
    Defects,     \* what stops this commit's pipeline early: "ids", "schema", "retrieval"
    MaxActive,   \* CONFIG.MAX_ACTIVE_JOBS
    MaxCrashes,  \* bound: deaths of the agent
    MaxCalls     \* bound: LLM calls counted for one job

ASSUME JobsAssumption == None \notin Jobs /\ Seeded \subseteq Jobs

ASSUME BoundsAssumption == MaxCrashes \in Nat /\ MaxCalls \in Nat /\ MaxActive \in Nat

VARIABLES
    job,      \* the state files; status "absent" where there is none
    files,    \* the artifacts of each job
    remote,   \* what the job's contract says
    calls,    \* LLM calls made for each job
    agent,    \* the agent: its stage, its place in it, the listed jobs, the job in hand
    tool,     \* the tool that runs: its name, its job, the status it has read
    crashes,  \* deaths of the agent so far
    byHand    \* the jobs the operator uses the tools on; never changes

vars == <<job, files, remote, calls, agent, tool, crashes, byHand>>

(* A claim of the validate stage names the artifact, the upload and whether *)
(* PINATA_JWT is configured; one of submit the two reports.                 *)
ValidateKey == [exec : BOOLEAN, published : BOOLEAN, pin : BOOLEAN]
SubmitKey   == [exec : BOOLEAN, reported : BOOLEAN]

Tx == {"none", "submitted", "finalized"}

JobState ==
    [status       : Status \cup {"absent"},
     exec         : BOOLEAN,    \* artifactPath, briefPath and the execute stage's other paths
     published    : BOOLEAN,    \* deliverableIpfs
     reported     : BOOLEAN,    \* publicationValidationPath
     packaged     : BOOLEAN,    \* unsignedCompletionPath and signingManifestPath
     uri          : BOOLEAN,    \* statusMetadata.jobCompletionUri
     applyTx      : Tx,         \* operatorTx.apply
     completionTx : Tx,         \* operatorTx.completion
     executeClaim : {"none", "agent", "tool"},
     validateClaim : {{}} \cup {{k} : k \in ValidateKey},
     submitClaim  : {{}} \cup {{k} : k \in SubmitKey},
     storageClaim : BOOLEAN]

EmptyJob(status) ==
    [status |-> status, exec |-> FALSE, published |-> FALSE, reported |-> FALSE,
     packaged |-> FALSE, uri |-> FALSE, applyTx |-> "none", completionTx |-> "none",
     executeClaim |-> "none", validateClaim |-> {}, submitClaim |-> {},
     storageClaim |-> FALSE]

(* "verified" and "unheeded" tell what the report on the publication says:   *)
(* that it verifies, or that it does not (or not yet) while the job's status *)
(* has not followed.                                                         *)
Artifact ==
    {"decision", "unsignedApply", "brief", "deliverable", "verified", "unheeded", "completion",
     "unsignedCompletion", "manifest", "bundle", "bundlePublished", "package"}

Remote == {"open", "ours", "others", "submitted", "completed", "closed"}

Pipeline == {"recover", "discover", "evaluate", "apply", "confirm", "execute", "validate",
             "submit", "reconcile"}

Following ==
    [recover |-> "discover", discover |-> "evaluate", evaluate |-> "apply", apply |-> "confirm",
     confirm |-> "execute", execute |-> "validate", validate |-> "submit",
     submit |-> "reconcile", reconcile |-> "discover"]

Agent == [stage : Pipeline \cup {"down"}, at : {"list", "pick", "review", "call", "deliver",
                                                "verify", "defer", "refuse", "accept",
                                                "package", "record"},
          todo : SUBSET Jobs, cur : Jobs \cup {None}, pin : BOOLEAN]

Tool == [name : {"idle", "execute", "stage", "package"}, job : Jobs \cup {None},
         seen : Status \cup {"absent"}]

Down == [stage |-> "down", at |-> "list", todo |-> {}, cur |-> None, pin |-> FALSE]
Idle == [name |-> "idle", job |-> None, seen |-> "absent"]

---------------------------------------------------------------------------
(* The agent's moves inside a cycle. *)

Taken(stage) ==
    CASE stage = "recover"   -> {"working", "deliverable_ready", "completion_pending_review"}
      [] stage = "evaluate"  -> {"queued"}
      [] stage = "apply"     -> {"scored"}
      [] stage = "confirm"   -> {"application_pending_review", "assignment_pending", "applied"}
      [] stage = "execute"   -> {"assigned"}
      [] stage = "validate"  -> {"deliverable_ready", "publication_pending"}
      [] stage = "submit"    -> {"deliverable_ready"}
      [] stage = "reconcile" -> {"completion_pending_review"}
      [] OTHER               -> {}

Active == {"queued", "scored", "assignment_pending", "assigned", "working", "deliverable_ready",
           "publication_pending", "completion_pending_review"}

MarketFull == Cardinality({j \in Jobs : job[j].status \in Active}) >= MaxActive

(* Mutant: reconcile polls every job it has on file. *)
ListedUnfiltered(stage) ==
    IF stage = "discover"
    THEN IF MarketFull THEN {} ELSE Jobs
    ELSE {j \in Jobs : stage # "reconcile" => job[j].status \in Taken(stage)}

(* What a stage lists: listAllJobStates and the stage's filter. *)
Listed(stage) ==
    IF stage = "discover"
    THEN IF MarketFull THEN {} ELSE Jobs
    ELSE {j \in Jobs : /\ job[j].status \in Taken(stage)
                       /\ stage = "submit" => job[j].published}

(* An error a stage does not catch rejects the cycle, and the next one      *)
(* starts over; uncaught in recover it ends the process.                    *)
Aborted == agent' = IF agent.stage = "recover" THEN Down
                    ELSE [agent EXCEPT !.stage = "discover", !.at = "list", !.todo = {},
                                       !.cur = None]

DoneWith(j) == agent' = [agent EXCEPT !.at = "pick", !.todo = @ \ {j}, !.cur = None]

GoOn(j, place) == agent' = [agent EXCEPT !.at = place, !.cur = j]

Picks(stage, j) == agent.stage = stage /\ agent.at = "pick" /\ j \in agent.todo

At(stage, place, j) == agent.stage = stage /\ agent.at = place /\ agent.cur = j

(* setJobState with a status: refused when the table lacks the move.        *)
Admits(j, status) == status = job[j].status \/ IsValidJobTransition(job[j].status, status)

(* setJobState where an error rejects the cycle. *)
Set(j, new) ==
    IF Admits(j, new.status)
    THEN job' = [job EXCEPT ![j] = new] /\ DoneWith(j)
    ELSE job' = job /\ Aborted

Fail(j) == Set(j, [job[j] EXCEPT !.status = "failed"])

(* setJobState inside a try whose catch marks the job failed. *)
SetOrFail(j, new) == IF Admits(j, new.status) THEN Set(j, new) ELSE Fail(j)

Skip(j) == job' = job /\ DoneWith(j)

Answers == "ids" \notin Defects

---------------------------------------------------------------------------
(* The agent's process. *)

Init ==
    /\ \E seeded \in SUBSET Seeded :
          /\ job = [j \in Jobs |-> EmptyJob(IF j \in seeded THEN "review_pending" ELSE "absent")]
          /\ files = [j \in Jobs |-> IF j \in seeded THEN {"decision"} ELSE {}]
    /\ remote \in [Jobs -> {"open", "ours"}]
    /\ calls = [j \in Jobs |-> 0]
    /\ agent = Down
    /\ tool = Idle
    /\ crashes = 0
    /\ byHand \in SUBSET Jobs

Start ==
    /\ agent.stage = "down"
    /\ \E pin \in BOOLEAN : agent' = [Down EXCEPT !.stage = "recover", !.pin = pin]
    /\ UNCHANGED <<job, files, remote, calls, tool, crashes, byHand>>

Crash ==
    /\ agent.stage # "down" /\ crashes < MaxCrashes
    /\ agent' = Down
    /\ crashes' = crashes + 1
    /\ UNCHANGED <<job, files, remote, calls, tool, byHand>>

(* A stage begins: submit insists on PINATA_JWT before it looks for work.   *)
List ==
    /\ agent.stage # "down" /\ agent.at = "list"
    /\ IF agent.stage = "submit" /\ ~agent.pin
       THEN Aborted
       ELSE agent' = [agent EXCEPT !.at = "pick", !.todo = Listed(agent.stage)]
    /\ UNCHANGED <<job, files, remote, calls, tool, crashes, byHand>>

EndStage ==
    /\ agent.stage # "down" /\ agent.at = "pick" /\ agent.todo = {}
    /\ agent' = [agent EXCEPT !.at = "list", !.stage = Following[agent.stage]]
    /\ UNCHANGED <<job, files, remote, calls, tool, crashes, byHand>>

(* Where recover would take a job. *)
Recovered(j) ==
    CASE job[j].status = "working" -> "assigned"
      [] /\ job[j].status = "deliverable_ready"
         /\ ~(job[j].exec /\ {"brief", "deliverable"} \subseteq files[j]) -> "working"
      [] /\ job[j].status = "completion_pending_review"
         /\ ~(job[j].packaged /\ {"manifest", "unsignedCompletion"} \subseteq files[j])
                                  -> "deliverable_ready"
      [] OTHER -> job[j].status

Recover(j) ==
    /\ Picks("recover", j)
    /\ Set(j, [job[j] EXCEPT !.status = Recovered(j)])
    /\ UNCHANGED <<files, remote, calls, tool, crashes, byHand>>

---------------------------------------------------------------------------
(* discover, evaluate, apply, confirm *)

(* A job already tracked, of no interest, or that get_job fails for. *)
DiscoverNothing(j) == Picks("discover", j) /\ Skip(j)

(* A job assigned to this agent enters as assigned; a state file that does  *)
(* not exist yet counts as queued.                                          *)
DiscoverAssigned(j) ==
    /\ Picks("discover", j)
    /\ job[j].status = "absent" /\ remote[j] = "ours"
    /\ IF IsValidJobTransition("queued", "assigned")
       THEN job' = [job EXCEPT ![j] = EmptyJob("assigned")] /\ DoneWith(j)
       ELSE job' = job /\ Aborted

DiscoverOpen(j) ==
    /\ Picks("discover", j)
    /\ job[j].status = "absent" /\ remote[j] = "open"
    /\ job' = [job EXCEPT ![j] = EmptyJob("queued")]
    /\ GoOn(j, "review")

Discover(j) ==
    /\ DiscoverNothing(j) \/ DiscoverAssigned(j) \/ DiscoverOpen(j)
    /\ UNCHANGED <<files, remote, calls, tool, crashes, byHand>>

(* The decision and the review packet are written, then the status moves.   *)
Review(j) ==
    /\ At("discover", "review", j)
    /\ files' = [files EXCEPT ![j] = @ \cup {"decision"}]
    /\ Set(j, [job[j] EXCEPT !.status = "review_pending"])
    /\ UNCHANGED <<remote, calls, tool, crashes, byHand>>

Evaluate(j) ==
    /\ Picks("evaluate", j)
    /\ Set(j, [job[j] EXCEPT !.status = IF j \in Viable THEN "scored" ELSE "failed"])
    /\ UNCHANGED <<files, remote, calls, tool, crashes, byHand>>

(* Only the best of the scored jobs is applied for in a cycle. *)
Apply(j) ==
    /\ Picks("apply", j)
    /\ \/ Aborted /\ UNCHANGED <<job, files>>
       \/ /\ Answers /\ Admits(j, "application_pending_review")
          /\ files' = [files EXCEPT ![j] = @ \cup {"unsignedApply"}]
          /\ job' = [job EXCEPT ![j].status = "application_pending_review"]
          /\ agent' = [agent EXCEPT !.todo = {}]
    /\ UNCHANGED <<remote, calls, tool, crashes, byHand>>

(* ingestFinalizedJobReceipt: a recorded transaction that is final by now.  *)
Ingests(tx) == tx # "none"

(* Mutant: the contract's word is enough. *)
ConfirmUnreceipted(j) ==
    /\ Picks("confirm", j)
    /\ \/ Skip(j)
       \/ Answers /\ remote[j] = "ours" /\ Set(j, [job[j] EXCEPT !.status = "assigned"])
       \/ Answers /\ remote[j] \in {"closed", "completed"} /\ Fail(j)
    /\ UNCHANGED <<files, remote, calls, tool, crashes, byHand>>

Confirm(j) ==
    /\ Picks("confirm", j)
    /\ \/ Skip(j)
       \/ Answers /\ job[j].applyTx # "none" /\ Aborted /\ job' = job
       \/ /\ Answers /\ remote[j] = "ours"
          /\ Set(j, [job[j] EXCEPT !.status = "assignment_pending"])
       \/ /\ Answers /\ remote[j] = "ours" /\ Ingests(job[j].applyTx)
          /\ Set(j, [job[j] EXCEPT !.status = "assigned", !.applyTx = "finalized"])
       \/ Answers /\ remote[j] \in {"closed", "completed"} /\ Fail(j)
    /\ UNCHANGED <<files, remote, calls, tool, crashes, byHand>>

---------------------------------------------------------------------------
(* execute, validate, submit, reconcile *)

(* Mutant: the claim is taken and not looked at. *)
ExecuteClaimAnyway(j) ==
    /\ Picks("execute", j)
    /\ job' = [job EXCEPT ![j].executeClaim = "agent"] /\ GoOn(j, "call")
    /\ UNCHANGED <<files, remote, calls, tool, crashes, byHand>>

ExecuteClaim(j) ==
    /\ Picks("execute", j)
    /\ IF job[j].executeClaim = "agent"
       THEN Skip(j)
       ELSE job' = [job EXCEPT ![j].executeClaim = "agent"] /\ GoOn(j, "call")
    /\ UNCHANGED <<files, remote, calls, tool, crashes, byHand>>

(* Mutant: the status moves before the deliverable is written. *)
ExecuteCallAhead(j) ==
    /\ At("execute", "call", j) /\ calls[j] < MaxCalls
    /\ files' = [files EXCEPT ![j] = @ \cup {"brief"}]
    /\ calls' = [calls EXCEPT ![j] = @ + 1]
    /\ \/ Fail(j)
       \/ /\ job' = [job EXCEPT ![j].status = "deliverable_ready", ![j].exec = TRUE]
          /\ GoOn(j, "deliver")
    /\ UNCHANGED <<remote, tool, crashes, byHand>>

(* The brief is written, the model is called, its output is validated. *)
ExecuteCall(j) ==
    /\ At("execute", "call", j) /\ calls[j] < MaxCalls
    /\ files' = [files EXCEPT ![j] = @ \cup {"brief"}]
    /\ calls' = [calls EXCEPT ![j] = @ + 1]
    /\ \/ Fail(j)
       \/ job' = job /\ GoOn(j, "deliver")
    /\ UNCHANGED <<remote, tool, crashes, byHand>>

ExecuteDeliver(j) ==
    /\ At("execute", "deliver", j)
    /\ files' = [files EXCEPT ![j] = @ \cup {"deliverable"}]
    /\ SetOrFail(j, [job[j] EXCEPT !.status = "deliverable_ready", !.exec = TRUE])
    /\ UNCHANGED <<remote, calls, tool, crashes, byHand>>

KeyOfValidate(j) == [exec |-> job[j].exec, published |-> job[j].published, pin |-> agent.pin]

ValidateClaim(j) ==
    /\ Picks("validate", j)
    /\ IF job[j].validateClaim = {KeyOfValidate(j)}
       THEN Skip(j)
       ELSE /\ job' = [job EXCEPT ![j].validateClaim = {KeyOfValidate(j)}]
            /\ GoOn(j, "call")
    /\ UNCHANGED <<files, remote, calls, tool, crashes, byHand>>

(* A report that refuses the publication, or defers it, is written. *)
ReportsAgainst(j) == files' = [files EXCEPT ![j] = (@ \ {"verified"}) \cup {"unheeded"}]

(* Without PINATA_JWT a report that nothing is verified; with it the upload,*)
(* unless there is one.                                                     *)
ValidateCall(j) ==
    /\ At("validate", "call", j)
    /\ IF agent.pin /\ job[j].published
       THEN UNCHANGED <<job, files>> /\ GoOn(j, "verify")
       ELSE IF "deliverable" \notin files[j]
       THEN files' = files /\ Fail(j)
       ELSE IF ~agent.pin
       THEN job' = job /\ ReportsAgainst(j) /\ GoOn(j, "defer")
       ELSE /\ files' = files
            /\ \/ Fail(j)
               \/ job' = [job EXCEPT ![j].published = TRUE] /\ GoOn(j, "verify")
    /\ UNCHANGED <<remote, calls, tool, crashes, byHand>>

(* The publication is fetched back and the report written, which the status *)
(* follows in a step of its own; an error on the way fails the job.         *)
ValidateVerify(j) ==
    /\ At("validate", "verify", j)
    /\ \/ files' = files /\ Fail(j)
       \/ /\ "deliverable" \in files[j]
          /\ job' = job
          /\ \/ ReportsAgainst(j) /\ GoOn(j, "refuse")
             \/ /\ files' = [files EXCEPT ![j] = (@ \ {"unheeded"}) \cup {"verified"}]
                /\ GoOn(j, "accept")
    /\ UNCHANGED <<remote, calls, tool, crashes, byHand>>

ValidateDefer(j) ==
    /\ At("validate", "defer", j)
    /\ files' = [files EXCEPT ![j] = @ \ {"unheeded"}]
    /\ SetOrFail(j, [job[j] EXCEPT !.status = "publication_pending", !.reported = TRUE])
    /\ UNCHANGED <<remote, calls, tool, crashes, byHand>>

ValidateRefuse(j) ==
    /\ At("validate", "refuse", j)
    /\ files' = [files EXCEPT ![j] = @ \ {"unheeded"}]
    /\ Set(j, [job[j] EXCEPT !.status = "failed", !.reported = TRUE])
    /\ UNCHANGED <<remote, calls, tool, crashes, byHand>>

ValidateAccept(j) ==
    /\ At("validate", "accept", j)
    /\ SetOrFail(j, [job[j] EXCEPT !.status = "deliverable_ready", !.reported = TRUE])
    /\ UNCHANGED <<files, remote, calls, tool, crashes, byHand>>

KeyOfSubmit(j) == [exec |-> job[j].exec, reported |-> job[j].reported]

(* A claim of other inputs goes ahead unless the receipt of the completion   *)
(* is final; submit.js looks for that receipt under a name that nothing      *)
(* binds, so it never is.                                                    *)
SubmitClaim(j) ==
    /\ Picks("submit", j)
    /\ IF job[j].submitClaim = {KeyOfSubmit(j)}
       THEN Skip(j)
       ELSE /\ job' = [job EXCEPT ![j].submitClaim = {KeyOfSubmit(j)}]
            /\ GoOn(j, "package")
    /\ UNCHANGED <<files, remote, calls, tool, crashes, byHand>>

(* Mutant: the report on the publication is not among the required ones. *)
BundleReadyUnreported(j) == /\ job[j].exec
                            /\ {"brief", "deliverable"} \subseteq files[j]
                            /\ "schema" \notin Defects

(* assertArtifactBundleReady: the paths, the files, and their schema field. *)
BundleReady(j) == /\ job[j].exec /\ job[j].reported
                  /\ {"brief", "deliverable"} \subseteq files[j]
                  /\ "schema" \notin Defects

SubmitFiles == << {}, {"completion"}, {"completion", "unsignedCompletion"},
                  {"completion", "unsignedCompletion", "manifest"} >>

(* The writes of submit in order; any call between them may fail the job.   *)
SubmitPackage(j) ==
    /\ At("submit", "package", j)
    /\ \/ \E n \in 1..4 : /\ n > 1 => BundleReady(j)
                          /\ files' = [files EXCEPT ![j] = @ \cup SubmitFiles[n]]
                          /\ Fail(j)
       \/ /\ BundleReady(j) /\ Answers /\ "retrieval" \notin Defects
          /\ files' = [files EXCEPT ![j] = @ \cup SubmitFiles[4]]
          /\ job' = job /\ GoOn(j, "record")
    /\ UNCHANGED <<remote, calls, tool, crashes, byHand>>

SubmitRecord(j) ==
    /\ At("submit", "record", j)
    /\ SetOrFail(j, [job[j] EXCEPT !.status = "completion_pending_review", !.packaged = TRUE])
    /\ UNCHANGED <<files, remote, calls, tool, crashes, byHand>>

(* A move the table lacks is an error, which this stage logs and forgets;   *)
(* the receipt it has bound before stays.                                   *)
Reconciled(j, status, new) ==
    /\ job' = [job EXCEPT ![j] = [new EXCEPT !.status = IF Admits(j, status) THEN status ELSE @]]
    /\ DoneWith(j)

Reconcile(j) ==
    /\ Picks("reconcile", j)
    /\ \/ Skip(j)
       \/ /\ Answers /\ remote[j] \in {"submitted", "completed"} /\ Ingests(job[j].completionTx)
          /\ Reconciled(j, remote[j], [job[j] EXCEPT !.completionTx = "finalized"])
       \/ Answers /\ remote[j] = "closed" /\ Reconciled(j, "failed", job[j])
    /\ UNCHANGED <<files, remote, calls, tool, crashes, byHand>>

---------------------------------------------------------------------------
(* The operator's tools.  A tool reads the status, claims its stage unless  *)
(* it is forced, works, and sets the status; it may be killed in between.   *)

Runs(name, j) == tool' = [name |-> name, job |-> j, seen |-> job[j].status]

Finishes(name, j) == tool.name = name /\ tool.job = j /\ tool' = Idle

(* setJobState of a tool: where it is refused the process ends.             *)
ToolSets(j, new) ==
    job' = IF Admits(j, new.status) THEN [job EXCEPT ![j] = new] ELSE job

Approve(j) ==
    /\ tool = Idle
    /\ job[j].status = "review_pending" /\ "decision" \in files[j]
    /\ job' = [job EXCEPT ![j].status = "apply_ready"]
    /\ files' = [files EXCEPT ![j] = @ \cup {"unsignedApply"}]
    /\ UNCHANGED <<remote, calls, agent, tool, crashes, byHand>>

BeginExecute(j, force) ==
    /\ tool = Idle
    /\ \/ job[j].status \in {"apply_ready", "deliverable_ready", "assigned"}
       \/ force /\ job[j].status \in {"completion_package_ready", "storage_verified"}
    /\ "decision" \in files[j]
    /\ job[j].status = "apply_ready" => "unsignedApply" \in files[j]
    /\ IF force THEN job' = job
       ELSE /\ job[j].executeClaim # "tool"
            /\ job' = [job EXCEPT ![j].executeClaim = "tool"]
    /\ Runs("execute", j)
    /\ UNCHANGED <<files, remote, calls, agent, crashes, byHand>>

EndExecute(j) ==
    /\ Finishes("execute", j)
    /\ files' = [files EXCEPT ![j] = @ \cup {"bundle", "completion"}]
    /\ IF Admits(j, "deliverable_ready")
       THEN job' = [job EXCEPT ![j].status = "deliverable_ready", ![j].uri = FALSE]
       ELSE ToolSets(j, [job[j] EXCEPT !.status = "failed"])
    /\ UNCHANGED <<remote, calls, agent, crashes, byHand>>

(* publish: PINATA_JWT and IPFS_PUBLISH_ENABLED are set. *)
BeginStage(j, force, publish) ==
    /\ tool = Idle
    /\ \/ job[j].status = "deliverable_ready" /\ (force \/ ~job[j].storageClaim)
       \/ job[j].status = "storage_pending" /\ (force \/ publish)
    /\ job' = IF force THEN job ELSE [job EXCEPT ![j].storageClaim = TRUE]
    /\ Runs("stage", j)
    /\ UNCHANGED <<files, remote, calls, agent, crashes, byHand>>

(* Missing files, a hash that differs or a failed upload end it early; so   *)
(* does a publication that cannot be fetched back.                          *)
EndStageTool(j) ==
    /\ Finishes("stage", j)
    /\ \/ UNCHANGED <<job, files>>
       \/ job' = job /\ files' = [files EXCEPT ![j] = @ \ {"bundlePublished"}]
       \/ /\ "bundle" \in files[j] /\ tool.seen # "storage_pending"
          /\ ToolSets(j, [job[j] EXCEPT !.status = "storage_pending", !.uri = FALSE])
          /\ files' = files
       \/ /\ "bundle" \in files[j]
          /\ ToolSets(j, [job[j] EXCEPT !.status = "storage_verified", !.uri = TRUE])
          /\ files' = [files EXCEPT ![j] = @ \cup {"bundlePublished"}]
    /\ UNCHANGED <<remote, calls, agent, crashes, byHand>>

BeginPackage(j, force) ==
    /\ tool = Idle
    /\ \/ job[j].status = "storage_verified"
       \/ force /\ job[j].status = "completion_package_ready"
    /\ {"completion", "bundlePublished"} \subseteq files[j] /\ job[j].uri
    /\ force \/ "package" \notin files[j]
    /\ Runs("package", j)
    /\ UNCHANGED <<job, files, remote, calls, agent, crashes, byHand>>

EndPackage(j) ==
    /\ Finishes("package", j)
    /\ files' = [files EXCEPT ![j] = @ \cup {"package"}]
    /\ ToolSets(j, [job[j] EXCEPT !.status = "completion_package_ready"])
    /\ UNCHANGED <<remote, calls, agent, crashes, byHand>>

(* The writes of each tool, in order, before it sets the status. *)
ToolWrites == [idle    |-> {},
               execute |-> {{}, {"completion"}, {"completion", "bundle"}},
               stage   |-> {{}, {"bundlePublished"}},
               package |-> {{}, {"package"}}]

ToolKilled ==
    /\ tool # Idle
    /\ \E written \in ToolWrites[tool.name] :
          /\ "bundlePublished" \in written => "bundle" \in files[tool.job]
          /\ files' = [files EXCEPT ![tool.job] = @ \cup written]
    /\ tool' = Idle
    /\ UNCHANGED <<job, remote, calls, agent, crashes, byHand>>

UseTool(j) ==
    \/ Approve(j)
    \/ \E force \in BOOLEAN : BeginExecute(j, force) \/ BeginPackage(j, force)
    \/ \E force, publish \in BOOLEAN : BeginStage(j, force, publish)
    \/ EndExecute(j) \/ EndStageTool(j) \/ EndPackage(j)

---------------------------------------------------------------------------
(* The operator's transactions, the contract, and retention. *)

RecordTx(j) ==
    /\ job[j].status # "absent"
    /\ \/ /\ "unsignedApply" \in files[j] /\ job[j].applyTx = "none"
          /\ job' = [job EXCEPT ![j].applyTx = "submitted"]
       \/ /\ "manifest" \in files[j] /\ job[j].completionTx = "none"
          /\ job' = [job EXCEPT ![j].completionTx = "submitted"]
    /\ UNCHANGED <<files, remote, calls, agent, tool, crashes, byHand>>

RemoteMoves(j) ==
    /\ \E r \in Remote :
          /\ \/ remote[j] = "open" /\ r \in {"others", "closed"}
             \/ remote[j] = "open" /\ r = "ours" /\ "unsignedApply" \in files[j]
             \/ remote[j] = "ours" /\ r = "closed"
             \/ remote[j] = "ours" /\ r = "submitted" /\ "manifest" \in files[j]
             \/ remote[j] = "submitted" /\ r \in {"completed", "closed"}
          /\ remote' = [remote EXCEPT ![j] = r]
    /\ UNCHANGED <<job, files, calls, agent, tool, crashes, byHand>>

Retained == {"failed", "submitted", "completed", "expired", "disputed"}

(* pruneStateFiles, between two cycles: a terminal job's file is old enough.*)
Prune(j) ==
    /\ agent.stage = "discover" /\ agent.at = "list" /\ tool = Idle
    /\ job[j].status \in Retained
    /\ job' = [job EXCEPT ![j] = EmptyJob("absent")]
    /\ UNCHANGED <<files, remote, calls, agent, tool, crashes, byHand>>

AgentWorks ==
    \/ List \/ EndStage
    \/ \E j \in Jobs :
          \/ Recover(j) \/ Discover(j) \/ Review(j) \/ Evaluate(j) \/ Apply(j) \/ Confirm(j)
          \/ ExecuteClaim(j) \/ ExecuteCall(j) \/ ExecuteDeliver(j)
          \/ ValidateClaim(j) \/ ValidateCall(j) \/ ValidateVerify(j)
          \/ ValidateDefer(j) \/ ValidateRefuse(j) \/ ValidateAccept(j)
          \/ SubmitClaim(j) \/ SubmitPackage(j) \/ SubmitRecord(j) \/ Reconcile(j)

Next ==
    \/ Start \/ Crash \/ AgentWorks \/ ToolKilled
    \/ \E j \in byHand : UseTool(j)
    \/ \E j \in Jobs : RecordTx(j) \/ RemoteMoves(j) \/ Prune(j)

Spec == Init /\ [][Next]_vars

---------------------------------------------------------------------------
(* Properties. *)

(* Type correctness: in particular a job holds one claim of a stage at most. *)
TypeOK ==
    /\ job \in [Jobs -> JobState]
    /\ files \in [Jobs -> SUBSET Artifact]
    /\ remote \in [Jobs -> Remote]
    /\ calls \in [Jobs -> 0..MaxCalls]
    /\ agent \in Agent
    /\ tool \in Tool
    /\ crashes \in 0..MaxCrashes
    /\ byHand \subseteq Jobs

(* The model is called once for a job, whatever crashes and restarts there  *)
(* are: a call is claimed first, and the claim outlives the process         *)
(* (execute.js).  Not for jobs that run_execute_job shares: it overwrites   *)
(* the claim.                                                               *)
OneCallPerJob == \A j \in Jobs \ byHand : calls[j] <= 1

(* A status past execution has something delivered on disk, whether the     *)
(* agent or run_execute_job set it (execute.js, run_execute_job.js).        *)
PastExecution == {"deliverable_ready", "publication_pending", "completion_pending_review",
                  "submitted", "completed", "storage_pending", "storage_verified",
                  "completion_package_ready"}

ArtifactFirst ==
    \A j \in Jobs : job[j].status \in PastExecution =>
        "deliverable" \in files[j] \/ "bundle" \in files[j]

(* A job waits for the operator's signature only with its package complete:  *)
(* that of the tools with the published bundle (build_completion_package.js),*)
(* the agent's with a verified publication behind it (submit.js).  There is  *)
(* one way round the verification, and no other: the agent died after the    *)
(* report that the publication does not verify was written and before the    *)
(* status followed.  Its successor skips the validation it finds claimed,    *)
(* and submit asks only whether there is a report.                           *)
PackageIsBacked ==
    \A j \in Jobs :
        /\ /\ j \notin byHand
           /\ job[j].status \in {"completion_pending_review", "submitted", "completed"}
           => /\ {"manifest", "unsignedCompletion"} \subseteq files[j]
              /\ "verified" \in files[j] \/ "unheeded" \in files[j]
        /\ job[j].status = "completion_package_ready" =>
              {"bundle", "bundlePublished", "package"} \subseteq files[j]

(* A job counts as assigned, and as submitted, only when a finalized        *)
(* transaction of this operator is bound to it, never because the contract  *)
(* says so alone (confirm.js, reconcile-completion.js).                     *)
FromReceipts ==
    \A j \in Jobs :
        /\ job[j].status = "assigned" => job[j].applyTx = "finalized"
        /\ job[j].status = "submitted" => job[j].completionTx = "finalized" /\ job[j].packaged

(* No stage moves a job that has ended, although the table lets a terminal  *)
(* status become any other one (isValidJobTransition) and stages hold lists *)
(* of jobs they read before.  Only retention ends it, by removing the file. *)
TerminalIsFinal ==
    [][\A j \in Jobs \ byHand : job[j].status \in Terminal =>
          job'[j].status \in {job[j].status, "absent"}]_vars

(* What recover would do to a job the table admits: recovery.js says that a *)
(* job whose files are incomplete is reset, and an error would end the      *)
(* process at every start.                                                  *)
RecoverSurvives ==
    \A j \in Jobs : Picks("recover", j) => Admits(j, Recovered(j))
=============================================================================
