-------------------------- MODULE SubmissionDryRun --------------------------
(***************************************************************************)
(* The dry run an operator makes of a job before signing its completion     *)
(* (validation/contract1-dryrun.js).  It reads the job's state file and its *)
(* artifacts and changes neither: nine steps add checks to a report, and    *)
(* the report passes when no check of it failed.  A report is modelled by   *)
(* the set of its failed checks.                                            *)
(***************************************************************************)
EXTENDS JobLifecycle, Sequences

(* What the dry run finds that JobLifecycle does not keep: the moves on      *)
(* record, the artifacts it asks for besides the two critical ones, what    *)
(* holds of the deliverable's text, and whether the upload's URI is one.    *)
Optional == {"rawSpec", "normalizedSpec", "strategy", "executionValidation",
             "publicationValidation", "publishManifest"}

Quality == {"notEmpty", "minLength", "substantive", "noPlaceholders", "headings",
            "noForbiddenPatterns", "requiredSections", "briefParseable"}

Findings == [history : Seq(Status), optional : SUBSET Optional, text : SUBSET Quality, ipfsUri : BOOLEAN]

Failing(checks, held) == checks \ held

---------------------------------------------------------------------------
(* Steps 1 and 2 end the run when they find nothing to go on with. *)

DryRunStatuses ==
    {"queued", "scored", "application_pending_review", "assigned", "deliverable_ready",
     "completion_pending_review", "submitted"} \cup Terminal

Meaningful == {"assigned", "deliverable_ready", "completion_pending_review"}

HistoryValid(history) ==
    \A n \in 1..(Len(history) - 1) : IsValidJobTransition(history[n], history[n + 1])

JobStateUsable(j, found) == job[j].status \in DryRunStatuses /\ HistoryValid(found.history)

ValidateJobState(j, found) ==
    IF ~JobStateUsable(j, found) THEN {"jobState"}
    ELSE IF job[j].status \in Meaningful THEN {} ELSE {"validationReady"}

Critical == {"brief", "deliverable"}

ValidateArtifacts(j, found) == Failing(Critical, files[j]) \cup Failing(Optional, found.optional)

(* Step 3. A brief that does not parse leaves the sections unchecked.        *)
ValidateContent(found) ==
    IF "notEmpty" \notin found.text THEN {"notEmpty"}
    ELSE Failing(Quality, found.text)
            \ (IF "briefParseable" \in found.text THEN {} ELSE {"requiredSections"})

(* Step 4. *)
ValidatePublication(j, found) ==
    IF ~job[j].published THEN {"hasIpfsUri"} ELSE IF found.ipfsUri THEN {} ELSE {"uriFormat"}

(* Steps 5 and 6: the metadata takes the URI as it is, the transaction only  *)
(* one of IPFS, and then it encodes.                                        *)
WouldBuild(j) == job[j].published /\ job[j].exec

ValidateCompletionMetadata(j) == IF WouldBuild(j) THEN {} ELSE {"prerequisites"}

Encodes(j, found) == WouldBuild(j) /\ found.ipfsUri

(* Step 7: the statuses ahead of a job, each tried as a move from where the  *)
(* job is; a check that fails is named by the status it was to reach.       *)
TransitionMap ==
    [assigned |-> {"deliverable_ready", "completion_pending_review", "submitted", "completed"},
     deliverable_ready |-> {"completion_pending_review", "submitted", "completed"},
     completion_pending_review |-> {"submitted", "completed"},
     submitted |-> {"completed"}]

ValidateTransitions(j) ==
    IF job[j].status \notin DOMAIN TransitionMap THEN {}
    ELSE {to \in TransitionMap[job[j].status] : ~IsValidJobTransition(job[j].status, to)}

(* Steps 8 and 9 look at the transaction just built, which is for the        *)
(* configured contract and chain and for half an hour to come; without one  *)
(* they check nothing.                                                      *)
PreSignChecks == {"schema", "chainId", "contract", "target", "selector", "notExpired"}

UnsignedPackage(j, found) == IF Encodes(j, found) THEN PreSignChecks ELSE {}

ValidatePreSignChecks(package) == IF package = {} THEN {} ELSE Failing(PreSignChecks, package)

FailedChecks(j, found) ==
    LET state == ValidateJobState(j, found)
        artifacts == ValidateArtifacts(j, found)
    IN  IF "jobState" \in state THEN state
        ELSE IF artifacts \cap Critical # {} THEN state \cup artifacts
        ELSE state \cup artifacts \cup ValidateContent(found) \cup ValidatePublication(j, found)
                \cup ValidateCompletionMetadata(j) \cup ValidateTransitions(j)
                \cup ValidatePreSignChecks(UnsignedPackage(j, found))

Verdict(j, found) == IF FailedChecks(j, found) = {} THEN "DRY_RUN_PASSED" ELSE "DRY_RUN_FAILED"

---------------------------------------------------------------------------
(* Nothing to object to. *)
Sound(j) == [history |-> <<job[j].status>>, optional |-> Optional, text |-> Quality, ipfsUri |-> TRUE]

(* A job that waits for the signature with all its files, whose text nothing *)
(* is wrong with, passes the dry run that is to be made "before signing any *)
(* completion transaction" (validation/README.md), one check of which is    *)
(* that "every step in the expected path is legal".                         *)
PackagedJobPasses ==
    \A j \in Jobs :
        /\ job[j].status = "completion_pending_review" /\ WouldBuild(j) /\ job[j].packaged
        /\ Critical \subseteq files[j]
        => Verdict(j, Sound(j)) = "DRY_RUN_PASSED"
=============================================================================
