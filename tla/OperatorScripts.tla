-------------------------- MODULE OperatorScripts --------------------------
(***************************************************************************)
(* The scripts an operator runs by hand in agent/: the staged preparation   *)
(* of a Prime commit (review, draft, commit material, publication, package), *)
(* the fixtures, the dry run, and a validator's look at a finished bundle.     *)
(*                                                                          *)
(* A script needs some files, may find that its outputs are there already   *)
(* and leave, and otherwise writes its outputs one after the other and then *)
(* updates the state file.  It may die between any two of those writes, and *)
(* while it writes a file that it does not replace by a rename.  The        *)
(* operator runs one script at a time on a procurement or a job.            *)
(***************************************************************************)
EXTENDS Naturals, Sequences, FiniteSets, SequencesExt

CONSTANTS
    NoFile,
    MaxScriptDeaths, MaxOverwrites   \* bounds on deaths and on runs that overwrite

ASSUME ScriptsAssumption == MaxScriptDeaths \in Nat /\ MaxOverwrites \in Nat

VARIABLES
    written,    \* per file: the run that wrote it and what it says, [run, text]
    script,     \* the script under way: [of, run, fixture, todo, over]
    procState,  \* the status in the procurement's state.json, or NoFile
    queue,      \* per job of the review queue: its status, or NoFile
    jobBundle,  \* what holds of the finished job's bundle
    torn,       \* scripts whose outputs a run has left overwritten in part
    halfway,    \* scripts that died before their last output and did not complete since
    scriptDeaths, overwrites

scriptVars == <<written, script, procState, queue, jobBundle, torn, halfway, scriptDeaths, overwrites>>

---------------------------------------------------------------------------
(* The scripts.  leave: when the outputs found make a run without --force   *)
(* leave them ("all" of them, "any" of them), keep those found ("each"), or *)
(* never ("never").  inPlace: outputs written without a rename.             *)

Staged(needs, outs, leave, inPlace) ==
    [needs |-> needs, outs |-> outs, leave |-> leave, inPlace |-> inPlace]

(* build_prime_candidate_review: the inspection is read and assessed into    *)
(* one packet; the assessment is text for the operator.                     *)
CandidateReview == Staged({}, <<"review_packet">>, "all", {})

(* build_prime_application_draft.                                           *)
Drafted == <<"brief", "evidence", "payload", "app_manifest", "draft_review">>

ApplicationDraft == Staged({"review_packet"}, Drafted, "all", ToSet(Drafted))

(* build_prime_commit_material: four of the five outputs of the draft.      *)
DraftRead == {"brief", "payload", "evidence", "app_manifest"}

CommitMaterial ==
    Staged(DraftRead, <<"commitment_material", "commitment_review", "commitment_manifest">>, "all", {})

(* publish_prime_application, without a storage provider.                   *)
Publication ==
    LET outs == <<"storage_pending", "staging_report">> IN
    Staged(DraftRead \cup {"commitment_material", "commitment_review"}, outs, "each", ToSet(outs))

(* approve_prime_commit_package: the builder's file, then the packet.       *)
CommitPackage ==
    Staged({"commitment_material", "commitment_review", "commitment_manifest"},
          <<"unsigned_commit_tx", "commit_package_review">>, "all", {"commit_package_review"})

(* build_prime_unsigned_tx: a package of constants.  Of its four actions the *)
(* commit is the one whose file another script writes too.                  *)
UnsignedTx == Staged({}, <<"unsigned_commit_tx">>, "never", {})

(* seed_prime_fixture: after the state file.                                *)
SeedPrime ==
    Staged({}, <<"snapshot", "discovery_packet", "brief", "payload", "commitment_material",
                "fit_evaluation", "trial_files">>,
          "never", {"brief", "payload", "commitment_material", "fit_evaluation", "trial_files"})

(* inspect_prime_procurement --write-report.                                *)
Inspection == Staged({}, <<"inspection_report">>, "never", {})

(* seed_review_pending_fixture: after the state file.                       *)
SeedReview == Staged({}, <<"decision", "discovery_review", "spec">>, "never", {})

(* clear_test_review_queue: a marker for each job it then removes.          *)
ClearQueue == Staged({}, <<"marker">>, "never", {"marker"})

(* run_dry_job: job_completion is written twice, the second time after the   *)
(* manifest hashed it.                                                      *)
DryRun ==
    Staged({}, <<"dry_specs", "dry_decision", "dry_plan", "dry_deliverable", "dry_report",
                "dry_completion", "dry_unsigned_tx", "dry_run_manifest", "dry_review",
                "dry_manifest", "dry_completion">>, "never", {})

(* run_validate_completion.                                                 *)
BundleRead == {"job_completion", "artifact_manifest", "validation_report",
               "storage_publish_report", "ipfs_verification", "deliverable"}

ValidateCompletion == Staged(BundleRead, <<"validator_report", "validator_packet">>, "any", {})

(* build_validator_action_package.                                          *)
ActionPackage ==
    Staged({"validator_report", "validator_packet", "completion_review"},
          <<"validator_action_tx", "validator_action_packet">>, "all", {})

ScriptTable ==
    [review |-> CandidateReview, draft |-> ApplicationDraft, material |-> CommitMaterial,
     publish |-> Publication, package |-> CommitPackage, unsigned |-> UnsignedTx,
     seedPrime |-> SeedPrime, inspect |-> Inspection,
     seedReview |-> SeedReview, clear |-> ClearQueue, dryRun |-> DryRun,
     validate |-> ValidateCompletion, action |-> ActionPackage]

PrimeScripts == {"review", "draft", "material", "publish", "package", "unsigned",
                 "seedPrime", "inspect"}
JobScripts == DOMAIN ScriptTable \ PrimeScripts

TestJobs == {"v1_0"}

Outs(s) == ToSet(ScriptTable[s].outs)
Files == BundleRead \cup {"completion_review"} \cup UNION {Outs(s) : s \in DOMAIN ScriptTable}

---------------------------------------------------------------------------
NotWritten == [run |-> <<>>, text |-> "none"]

NoScript == [of |-> "none", run |-> <<>>, fixture |-> FALSE, todo |-> <<>>, over |-> FALSE]

There(f) == written[f].text # "none"
Readable(f) == There(f) /\ written[f].text # "half"
Complete(s) == \A f \in Outs(s) : There(f)

(* The files a script parses; the others it hashes, or asks only whether     *)
(* they are there.                                                          *)
ParsedBy(s) ==
    CASE s = "draft" -> {"review_packet"}
      [] s = "material" -> {"payload"}
      [] s = "package" -> {"commitment_material"}
      [] s = "action" -> {"validator_report", "completion_review"}
      [] OTHER -> {}

(* extractRequiredFields and validateApplicationUriGate: no script leaves a  *)
(* material with all the fields, the operator's own edit does; a live run    *)
(* asks for readyForCommitTx besides, which nothing sets.                   *)
MaterialAccepted(fixture) == fixture /\ written["commitment_material"].text = "filled"

AllChecks == {"schema", "manifest", "passed", "ipfs", "nonEmpty", "noPlaceholders", "summary", "human"}

(* scoreFromChecks: the sum of the five scores, in tenths.                   *)
BundleScore(checks) ==
    LET points(c, yes, no) == IF c \in checks THEN yes ELSE no IN
    points("manifest", 10, 2) + points("nonEmpty", 10, 1) + points("summary", 8, 2)
        + points("passed", 5, 0) + points("ipfs", 5, 2) + points("human", 10, 2)

(* main: the score's recommendation, which a reason turns into a question.   *)
Recommended(checks) ==
    IF "manifest" \notin checks THEN "invalid_bundle"
    ELSE IF ~({"passed", "nonEmpty"} \subseteq checks) THEN "reject_candidate"
    ELSE IF BundleScore(checks) * 2 >= 85 /\ checks = AllChecks THEN "approve_candidate"
    ELSE "needs_human_review"

(* What build_validator_action_package asks of the report.                  *)
ReportAllows ==
    /\ written["validator_report"].text \in {"approve_candidate", "reject_candidate", "needs_human_review"}
    /\ {"manifest", "ipfs"} \subseteq jobBundle

(* What the outputs another script reads say.                               *)
TextOf(s, f) ==
    CASE f = "commitment_material" -> IF s = "seedPrime" THEN "seeded" ELSE "provisional"
      [] f = "validator_report" -> Recommended(jobBundle)
      [] OTHER -> "whole"

(* All a script asks for before it writes.                                  *)
Startable(s, fixture) ==
    /\ \A f \in ScriptTable[s].needs : There(f)
    /\ \A f \in ParsedBy(s) : Readable(f)
    /\ s = "package" => MaterialAccepted(fixture)
    /\ s = "action" => ReportAllows
    /\ s = "clear" => \E j \in TestJobs : queue[j] = "review_pending"

---------------------------------------------------------------------------
(* Mutant: only the outputs that are missing are written.                   *)
ToWriteMissing(s, force) ==
    IF force \/ ScriptTable[s].leave = "never" THEN ScriptTable[s].outs
    ELSE SelectSeq(ScriptTable[s].outs, LAMBDA f : ~There(f))

(* Mutant: one output found makes the run leave.                            *)
ToWriteNoneIfAny(s, force) ==
    IF force \/ ScriptTable[s].leave = "never" \/ \A f \in Outs(s) : ~There(f)
    THEN ScriptTable[s].outs ELSE <<>>

(* What a run goes through, from the outputs it finds and --force.          *)
ToWrite(s, force) ==
    LET outs == ScriptTable[s].outs
        leave == ScriptTable[s].leave
        found == {f \in Outs(s) : There(f)}
    IN IF force \/ leave = "never" THEN outs
       ELSE IF (leave = "all" /\ found = Outs(s)) \/ (leave = "any" /\ found # {}) THEN <<>>
       ELSE outs

(* The dry run stops after its report when the safety scan finds something,  *)
(* and builds no transaction for a deliverable that fails.                  *)
Plans(s, force) ==
    LET all == ToWrite(s, force) IN
    IF s = "dryRun"
    THEN {all, RemoveAt(all, 7), SubSeq(all, 1, 5)}
    ELSE {all}

(* A name for a run: its script, and a number no output of it carries.       *)
NewRun(s) == <<s, CHOOSE n \in 1..(Cardinality(Outs(s)) + 1) :
                    \A f \in Outs(s) : There(f) => written[f].run # <<s, n>> >>

Sharing(s) == {t \in DOMAIN ScriptTable : t # s /\ Outs(t) \cap Outs(s) # {}}

---------------------------------------------------------------------------
(* A procurement that has nothing yet, or a draft of the orchestrator's; a   *)
(* job whose bundle was built and stored.                                      *)
ScriptsInit ==
    /\ procState \in {NoFile, "DISCOVERED", "APPLICATION_DRAFTED"}
    /\ LET drafted == procState = "APPLICATION_DRAFTED" IN
          written = [f \in Files |->
                IF f \in BundleRead \cup {"completion_review"} THEN [run |-> <<"job", 1>>, text |-> "whole"]
                ELSE IF drafted /\ f \in {"brief", "payload", "commitment_material"}
                THEN [run |-> <<"orchestrator", 1>>, text |-> "orchestrated"]
                ELSE NotWritten]
    /\ script = NoScript
    /\ queue = [j \in TestJobs \cup {"v1_001"} |-> IF j = "v1_001" THEN NoFile ELSE "review_pending"]
    /\ jobBundle \in {AllChecks, AllChecks \ {"manifest"}, AllChecks \ {"passed"}, AllChecks \ {"schema"}}
    /\ torn = {} /\ halfway = {}
    /\ scriptDeaths = 0 /\ overwrites = 0

(* A run that has something to do.  The seeds write the state file first.    *)
BeginScript(s, fixture, force) ==
    /\ script = NoScript
    /\ Startable(s, fixture)
    /\ \E plan \in Plans(s, force) :
          /\ plan # <<>>
          /\ script' = [of |-> s, run |-> NewRun(s), fixture |-> fixture, todo |-> plan,
                        over |-> force \/ ScriptTable[s].leave = "never"]
    /\ script'.over => overwrites < MaxOverwrites
    /\ overwrites' = IF script'.over THEN overwrites + 1 ELSE overwrites
    /\ torn' = IF script'.over THEN torn \cup Sharing(s) ELSE torn
    /\ procState' = IF s = "seedPrime" THEN "APPLICATION_DRAFTED" ELSE procState
    /\ queue' = IF s = "seedReview" THEN [queue EXCEPT !["v1_001"] = "review_pending"] ELSE queue
    /\ UNCHANGED <<written, jobBundle, halfway, scriptDeaths>>

Put(f, text) == written' = [written EXCEPT ![f] = [run |-> script.run, text |-> text]]

(* An output found there is kept, by a script that asks for each of them.    *)
Keeps(f) == ScriptTable[script.of].leave = "each" /\ ~script.over /\ There(f)

WriteOutput ==
    /\ script # NoScript /\ script.todo # <<>>
    /\ IF Keeps(Head(script.todo)) THEN UNCHANGED written
       ELSE Put(Head(script.todo), TextOf(script.of, Head(script.todo)))
    /\ script' = [script EXCEPT !.todo = Tail(@)]
    /\ UNCHANGED <<procState, queue, jobBundle, torn, halfway, scriptDeaths, overwrites>>

(* forceSetProcState of a fixture run keeps the status there is; the marks   *)
(* it adds to the state file are not read again.                            *)
StatusAfter(s, fixture) ==
    IF ~fixture THEN procState
    ELSE CASE s = "review" /\ procState = NoFile -> "INSPECTED"
           [] s = "draft" /\ procState \in {NoFile, "DISCOVERED"} -> "APPLICATION_DRAFTED"
           [] s = "material" /\ procState = NoFile -> "APPLICATION_DRAFTED"
           [] OTHER -> procState

(* The last step: the state file, and for the queue the removal of the job   *)
(* the marker is about.                                                     *)
FinishScript ==
    /\ script # NoScript /\ script.todo = <<>>
    /\ procState' = StatusAfter(script.of, script.fixture)
    /\ queue' = IF script.of = "clear" THEN [j \in DOMAIN queue |-> IF j \in TestJobs THEN NoFile ELSE queue[j]]
                ELSE queue
    /\ torn' = torn \ {script.of}
    /\ halfway' = halfway \ {script.of}
    /\ script' = NoScript
    /\ UNCHANGED <<written, jobBundle, scriptDeaths, overwrites>>

(* A death between two writes, or half-way through one in place.            *)
DieInScript ==
    /\ script # NoScript /\ scriptDeaths < MaxScriptDeaths
    /\ scriptDeaths' = scriptDeaths + 1
    /\ \/ UNCHANGED written
       \/ /\ script.todo # <<>> /\ Head(script.todo) \in ScriptTable[script.of].inPlace
          /\ ~Keeps(Head(script.todo))
          /\ Put(Head(script.todo), "half")
    /\ halfway' = IF script.todo # <<>> THEN halfway \cup {script.of} ELSE halfway
    /\ torn' = IF script.over THEN torn \cup {script.of} ELSE torn
    /\ script' = NoScript
    /\ UNCHANGED <<procState, queue, jobBundle, overwrites>>

(* The operator adds the fields that are missing from a material.           *)
FillMaterial ==
    /\ script = NoScript /\ Readable("commitment_material")
    /\ written["commitment_material"].text # "filled"
    /\ written' = [written EXCEPT !["commitment_material"].text = "filled"]
    /\ UNCHANGED <<script, procState, queue, jobBundle, torn, halfway, scriptDeaths, overwrites>>

ScriptStep == WriteOutput \/ FinishScript

PrimeScriptsNext ==
    \/ \E s \in PrimeScripts, fixture, force \in BOOLEAN : BeginScript(s, fixture, force)
    \/ ScriptStep \/ DieInScript \/ FillMaterial

(* The operator comes back to a script that died.                           *)
ResumeScript == \E s \in halfway, fixture \in BOOLEAN : BeginScript(s, fixture, FALSE)

JobScriptsNext ==
    \/ \E s \in JobScripts, force \in BOOLEAN : BeginScript(s, FALSE, force)
    \/ ScriptStep \/ DieInScript

ScriptsSpec == ScriptsInit /\ [][PrimeScriptsNext \/ JobScriptsNext]_scriptVars

---------------------------------------------------------------------------
(* Outputs that are all there come from one run, whole except perhaps the    *)
(* last, unless a run that overwrites them was broken off (the "idempotent"  *)
(* tests of the build_ scripts): a run that died never leaves files that a   *)
(* later run takes for its own.                                             *)
OneRunUnlessTorn ==
    \A s \in DOMAIN ScriptTable \ torn :
        (/\ ScriptTable[s].leave = "all" /\ Complete(s)
         /\ script = NoScript \/ script.of # s)
        => /\ Cardinality({written[f].run : f \in Outs(s)}) = 1
           /\ \A f \in Outs(s) \ {Last(ScriptTable[s].outs)} : Readable(f)

(* A stage that died before its last output is completed by running it       *)
(* again, without --force, as long as it may start; run_validate_completion  *)
(* is not, for it leaves as soon as one of its two files is there.          *)
Repairable ==
    LET broken == \E s \in halfway \ {"validate"} :
                    ScriptTable[s].leave # "never" /\ Startable(s, TRUE) /\ ~Complete(s)
    IN broken ~> ~broken
=============================================================================
