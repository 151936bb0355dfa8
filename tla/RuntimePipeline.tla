-------------------------- MODULE RuntimePipeline --------------------------
(***************************************************************************)
(* The protocol pipelines of runtime/ and protocols/: the tables of the v1  *)
(* and the Prime state machines, the guards, and what each stage does to a  *)
(* work item, as operators.  RuntimeDaemon runs them.                       *)
(*                                                                          *)
(* A stage is [arts, moves, stop]: the artifacts it writes, the transitions *)
(* it then makes, each one a write of the state file, and whether the       *)
(* pipeline stops after it.  v2 runs the stages of v1.                      *)
(***************************************************************************)
EXTENDS Naturals, Sequences, FiniteSetsExt

V1Transitions ==
    [DISCOVERED         |-> {"EVALUATED", "BLOCKED_RETRIEVAL_REQUIRED", "FAILED"},
     EVALUATED          |-> {"APPLY_READY", "FAILED"},
     APPLY_READY        |-> {"APPLIED_UNSIGNED", "BLOCKED_OPERATOR_REVIEW", "FAILED"},
     APPLIED_UNSIGNED   |-> {"APPLIED_CONFIRMED", "BLOCKED_OPERATOR_REVIEW", "FAILED"},
     APPLIED_CONFIRMED  |-> {"EXECUTION_READY", "FAILED"},
     EXECUTION_READY    |-> {"EXECUTED", "BLOCKED_RETRIEVAL_REQUIRED", "FAILED"},
     EXECUTED           |-> {"VALIDATED", "FAILED"},
     VALIDATED          |-> {"PUBLISHED", "FAILED"},
     PUBLISHED          |-> {"SUBMISSION_READY", "BLOCKED_ARTIFACT_EMISSION_REQUIRED", "FAILED"},
     SUBMISSION_READY   |-> {"SUBMITTED_UNSIGNED", "BLOCKED_OPERATOR_REVIEW", "FAILED"},
     SUBMITTED_UNSIGNED |-> {"RECONCILING", "BLOCKED_OPERATOR_REVIEW", "FAILED"},
     RECONCILING        |-> {"DONE", "FAILED"},
     BLOCKED_RETRIEVAL_REQUIRED |-> {"DISCOVERED", "EXECUTION_READY", "FAILED"},
     BLOCKED_OPERATOR_REVIEW    |-> {"APPLY_READY", "SUBMISSION_READY", "FAILED"},
     BLOCKED_ARTIFACT_EMISSION_REQUIRED |-> {"PUBLISHED", "FAILED"},
     FAILED |-> {}, DONE |-> {}]

PrimeTransitions ==
    [DISCOVERED         |-> {"EVALUATED", "BLOCKED_RETRIEVAL_REQUIRED", "FAILED"},
     EVALUATED          |-> {"COMMIT_READY", "BLOCKED_DEADLINE", "FAILED"},
     COMMIT_READY       |-> {"COMMITTED_UNSIGNED", "BLOCKED_OPERATOR_REVIEW", "BLOCKED_DEADLINE", "FAILED"},
     COMMITTED_UNSIGNED |-> {"COMMIT_CONFIRMED", "BLOCKED_OPERATOR_REVIEW", "FAILED"},
     COMMIT_CONFIRMED   |-> {"REVEAL_READY", "BLOCKED_DEADLINE", "FAILED"},
     REVEAL_READY       |-> {"REVEALED_UNSIGNED", "BLOCKED_OPERATOR_REVIEW", "BLOCKED_DEADLINE", "FAILED"},
     REVEALED_UNSIGNED  |-> {"REVEAL_CONFIRMED", "BLOCKED_OPERATOR_REVIEW", "FAILED"},
     REVEAL_CONFIRMED   |-> {"SHORTLIST_PENDING", "FAILED"},
     SHORTLIST_PENDING  |-> {"FINALIST", "WINNER_PENDING", "FAILED"},
     FINALIST           |-> {"FINALIST_ACCEPT_READY", "BLOCKED_DEADLINE", "FAILED"},
     FINALIST_ACCEPT_READY      |-> {"FINALIST_ACCEPTED_UNSIGNED", "BLOCKED_OPERATOR_REVIEW",
                                     "BLOCKED_DEADLINE", "FAILED"},
     FINALIST_ACCEPTED_UNSIGNED |-> {"FINALIST_ACCEPT_CONFIRMED", "FAILED"},
     FINALIST_ACCEPT_CONFIRMED  |-> {"TRIAL_EXECUTION_READY", "FAILED"},
     TRIAL_EXECUTION_READY      |-> {"TRIAL_EXECUTED", "BLOCKED_DEADLINE", "FAILED"},
     TRIAL_EXECUTED             |-> {"TRIAL_PUBLISHED", "FAILED"},
     TRIAL_PUBLISHED            |-> {"VALIDATOR_SCORING_PENDING", "FAILED"},
     VALIDATOR_SCORING_PENDING  |-> {"WINNER_PENDING", "BLOCKED_DEADLINE", "FAILED"},
     WINNER_PENDING      |-> {"WINNER_DESIGNATED", "FALLBACK_PROMOTABLE", "FAILED"},
     WINNER_DESIGNATED   |-> {"DONE", "FAILED"},
     FALLBACK_PROMOTABLE |-> {"WINNER_DESIGNATED", "BLOCKED_DEADLINE", "FAILED"},
     BLOCKED_DEADLINE    |-> {"FAILED"},
     BLOCKED_OPERATOR_REVIEW    |-> {"COMMIT_READY", "REVEAL_READY", "FINALIST_ACCEPT_READY", "FAILED"},
     BLOCKED_RETRIEVAL_REQUIRED |-> {"DISCOVERED", "FAILED"},
     BLOCKED_ARTIFACT_EMISSION_REQUIRED |-> {"TRIAL_PUBLISHED", "FAILED"},
     DONE |-> {}, FAILED |-> {}]

Transitions(protocol) == IF protocol = "prime" THEN PrimeTransitions ELSE V1Transitions

RuntimeStatus(protocol) == DOMAIN Transitions(protocol)

(* runTransition throws an IllegalTransitionError where this is false.      *)
CanTransition(protocol, from, to) == to \in Transitions(protocol)[from]

---------------------------------------------------------------------------
(* detectProtocol: an explicit protocol, then the first contract version    *)
(* given anywhere, then a procurement id, then v1; "unsupported" throws.    *)

Supported == {"v1", "v2", "prime"}

FirstGiven(hints) ==
    LET given == {i \in DOMAIN hints : hints[i] # ""}
    IN  IF given = {} THEN "" ELSE hints[Min(given)]

DetectProtocol(input) ==
    LET named == IF input.protocol # "" THEN input.protocol ELSE FirstGiven(input.versions)
    IN  IF named # ""
        THEN IF named \in Supported THEN named ELSE "unsupported"
        ELSE IF input.procurement THEN "prime" ELSE "v1"

---------------------------------------------------------------------------
(* The artifacts the pipelines write themselves, the files of the canonical *)
(* bundle nothing under runtime/ or protocols/ writes (as one), and the     *)
(* bundle.                                                                  *)

Artifact == {"retrieval_packet", "execution_trace", "findings", "rest",
             "unsigned_apply", "publish_manifest", "unsigned_completion",
             "unsigned_commit", "unsigned_reveal", "trial_publish_manifest"}

CanonicalArtifacts == {"retrieval_packet", "execution_trace", "findings", "rest"}

RequireCanonical(arts) == CanonicalArtifacts \subseteq arts

HasValidRetrievalPacket(item) == item.retrieval

Stage(arts, moves) == [arts |-> arts, moves |-> moves, stop |-> FALSE]

Blocked(status) == [arts |-> {}, moves |-> <<status>>, stop |-> TRUE]

NoStage == [arts |-> {}, moves |-> <<>>, stop |-> FALSE]

ExecuteStage(item) ==
    IF HasValidRetrievalPacket(item)
    THEN Stage({"execution_trace"}, <<"EXECUTED">>)
    ELSE Blocked("BLOCKED_RETRIEVAL_REQUIRED")

(* Mutant: the bundle is not required. *)
SubmitUngated(arts) == Stage({"unsigned_completion"}, <<"SUBMITTED_UNSIGNED", "RECONCILING">>)

SubmitStage(arts) ==
    IF RequireCanonical(arts)
    THEN Stage({"unsigned_completion"}, <<"SUBMITTED_UNSIGNED", "RECONCILING">>)
    ELSE Blocked("BLOCKED_ARTIFACT_EMISSION_REQUIRED")

V1Stage(item, arts) ==
    CASE item.status = "DISCOVERED"        -> Stage({"retrieval_packet"}, <<"EVALUATED">>)
      [] item.status = "EVALUATED"         -> Stage({}, <<"APPLY_READY">>)
      [] item.status = "APPLY_READY"       -> Stage({"unsigned_apply"}, <<"APPLIED_UNSIGNED">>)
      [] item.status = "APPLIED_UNSIGNED"  -> Stage({}, <<"APPLIED_CONFIRMED">>)
      [] item.status = "APPLIED_CONFIRMED" -> Stage({}, <<"EXECUTION_READY">>)
      [] item.status = "EXECUTION_READY"   -> ExecuteStage(item)
      [] item.status = "EXECUTED"          -> Stage({"findings"}, <<"VALIDATED">>)
      [] item.status = "VALIDATED"         -> Stage({"publish_manifest"}, <<"PUBLISHED">>)
      [] item.status = "PUBLISHED"         -> Stage({}, <<"SUBMISSION_READY">>)
      [] item.status = "SUBMISSION_READY"  -> SubmitStage(arts)
      [] item.status = "RECONCILING"       -> Stage({}, <<"DONE">>)
      [] OTHER -> NoStage

---------------------------------------------------------------------------
(* The deadlines of a procurement, as [commit, reveal, accept, trial,       *)
(* scoreCommit, scoreReveal], and the windows of the guards.                *)

WithinWindow(now, start, end) == now >= start /\ now < end

CommitWindowGuard(now, d)   == WithinWindow(now, 0, d.commit)
RevealWindowGuard(now, d)   == WithinWindow(now, d.commit, d.reveal)
FinalistAcceptGuard(now, d) == WithinWindow(now, d.reveal, d.accept)
TrialGuard(now, d)          == WithinWindow(now, d.accept, d.trial)
ScoreCommitGuard(now, d)    == WithinWindow(now, d.trial, d.scoreCommit)
ScoreRevealGuard(now, d)    == WithinWindow(now, d.scoreCommit, d.scoreReveal)
FallbackPromotionGuard(now, d) == now >= d.scoreReveal

If(guard, stage) == IF guard THEN stage ELSE Blocked("BLOCKED_DEADLINE")

PrimeStage(item, in) ==
    LET s == item.status
        now == in.now
        d == in.deadlines IN
    CASE s = "DISCOVERED"       -> Stage({"retrieval_packet"}, <<"EVALUATED">>)
      [] s = "EVALUATED"        -> Stage({}, <<"COMMIT_READY">>)
      [] s = "COMMIT_READY"     -> If(CommitWindowGuard(now, d),
                 Stage({"unsigned_commit"}, <<"COMMITTED_UNSIGNED", "COMMIT_CONFIRMED">>))
      [] s = "COMMIT_CONFIRMED" -> Stage({}, <<"REVEAL_READY">>)
      [] s = "REVEAL_READY"     -> If(RevealWindowGuard(now, d),
                 Stage({"unsigned_reveal"}, <<"REVEALED_UNSIGNED", "REVEAL_CONFIRMED">>))
      [] s = "REVEAL_CONFIRMED" -> Stage({}, <<"SHORTLIST_PENDING">>)
      [] s = "SHORTLIST_PENDING" -> Stage({}, <<IF in.isFinalist THEN "FINALIST" ELSE "WINNER_PENDING">>)
      [] s = "FINALIST"         -> Stage({}, <<"FINALIST_ACCEPT_READY">>)
      [] s = "FINALIST_ACCEPT_READY" -> If(FinalistAcceptGuard(now, d),
                 Stage({}, <<"FINALIST_ACCEPTED_UNSIGNED", "FINALIST_ACCEPT_CONFIRMED">>))
      [] s = "FINALIST_ACCEPT_CONFIRMED" -> Stage({}, <<"TRIAL_EXECUTION_READY">>)
      [] s = "TRIAL_EXECUTION_READY" -> If(TrialGuard(now, d),
                 Stage({"execution_trace"}, <<"TRIAL_EXECUTED">>))
      [] s = "TRIAL_EXECUTED"   -> Stage({"trial_publish_manifest"}, <<"TRIAL_PUBLISHED">>)
      [] s = "TRIAL_PUBLISHED"  -> Stage({}, <<"VALIDATOR_SCORING_PENDING">>)
      [] s = "VALIDATOR_SCORING_PENDING" ->
                 If(ScoreCommitGuard(now, d) \/ ScoreRevealGuard(now, d), Stage({}, <<"WINNER_PENDING">>))
      [] s = "WINNER_PENDING"   -> Stage({}, <<IF in.winner THEN "WINNER_DESIGNATED" ELSE "FALLBACK_PROMOTABLE">>)
      [] s = "FALLBACK_PROMOTABLE" -> If(FallbackPromotionGuard(now, d), Stage({}, <<"WINNER_DESIGNATED">>))
      [] s = "WINNER_DESIGNATED" -> Stage({}, <<"DONE">>)
      [] OTHER -> NoStage

StageOf(protocol, item, arts, in) ==
    IF protocol = "prime" THEN PrimeStage(item, in) ELSE V1Stage(item, arts)
=============================================================================
