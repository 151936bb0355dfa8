---------------------------- MODULE PrimePhases ----------------------------
(***************************************************************************)
(* The phase model of a Prime procurement (agent/prime-phase-model.js) and  *)
(* the decision table of agent/prime-next-action.js: the local statuses and *)
(* the graph of legal moves between them, the chain phases the deadlines    *)
(* cut the clock into, the rule that declares a required window missed, and *)
(* the one action proposed for a status in a phase.  No state is kept here. *)
(***************************************************************************)
EXTENDS Naturals

---------------------------------------------------------------------------
(* Local statuses. *)

Terminal ==
    {"NOT_A_FIT", "DONE", "REJECTED", "NOT_SHORTLISTED", "EXPIRED", "MISSED_WINDOW"}

ApplyStatuses ==
    {"DISCOVERED", "INSPECTED", "FIT_APPROVED", "APPLICATION_DRAFTED",
     "COMMIT_READY", "COMMIT_SUBMITTED", "REVEAL_READY", "REVEAL_SUBMITTED"}

FinalistStatuses ==
    {"SHORTLISTED", "FINALIST_ACCEPT_READY", "FINALIST_ACCEPT_SUBMITTED",
     "TRIAL_IN_PROGRESS", "TRIAL_READY", "TRIAL_SUBMITTED", "WAITING_SCORE_PHASE"}

ScoringStatuses ==
    {"VALIDATOR_SCORE_COMMIT_READY", "VALIDATOR_SCORE_COMMIT_SUBMITTED",
     "VALIDATOR_SCORE_REVEAL_READY", "VALIDATOR_SCORE_REVEAL_SUBMITTED"}

WinnerStatuses ==
    {"WINNER_PENDING", "SELECTION_EXPIRED", "FALLBACK_PROMOTABLE", "SELECTED",
     "JOB_EXECUTION_IN_PROGRESS", "COMPLETION_READY", "COMPLETION_SUBMITTED"}

Status == ApplyStatuses \cup FinalistStatuses \cup ScoringStatuses
              \cup WinnerStatuses \cup Terminal

(* VALID_TRANSITIONS: the forward edges, then the two ways to run late. *)
ForwardEdges ==
    {<<"DISCOVERED", "INSPECTED">>,
     <<"INSPECTED", "NOT_A_FIT">>, <<"INSPECTED", "FIT_APPROVED">>,
     <<"FIT_APPROVED", "APPLICATION_DRAFTED">>,
     <<"APPLICATION_DRAFTED", "COMMIT_READY">>,
     <<"COMMIT_READY", "COMMIT_SUBMITTED">>,
     <<"COMMIT_SUBMITTED", "REVEAL_READY">>,
     <<"REVEAL_READY", "REVEAL_SUBMITTED">>,
     <<"REVEAL_SUBMITTED", "SHORTLISTED">>, <<"REVEAL_SUBMITTED", "NOT_SHORTLISTED">>,
     <<"SHORTLISTED", "FINALIST_ACCEPT_READY">>,
     <<"FINALIST_ACCEPT_READY", "FINALIST_ACCEPT_SUBMITTED">>,
     <<"FINALIST_ACCEPT_READY", "TRIAL_READY">>,
     <<"FINALIST_ACCEPT_SUBMITTED", "TRIAL_IN_PROGRESS">>,
     <<"TRIAL_IN_PROGRESS", "TRIAL_READY">>,
     <<"TRIAL_READY", "TRIAL_SUBMITTED">>,
     <<"TRIAL_SUBMITTED", "WAITING_SCORE_PHASE">>,
     <<"VALIDATOR_SCORE_COMMIT_READY", "VALIDATOR_SCORE_COMMIT_SUBMITTED">>,
     <<"VALIDATOR_SCORE_COMMIT_SUBMITTED", "VALIDATOR_SCORE_REVEAL_READY">>,
     <<"VALIDATOR_SCORE_REVEAL_READY", "VALIDATOR_SCORE_REVEAL_SUBMITTED">>,
     <<"VALIDATOR_SCORE_REVEAL_SUBMITTED", "WAITING_SCORE_PHASE">>,
     <<"WAITING_SCORE_PHASE", "WINNER_PENDING">>, <<"WAITING_SCORE_PHASE", "REJECTED">>,
     <<"WINNER_PENDING", "SELECTED">>, <<"WINNER_PENDING", "SELECTION_EXPIRED">>,
     <<"SELECTION_EXPIRED", "FALLBACK_PROMOTABLE">>,
     <<"FALLBACK_PROMOTABLE", "SELECTED">>,
     <<"SELECTED", "JOB_EXECUTION_IN_PROGRESS">>,
     <<"JOB_EXECUTION_IN_PROGRESS", "COMPLETION_READY">>,
     <<"COMPLETION_READY", "COMPLETION_SUBMITTED">>,
     <<"COMPLETION_SUBMITTED", "DONE">>}

Missable == ApplyStatuses \cup FinalistStatuses \cup ScoringStatuses

Expirable ==
    (Missable \ {"INSPECTED", "FIT_APPROVED", "APPLICATION_DRAFTED"})
        \cup {"SELECTION_EXPIRED", "FALLBACK_PROMOTABLE"}

IsValidTransition(from, to) ==
    \/ <<from, to>> \in ForwardEdges
    \/ from \in Missable /\ to = "MISSED_WINDOW"
    \/ from \in Expirable /\ to = "EXPIRED"

---------------------------------------------------------------------------
(* Chain phases.  A procurement carries six deadlines, d[1] .. d[6]; the    *)
(* phase is the window of the first one that is still ahead of the clock.   *)

PhaseSeq == <<"COMMIT_OPEN", "REVEAL_OPEN", "FINALIST_ACCEPT", "TRIAL_OPEN",
              "SCORE_COMMIT", "SCORE_REVEAL", "CLOSED">>

ChainPhase == {PhaseSeq[i] : i \in 1..7}

DeriveChainPhase(d, now) ==
    LET ahead == {i \in 1..6 : now < d[i]} IN
    IF ahead = {} THEN "CLOSED"
    ELSE PhaseSeq[CHOOSE i \in ahead : \A j \in ahead : i <= j]

(* The phases in which a status still has its required window in front of   *)
(* it, as the code lists them: outside of them the window is "missed".      *)
NeedsCommit   == {"FIT_APPROVED", "APPLICATION_DRAFTED", "COMMIT_READY"}
NeedsReveal   == {"COMMIT_SUBMITTED", "REVEAL_READY"}
NeedsFinalist == {"SHORTLISTED", "FINALIST_ACCEPT_READY", "FINALIST_ACCEPT_SUBMITTED"}
NeedsTrial    == {"TRIAL_IN_PROGRESS", "TRIAL_READY"}

(* Mutant: the trial window is forgotten. *)
DidMissNoTrial(status, phase) ==
    \/ status \in NeedsCommit   /\ phase # "COMMIT_OPEN"
    \/ status \in NeedsReveal   /\ phase # "REVEAL_OPEN"
    \/ status \in NeedsFinalist /\ phase \notin {"FINALIST_ACCEPT", "TRIAL_OPEN"}

DidMissRequiredWindow(status, phase) ==
    \/ status \in NeedsCommit   /\ phase # "COMMIT_OPEN"
    \/ status \in NeedsReveal   /\ phase # "REVEAL_OPEN"
    \/ status \in NeedsFinalist /\ phase \notin {"FINALIST_ACCEPT", "TRIAL_OPEN"}
    \/ status \in NeedsTrial    /\ phase # "TRIAL_OPEN"

---------------------------------------------------------------------------
(* The action computeNextAction proposes.  s carries the fields of the      *)
(* local state it looks at.  A proposal the phase blocks still names its    *)
(* action: the reason it returns beside it is only printed.                 *)
ComputeNextAction(s, phase) ==
    LET InPhase(p, action, otherwise) == IF phase = p THEN action ELSE otherwise
    IN
    CASE s.status \in Terminal             -> "TERMINAL"
      [] s.status = "DISCOVERED"           -> "INSPECT"
      [] s.status = "INSPECTED"            -> IF s.fitEvaluated THEN "NONE" ELSE "EVALUATE_FIT"
      [] s.status = "FIT_APPROVED"         -> InPhase("COMMIT_OPEN", "DRAFT_APPLICATION", "NONE")
      [] s.status = "APPLICATION_DRAFTED"  -> "BUILD_COMMIT_TX"
      [] s.status = "COMMIT_SUBMITTED"     -> InPhase("REVEAL_OPEN", "BUILD_REVEAL_TX", "NONE")
      [] s.status = "REVEAL_SUBMITTED"     -> "CHECK_SHORTLIST"
      [] s.status = "SHORTLISTED"          -> InPhase("FINALIST_ACCEPT", "BUILD_FINALIST_TX", "NONE")
      [] s.status = "FINALIST_ACCEPT_SUBMITTED" -> InPhase("TRIAL_OPEN", "BUILD_TRIAL", "NONE")
      [] s.status = "TRIAL_IN_PROGRESS"    -> "BUILD_TRIAL"
      [] s.status = "WAITING_SCORE_PHASE" /\ s.assigned ->
             InPhase("SCORE_COMMIT", "BUILD_VALIDATOR_SCORE_COMMIT_TX", "WAIT_SCORING")
      [] s.status = "VALIDATOR_SCORE_COMMIT_SUBMITTED" ->
             InPhase("SCORE_REVEAL", "BUILD_VALIDATOR_SCORE_REVEAL_TX", "WAIT_SCORING")
      [] \/ s.status \in {"TRIAL_SUBMITTED", "VALIDATOR_SCORE_REVEAL_SUBMITTED"}
         \/ s.status = "WAITING_SCORE_PHASE" /\ ~s.assigned -> "WAIT_SCORING"
      [] s.status \in {"WINNER_PENDING", "SELECTION_EXPIRED", "FALLBACK_PROMOTABLE"} -> "CHECK_WINNER"
      [] s.status \in {"SELECTED", "JOB_EXECUTION_IN_PROGRESS"} -> "EXECUTE_JOB"
      [] OTHER                             -> "NONE"
=============================================================================
