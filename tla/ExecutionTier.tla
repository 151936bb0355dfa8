---------------------------- MODULE ExecutionTier ----------------------------
(* agent/execution-tier: which tier a job may be run in, whether it is worth *)
(* applying for, the run itself with repairs and one escalation, and the     *)
(* stages on disk.  Nothing in the agent's cycle calls it at this commit.    *)
EXTENDS Naturals, Sequences, FiniteSets, SequencesExt

CONSTANTS MaxTokens,   \* the budget of one tier's run, in hundreds of tokens
          CallTokens   \* what a call may be reported to use; the estimate is 9

EstimatedTokens == 9

VARIABLES
    tierRun,  \* [at, protocol, tier, calls, tokens, steps]; at: idle, call, validate, or the outcome
    tried,    \* history variable: the tiers run so far
    asked,    \* history variable: handler calls that reach a model
    stage,    \* execution_state.json and the stage artifacts on disk: [at, files]
    selected  \* history variable: the tier the economics were computed for

tierVars == <<tierRun, tried, asked, stage, selected>>

---------------------------------------------------------------------------
(* policies.js *)

Tiers == <<"T1_ONE_SHOT", "T2_REPAIR_LOOP", "T3_PLANNER_EXECUTOR">>

AllowedTiers(protocol) == IF protocol = "AGIJobManager:v1" THEN SubSeq(Tiers, 1, 2) ELSE Tiers

NextOf(order, e) == order[SelectInSeq(order, LAMBDA x : x = e) + 1]

MaxModelCalls == [T1_ONE_SHOT |-> 1, T2_REPAIR_LOOP |-> 3, T3_PLANNER_EXECUTOR |-> 8]

MaxEscalations == 1

Features ==
    [deliverableCount : {1, 2, 4}, crossArtifactDependencies : BOOLEAN, ambiguityScore : {2, 5, 8},
     externalToolsRequired : {0, 2}, validationAvailable : BOOLEAN, iterationRisk : {2, 5, 8}]

(* evaluateTierConstraints *)
Fits(tier, f) ==
    CASE tier = "T1_ONE_SHOT" ->
           /\ f.deliverableCount <= 1 /\ f.ambiguityScore <= 3
           /\ f.externalToolsRequired = 0 /\ f.iterationRisk <= 3
      [] tier = "T2_REPAIR_LOOP" ->
           /\ f.deliverableCount <= 3 /\ f.validationAvailable /\ f.iterationRisk <= 7
           /\ ~(f.crossArtifactDependencies /\ f.deliverableCount > 1)
      [] tier = "T3_PLANNER_EXECUTOR" ->
           /\ f.deliverableCount >= 2 /\ f.crossArtifactDependencies
           /\ f.ambiguityScore >= 7 /\ f.externalToolsRequired >= 2

FittingTiers(protocol, f) == {tier \in Range(AllowedTiers(protocol)) : Fits(tier, f)}

(* selectExecutionTier: the first of them in the protocol's order. *)
SelectedTier(protocol, f) ==
    LET order == AllowedTiers(protocol)
    IN  order[SelectInSeq(order, LAMBDA tier : tier \in FittingTiers(protocol, f))]

Least(a, b) == IF a < b THEN a ELSE b

ComplexityScore(f) ==
    Least(100, Least(f.deliverableCount * 8, 24) + (IF f.crossArtifactDependencies THEN 20 ELSE 0)
               + f.ambiguityScore * 2 + Least(f.externalToolsRequired * 8, 24)
               + (IF f.validationAvailable THEN 0 ELSE 10) + f.iterationRisk * 2)

(* estimateExecutionCost and evaluateMargin in hundredths of a cent; an      *)
(* estimate is always within budget.                                         *)
ExecutionCost(tier, f) ==
    LET factor == IF ComplexityScore(f) < 35 THEN 35 ELSE ComplexityScore(f)
    IN  200 + (MaxModelCalls[tier] * (900 + factor * 22) * 12) \div 100

MarginPasses(payout, cost) == payout * 4 >= cost * 5

(* deriveConfidence: the job's own score (in tenths), or 1 - score/120.      *)
Confident(given, f) == IF given = {} THEN ComplexityScore(f) <= 48 ELSE given \subseteq 6..10

(* shouldApply *)
ShouldApply(protocol, f, payout, given) ==
    /\ FittingTiers(protocol, f) # {}
    /\ MarginPasses(payout, ExecutionCost(SelectedTier(protocol, f), f))
    /\ f.validationAvailable
    /\ Confident(given, f)

(* Mutant: an escalation does not look at the protocol's policy. *)
CanEscalateAnywhere(protocol, from) ==
    from # "T3_PLANNER_EXECUTOR" /\ Cardinality(tried) <= MaxEscalations

(* canEscalateTier for the next tier of TIER_ORDER. *)
CanEscalate(protocol, from) ==
    /\ from # "T3_PLANNER_EXECUTOR" /\ Cardinality(tried) <= MaxEscalations
    /\ NextOf(Tiers, from) \in Range(AllowedTiers(protocol))

---------------------------------------------------------------------------
(* runtime-orchestrator.js, runners.js, runtime-guards.js *)

NoRun == [at |-> "idle", protocol |-> "", tier |-> "", calls |-> 0, tokens |-> 0, steps |-> 0]

Stages == <<"discover", "normalize", "classify", "tier_selection", "economic_check",
            "apply_decision", "apply", "execute_pass_1", "validate", "finalize", "submit">>

TierInit ==
    /\ tierRun = NoRun /\ tried = {} /\ asked = 0 /\ selected = ""
    /\ stage = [at |-> "discover", files |-> {}]

(* A tier starts with a guard of its own; steps is what a plan has left. *)
StartTier(tier) ==
    /\ tierRun' = [tierRun EXCEPT !.at = "call", !.tier = tier, !.calls = 0, !.tokens = 0, !.steps = 0]
    /\ tried' = tried \cup {tier}

ExecuteWithEscalation(protocol, f, payout, given) ==
    /\ tierRun = NoRun
    /\ IF ShouldApply(protocol, f, payout, given)
       THEN LET tier == SelectedTier(protocol, f) IN
            /\ tierRun' = [NoRun EXCEPT !.at = "call", !.protocol = protocol, !.tier = tier]
            /\ tried' = {tier} /\ selected' = tier
       ELSE /\ tierRun' = [NoRun EXCEPT !.at = "NOT_APPLIED"]
            /\ UNCHANGED <<tried, selected>>
    /\ UNCHANGED <<asked, stage>>

HasCapacity(tokens) ==
    tierRun.calls + 1 <= MaxModelCalls[tierRun.tier] /\ tierRun.tokens + tokens <= MaxTokens

(* An exhausted guard throws out of the whole run, before the call or, when  *)
(* the call used more than estimated, after it.                              *)
ModelCall(used, steps) ==
    IF ~HasCapacity(EstimatedTokens)
    THEN tierRun' = [tierRun EXCEPT !.at = "THREW"] /\ asked' = asked
    ELSE /\ asked' = asked + 1
         /\ tierRun' = [tierRun EXCEPT
                 !.at = IF ~HasCapacity(used) THEN "THREW" ELSE IF steps = 0 THEN "validate" ELSE @,
                 !.calls = @ + 1, !.tokens = @ + used, !.steps = steps]

(* generateDraft, repair *)
DraftOrRepair(used) ==
    /\ tierRun.at = "call" /\ tierRun.tier # "T3_PLANNER_EXECUTOR"
    /\ ModelCall(used, 0)
    /\ UNCHANGED <<tried, stage, selected>>

(* plan, executePlanStep; with nothing left to do the plan is finalized by   *)
(* one more call that no guard counts, which BudgetOf allows for.            *)
PlanOrStep(used) ==
    /\ tierRun.at = "call" /\ tierRun.tier = "T3_PLANNER_EXECUTOR"
    /\ IF tierRun.calls = 0
       THEN \E n \in 0..MaxModelCalls[tierRun.tier] : ModelCall(used, n)
       ELSE ModelCall(used, tierRun.steps - 1)
    /\ UNCHANGED <<tried, stage, selected>>

Validate(verdict) ==
    /\ tierRun.at = "validate"
    /\ IF verdict = "passed"
       THEN tierRun' = [tierRun EXCEPT !.at = "COMPLETED"] /\ tried' = tried
       ELSE IF /\ verdict = "repairable" /\ tierRun.tier = "T2_REPAIR_LOOP"
               /\ tierRun.calls < MaxModelCalls[tierRun.tier]
       THEN tierRun' = [tierRun EXCEPT !.at = "call"] /\ tried' = tried
       ELSE IF verdict = "repairable" /\ CanEscalate(tierRun.protocol, tierRun.tier)
       THEN StartTier(NextOf(Tiers, tierRun.tier))
       ELSE tierRun' = [tierRun EXCEPT !.at = "FAILED"] /\ tried' = tried
    /\ UNCHANGED <<asked, stage, selected>>

---------------------------------------------------------------------------
(* state-machine.js *)

Required(s) == CASE s \in {"tier_selection", "economic_check", "apply_decision"} -> {s}
                 [] s = "validate" -> {"validation"}
                 [] s = "finalize" -> {"repair_logs"}
                 [] OTHER          -> {}

WriteStageArtifact(file) ==
    /\ stage' = [stage EXCEPT !.files = @ \cup {file}]
    /\ UNCHANGED <<tierRun, tried, asked, selected>>

AdvanceExecutionStage ==
    /\ stage.at # Last(Stages)
    /\ LET next == NextOf(Stages, stage.at) IN
       /\ Required(next) \subseteq stage.files
       /\ stage' = [stage EXCEPT !.at = next]
    /\ UNCHANGED <<tierRun, tried, asked, selected>>

(* A state file that cannot be parsed is begun anew; its artifacts stay.     *)
LoadUnreadable ==
    /\ stage' = [stage EXCEPT !.at = "discover"]
    /\ UNCHANGED <<tierRun, tried, asked, selected>>

(* A run and the stages on disk share nothing: each is explored by itself.   *)
TierNext ==
    \/ /\ stage = [at |-> "discover", files |-> {}]
       /\ \/ \E protocol \in {"AGIJobManager:v1", "AGIPrime:v1"}, f \in Features,
                payout \in {0, 10000}, given \in {{}, {5}, {9}} :
                   ExecuteWithEscalation(protocol, f, payout, given)
          \/ \E used \in CallTokens : DraftOrRepair(used) \/ PlanOrStep(used)
          \/ \E verdict \in {"passed", "repairable", "fatal"} : Validate(verdict)
    \/ /\ tierRun = NoRun
       /\ \/ \E file \in {"tier_selection", "economic_check", "apply_decision", "validation",
                          "repair_logs"} : WriteStageArtifact(file)
          \/ AdvanceExecutionStage
          \/ LoadUnreadable

TierSpec == TierInit /\ [][TierNext]_tierVars

---------------------------------------------------------------------------
BudgetOf(tier) == MaxModelCalls[tier] + (IF tier = "T3_PLANNER_EXECUTOR" THEN 1 ELSE 0)

(* Whatever the models answer, a job is run only in tiers its protocol       *)
(* allows, in at most one more than the one it was priced for, and no more   *)
(* models are asked than those tiers may ask together.                       *)
SpendingBounded ==
    selected # "" =>
        /\ tried \subseteq Range(AllowedTiers(tierRun.protocol))
        /\ Cardinality(tried) <= 1 + MaxEscalations
        /\ asked <= BudgetOf(selected)
                    + (IF selected = "T3_PLANNER_EXECUTOR" THEN 0
                       ELSE BudgetOf(NextOf(Tiers, selected)))
=============================================================================
