---------------------------- MODULE ValidatorReview ----------------------------
(* What src/validation does around a score: the evidence it fetches and      *)
(* caches, the adjudication of a trial, the comparison of all validators'    *)
(* scores, disputes, the settlement report and the validator's lifecycle.    *)
(* Scores are whole points here; means are rounded down.                     *)
EXTENDS Naturals, Integers, FiniteSets, FiniteSetsExt, Functions, Sequences, SequencesExt

CONSTANTS
    Empty,
    Validators,     \* who scores; the agent is one of them
    ScoreValues,    \* scores they reveal
    Applicants,     \* who may win
    Trials          \* trial contents: the checks of Points that a content passes

ASSUME ReviewAssumption == IsFiniteSet(Validators) /\ ScoreValues \subseteq Nat /\ Empty \notin Nat

DISPUTE_SCORE_DELTA == 25
MIN_VALIDATOR_COUNT == 3

VARIABLES
    revealedScores,   \* on chain: per validator, Empty or the score
    winner,     \* on chain: Empty or the winner designated
    bundle,     \* scoring/evidence_bundle.json: Empty or [fresh, content]
    dispute,    \* disputes/<id>.json: Empty or [status, evidence, decision]
    report,     \* scoring/settlement_report.json: Empty or its settlementStatus
    lifecycle   \* validatorLifecycle of state.json

reviewVars == <<revealedScores, winner, bundle, dispute, report, lifecycle>>

ReviewInit ==
    /\ revealedScores = [v \in Validators |-> Empty] /\ winner = Empty
    /\ bundle = Empty /\ dispute = Empty /\ report = Empty
    /\ lifecycle = "IDLE"

---------------------------------------------------------------------------
(* scoring-adjudicator.js: each check is worth its points in one dimension,  *)
(* each dimension its weight.                                                *)
Points ==
    [spec    |-> [headings |-> 20, substantive |-> 20, noPlaceholders |-> 15, code |-> 10,
                  lists |-> 10, linkedJob |-> 15, accessible |-> 10],
     quality |-> [ratio |-> 25, introduction |-> 15, conclusion |-> 15, sections |-> 20,
                  words |-> 15, noDisclaimer |-> 10],
     public  |-> [cid |-> 30, fetched |-> 30, uri |-> 20, adequate |-> 20],
     timely  |-> [beforeTrialDeadline |-> 50, beforeScoreCommit |-> 25, scorePhase |-> 25],
     reuse   |-> [patterns |-> 25, references |-> 20, examples |-> 25, structured |-> 15, steps |-> 15]]

Weights == [spec |-> 30, quality |-> 25, public |-> 20, timely |-> 15, reuse |-> 10]

NeedContent == {"spec", "quality", "reuse"}

(* Without content three dimensions are zero whatever else holds. *)
Dimension(d, passed, hasContent) ==
    IF d \in NeedContent /\ ~hasContent THEN 0
    ELSE SumFunctionOnSet(Points[d], DOMAIN Points[d] \cap passed)

AdjudicateScore(passed, hasContent) ==
    SumFunction([d \in DOMAIN Weights |-> Dimension(d, passed, hasContent) * Weights[d]]) \div 100

---------------------------------------------------------------------------
(* multi-validator-coord.js *)

Valid == {v \in Validators : revealedScores[v] # Empty}

(* Who scored, the lowest score first. *)
Ascending(s) == \A i, j \in DOMAIN s : i < j => revealedScores[s[i]] <= revealedScores[s[j]]

Sorted == CHOOSE s \in SetToSeqs(Valid) : Ascending(s)

Values == [i \in DOMAIN Sorted |-> revealedScores[Sorted[i]]]

Median(s) ==
    LET mid == Len(s) \div 2
    IN  IF Len(s) % 2 = 1 THEN s[mid + 1] ELSE (s[mid] + s[mid + 1]) \div 2

(* One value at least goes at each end; with two or fewer nothing is left.   *)
TrimmedMean(s) ==
    LET cut == IF Len(s) \div 10 > 1 THEN Len(s) \div 10 ELSE 1
        kept == (cut + 1)..(Len(s) - cut)
    IN  IF kept = {} THEN Median(s) ELSE SumFunctionOnSet(s, kept) \div Cardinality(kept)

AggregateScores == IF Values = <<>> THEN Empty ELSE TrimmedMean(Values)

Apart(v, w) == IF revealedScores[v] < revealedScores[w] THEN revealedScores[w] - revealedScores[v] ELSE revealedScores[v] - revealedScores[w]

Pairs == {p \in Valid \X Valid : p[1] # p[2]}

(* detectCollusionPatterns and detectCollusion *)
CollusionPatterns ==
    IF Cardinality(Valid) < 3 THEN {}
    ELSE {p \in Pairs : \/ Apart(p[1], p[2]) = 0 /\ revealedScores[p[1]] > 0
                        \/ Apart(p[1], p[2]) <= 2 /\ revealedScores[p[1]] > 50}

(* computeConsensusDecision ranks the validators by their own scores, as the *)
(* records name no applicant; the margin is between the best two.            *)
HasConsensus ==
    /\ Len(Values) >= MIN_VALIDATOR_COUNT
    /\ Values[Len(Values)] - Values[Len(Values) - 1] > 5

(* Mutant: only records next to each other are compared. *)
DetectNeighbours ==
    {{Sorted[i], Sorted[i + 1]} : i \in {j \in 1..(Len(Sorted) - 1) :
        Values[j + 1] - Values[j] > DISPUTE_SCORE_DELTA}}

(* detectDisputes *)
DetectDisputes == {{p[1], p[2]} : p \in {q \in Pairs : Apart(q[1], q[2]) > DISPUTE_SCORE_DELTA}}

---------------------------------------------------------------------------
(* evidence-fetch.js.  A gateway may have nothing; the content is null then, *)
(* and a bundle without content is cached like any other.                    *)
FetchEvidence ==
    /\ IF bundle # Empty /\ bundle.fresh
       THEN bundle' = bundle
       ELSE \E content \in {{}} \cup Trials, hasContent \in BOOLEAN :
               /\ hasContent <=> content # {}
               /\ bundle' = [fresh |-> TRUE, content |-> content]
    /\ UNCHANGED <<revealedScores, winner, dispute, report, lifecycle>>

EvidenceAges ==
    /\ bundle # Empty /\ bundle.fresh
    /\ bundle' = [bundle EXCEPT !.fresh = FALSE]
    /\ UNCHANGED <<revealedScores, winner, dispute, report, lifecycle>>

(* The agent reveals what it adjudicated, the others what they like. *)
Reveal(v, score) ==
    /\ revealedScores[v] = Empty /\ winner = Empty
    /\ revealedScores' = [revealedScores EXCEPT ![v] = score]
    /\ UNCHANGED <<winner, bundle, dispute, report, lifecycle>>

RevealOwn(v) ==
    /\ bundle # Empty
    /\ Reveal(v, AdjudicateScore(bundle.content, bundle.content # {}))

Designate(a) ==
    /\ winner = Empty /\ Valid # {}
    /\ winner' = a
    /\ UNCHANGED <<revealedScores, bundle, dispute, report, lifecycle>>

---------------------------------------------------------------------------
(* dispute-resolver.js *)

OpenDispute ==
    /\ dispute = Empty /\ DetectDisputes # {}
    /\ dispute' = [status |-> "PROPOSED", evidence |-> 0, decision |-> Empty]
    /\ UNCHANGED <<revealedScores, winner, bundle, report, lifecycle>>

TerminalDispute == {"RESOLVED", "REJECTED", "EXPIRED"}

CollectDisputeEvidence ==
    /\ dispute # Empty /\ dispute.status \notin TerminalDispute /\ dispute.evidence < 2
    /\ dispute' = [dispute EXCEPT !.status = "EVIDENCE_COLLECTING", !.evidence = @ + 1]
    /\ UNCHANGED <<revealedScores, winner, bundle, report, lifecycle>>

(* A dispute that is already resolved is resolved again. *)
ResolveDispute(decision) ==
    /\ dispute # Empty
    /\ dispute' = [dispute EXCEPT !.status = "RESOLVED", !.decision = decision]
    /\ UNCHANGED <<revealedScores, winner, bundle, report, lifecycle>>

---------------------------------------------------------------------------
(* settlement-reconciler.js looks for the applicants among the validators,   *)
(* so a winner who does not validate is never the computed one.              *)
ConsensusWinners ==
    {a \in Applicants \cap Valid : \A b \in Applicants \cap Valid : revealedScores[b] <= revealedScores[a]}

ReconcileValidatorSettlement ==
    /\ report' = IF winner = Empty THEN "PENDING"
                 ELSE IF winner \in ConsensusWinners THEN "RECONCILED" ELSE "DISCREPANCY_DETECTED"
    /\ UNCHANGED <<revealedScores, winner, bundle, dispute, lifecycle>>

---------------------------------------------------------------------------
(* lifecycle-branch.js *)
LifecycleOrder == <<"IDLE", "DISCOVERED", "EVALUATING", "COMMIT_READY", "COMMIT_SUBMITTED",
                    "REVEAL_READY", "REVEAL_SUBMITTED", "SETTLED">>

(* Every check of the assignment sets the lifecycle back to its beginning.   *)
DiscoverValidatorRole ==
    /\ lifecycle' = "DISCOVERED"
    /\ UNCHANGED <<revealedScores, winner, bundle, dispute, report>>

AdvanceValidatorLifecycle ==
    /\ lifecycle # Last(LifecycleOrder)
    /\ lifecycle' = LifecycleOrder[SelectInSeq(LifecycleOrder, LAMBDA s : s = lifecycle) + 1]
    /\ UNCHANGED <<revealedScores, winner, bundle, dispute, report>>

(* The lifecycle shares no file with the rest and is explored by itself.     *)
ReviewNext ==
    \/ /\ lifecycle = "IDLE"
       /\ \/ FetchEvidence
          \/ EvidenceAges
          \/ \E v \in Validators : RevealOwn(v) \/ \E s \in ScoreValues : Reveal(v, s)
          \/ \E a \in Applicants : Designate(a)
          \/ OpenDispute
          \/ CollectDisputeEvidence
          \/ \E d \in {"uphold", "adjust"} : ResolveDispute(d)
          \/ ReconcileValidatorSettlement
    \/ /\ bundle = Empty /\ Valid = {} /\ winner = Empty /\ report = Empty
       /\ DiscoverValidatorRole \/ AdvanceValidatorLifecycle

ReviewSpec == ReviewInit /\ [][ReviewNext]_reviewVars

---------------------------------------------------------------------------
(* Whatever has been revealed so far, disputes are found exactly when the    *)
(* highest and the lowest score are too far apart, and the aggregate of the  *)
(* scores lies between these two.                                            *)
DisputedIffApart ==
    Valid # {} =>
        LET low  == Min({revealedScores[v] : v \in Valid})
            high == Max({revealedScores[v] : v \in Valid})
        IN  /\ (DetectDisputes # {}) <=> (high - low > DISPUTE_SCORE_DELTA)
            /\ low <= AggregateScores /\ AggregateScores <= high
=============================================================================
