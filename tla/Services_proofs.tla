-------------------------- MODULE Services_proofs ---------------------------
(***************************************************************************)
(* The services beside the orchestrator: the budget of a run of the         *)
(* execution tiers (ExecutionTier), the scripts run by hand                 *)
(* (OperatorScripts) and what a validator's review computes from the scores *)
(* (ValidatorReview).  They share no variable.                              *)
(***************************************************************************)
EXTENDS ExecutionTier, OperatorScripts, ValidatorReview, FiniteSetTheorems, WellFoundedInduction, TLAPS

---------------------------------------------------------------------------
(* The execution tier: what calls spend, for any budget and cost of a call.  *)

---------------------------------------------------------------------------
(* The execution tiers. *)

TierNames == {"T1_ONE_SHOT", "T2_REPAIR_LOOP", "T3_PLANNER_EXECUTOR"}

LEMMA TierOrder ==
    /\ Range(AllowedTiers("AGIJobManager:v1")) = {"T1_ONE_SHOT", "T2_REPAIR_LOOP"}
    /\ Range(AllowedTiers("AGIPrime:v1")) = TierNames
    /\ NextOf(Tiers, "T1_ONE_SHOT") = "T2_REPAIR_LOOP"
    /\ NextOf(Tiers, "T2_REPAIR_LOOP") = "T3_PLANNER_EXECUTOR"
<1>1. Len(Tiers) = 3 /\ Tiers[1] = "T1_ONE_SHOT" /\ Tiers[2] = "T2_REPAIR_LOOP" /\ Tiers[3] = "T3_PLANNER_EXECUTOR"
      /\ DOMAIN Tiers = 1..3
  BY DEF Tiers
<1>2. /\ {i \in 1..3 : Tiers[i] = "T1_ONE_SHOT"} = {1}
      /\ {i \in 1..3 : Tiers[i] = "T2_REPAIR_LOOP"} = {2}
  BY <1>1
<1>3. Min({1}) = 1 /\ Min({2}) = 2 BY DEF Min
<1>4. NextOf(Tiers, "T1_ONE_SHOT") = "T2_REPAIR_LOOP"
  BY <1>1, <1>2, <1>3 DEF NextOf, SelectInSeq
<1>5. NextOf(Tiers, "T2_REPAIR_LOOP") = "T3_PLANNER_EXECUTOR"
  BY <1>1, <1>2, <1>3 DEF NextOf, SelectInSeq
<1>6. Range(Tiers) = TierNames BY <1>1 DEF Range, TierNames
<1>7. Range(SubSeq(Tiers, 1, 2)) = {"T1_ONE_SHOT", "T2_REPAIR_LOOP"}
  <2>1. Tiers \in Seq(TierNames) BY DEF Tiers, TierNames
  <2>2. DOMAIN SubSeq(Tiers, 1, 2) = 1..2 /\ SubSeq(Tiers, 1, 2)[1] = Tiers[1] /\ SubSeq(Tiers, 1, 2)[2] = Tiers[2]
    BY <1>1, <2>1
  <2> QED BY <1>1, <2>2 DEF Range
<1>8. AllowedTiers("AGIJobManager:v1") = SubSeq(Tiers, 1, 2) /\ AllowedTiers("AGIPrime:v1") = Tiers
  BY DEF AllowedTiers
<1> QED BY <1>4, <1>5, <1>6, <1>7, <1>8

Protocols == {"AGIJobManager:v1", "AGIPrime:v1"}

(* What shouldApply chose is a tier of the protocol. *)
LEMMA SelectedIsAllowed ==
    ASSUME NEW protocol \in Protocols, NEW f, FittingTiers(protocol, f) # {}
    PROVE  SelectedTier(protocol, f) \in Range(AllowedTiers(protocol))
<1> DEFINE order == AllowedTiers(protocol)
           fitting == FittingTiers(protocol, f)
           I == {i \in 1..Len(order) : order[i] \in fitting}
<1>1. Len(order) \in Nat /\ DOMAIN order = 1..Len(order)
  <2>1. order \in Seq(TierNames)
    <3>1. Tiers \in Seq(TierNames) /\ Len(Tiers) = 3 BY DEF Tiers, TierNames
    <3>2. SubSeq(Tiers, 1, 2) \in Seq(TierNames) BY <3>1
    <3> QED BY <3>1, <3>2 DEF AllowedTiers
  <2> HIDE DEF order
  <2> QED BY <2>1
<1>2. fitting \subseteq {order[i] : i \in 1..Len(order)} BY <1>1 DEF FittingTiers, Range
<1>3. SelectedTier(protocol, f) = order[IF I # {} THEN Min(I) ELSE 0] BY DEF SelectedTier, SelectInSeq
<1> HIDE DEF order, fitting
<1>4. I # {} /\ I \subseteq Nat
  <2>1. fitting # {} BY DEF fitting
  <2> QED BY <1>1, <1>2, <2>1
<1>5. \E n \in I : \A m \in I : n =< m
  <2>1. PICK k \in I : TRUE BY <1>4
  <2> HIDE DEF I
  <2>2. IsWellFoundedOn(OpToRel(<, Nat), Nat) BY NatLessThanWellFounded
  <2>3. PICK n \in I : \A m \in I : ~(<<m, n>> \in OpToRel(<, Nat)) BY <1>4, <2>1, <2>2, WFMin
  <2>4. \A m \in I : ~(m < n) BY <1>4, <2>3 DEF OpToRel
  <2>5. \A m \in I : n =< m BY <1>4, <2>4
  <2> QED BY <2>5
<1>6. Min(I) \in I BY <1>5 DEF Min
<1>7. SelectedTier(protocol, f) = order[Min(I)] BY <1>3, <1>4
<1>8. Min(I) \in 1..Len(order) BY <1>6
<1>9. order[Min(I)] \in Range(order) BY <1>1, <1>8 DEF Range
<1> QED BY <1>7, <1>9 DEF order

RunFields == {"at", "protocol", "tier", "calls", "tokens", "steps"}

(* A run is in the tier it was priced for, or in the next one; what it asked *)
(* is counted by its guards: the one of the tier it left, and that of the    *)
(* tier it is in.                                                            *)
TierInv ==
    /\ asked \in Nat
    /\ DOMAIN tierRun = RunFields
    /\ tierRun.at = "idle" => selected = "" /\ tried = {} /\ asked = 0
    /\ selected # "" =>
          /\ selected \in TierNames /\ tierRun.protocol \in Protocols /\ tierRun.tier \in TierNames
          /\ tierRun.calls \in 0..MaxModelCalls[tierRun.tier]
          /\ selected \in Range(AllowedTiers(tierRun.protocol))
          /\ \/ tried = {selected} /\ tierRun.tier = selected /\ asked <= tierRun.calls
             \/ /\ selected # "T3_PLANNER_EXECUTOR"
                /\ tierRun.tier = NextOf(Tiers, selected) /\ tried = {selected, tierRun.tier}
                /\ tierRun.tier \in Range(AllowedTiers(tierRun.protocol))
                /\ asked <= MaxModelCalls[selected] + tierRun.calls

LEMMA CallLimits ==
    /\ \A tier \in TierNames : MaxModelCalls[tier] \in Nat \ {0} /\ BudgetOf(tier) \in Nat
                               /\ MaxModelCalls[tier] <= BudgetOf(tier)
    /\ \A tier \in TierNames \ {"T3_PLANNER_EXECUTOR"} : NextOf(Tiers, tier) \in TierNames \ {tier}
<1>1. MaxModelCalls["T1_ONE_SHOT"] = 1 /\ MaxModelCalls["T2_REPAIR_LOOP"] = 3
      /\ MaxModelCalls["T3_PLANNER_EXECUTOR"] = 8
  BY DEF MaxModelCalls
<1>2. /\ \A tier \in TierNames : MaxModelCalls[tier] \in Nat \ {0} /\ BudgetOf(tier) \in Nat
                               /\ MaxModelCalls[tier] <= BudgetOf(tier)
  BY <1>1 DEF BudgetOf, TierNames
<1> QED BY <1>2, TierOrder DEF TierNames

(* Arithmetic on the limits, each with the plain numbers it is about. *)
LEMMA Within ==
    ASSUME NEW m \in Nat, NEW b \in Nat, NEW c \in 0..m, m <= b
    PROVE  c \in Nat /\ c <= b
OBVIOUS

LEMMA OneMore ==
    ASSUME NEW m \in Nat, NEW c \in 0..m, NEW a \in Nat, NEW n \in Nat, c + 1 <= m
    PROVE  /\ c + 1 \in 0..m /\ a + 1 \in Nat
           /\ a <= c => a + 1 <= c + 1
           /\ a <= n + c => a + 1 <= n + (c + 1)
OBVIOUS

LEMMA InOneTier ==
    ASSUME NEW a \in Nat, NEW c \in Nat, NEW b \in Nat, a <= c, c <= b
    PROVE  a <= b + 0 /\ \A n \in Nat : a <= b + n
OBVIOUS

LEMMA InTwoTiers ==
    ASSUME NEW a \in Nat, NEW m \in Nat, NEW c \in Nat, NEW b \in Nat, NEW n \in Nat,
           a <= m + c, m <= b, c <= n
    PROVE  a <= b + n
OBVIOUS

LEMMA CallsWithin ==
    ASSUME TierInv, selected # ""
    PROVE  /\ asked \in Nat /\ tierRun.calls \in Nat
           /\ MaxModelCalls[selected] \in Nat /\ BudgetOf(selected) \in Nat /\ BudgetOf(tierRun.tier) \in Nat
           /\ MaxModelCalls[selected] <= BudgetOf(selected)
           /\ tierRun.calls <= BudgetOf(tierRun.tier)
<1> DEFINE tier == tierRun.tier
           calls == tierRun.calls
<1>1. selected \in TierNames /\ tier \in TierNames /\ calls \in 0..MaxModelCalls[tier] /\ asked \in Nat
  BY DEF TierInv
<1>2. /\ MaxModelCalls[tier] \in Nat /\ BudgetOf(tier) \in Nat /\ MaxModelCalls[tier] <= BudgetOf(tier)
      /\ MaxModelCalls[selected] \in Nat /\ BudgetOf(selected) \in Nat
      /\ MaxModelCalls[selected] <= BudgetOf(selected)
  BY <1>1, CallLimits
<1> HIDE DEF tier, calls
<1>3. calls \in Nat /\ calls <= BudgetOf(tier) BY <1>1, <1>2, Within
<1> QED BY <1>1, <1>2, <1>3 DEF tier, calls

LEMMA TwoTiers == ASSUME NEW x, NEW y, x # y PROVE Cardinality({x, y}) = 2
<1>1. IsFiniteSet({x}) /\ Cardinality({x}) = 1 BY FS_Singleton
<1>2. {x} \cup {y} = {x, y} /\ y \notin {x} OBVIOUS
<1>3. Cardinality({x} \cup {y}) = Cardinality({x}) + 1 BY <1>1, <1>2, FS_AddElement
<1> QED BY <1>1, <1>2, <1>3

LEMMA OneEscalation == MaxEscalations = 1 /\ 1 <= 1 + MaxEscalations /\ 2 <= 1 + MaxEscalations
<1>1. MaxEscalations = 1 BY DEF MaxEscalations
<1> QED BY <1>1

LEMMA TierBounded == ASSUME TierInv PROVE SpendingBounded
<1> SUFFICES ASSUME selected # ""
    PROVE  /\ tried \subseteq Range(AllowedTiers(tierRun.protocol))
           /\ Cardinality(tried) <= 1 + MaxEscalations
           /\ asked <= BudgetOf(selected)
                    + (IF selected = "T3_PLANNER_EXECUTOR" THEN 0
                       ELSE BudgetOf(NextOf(Tiers, selected)))
  BY DEF SpendingBounded
<1>0. selected \in TierNames /\ selected \in Range(AllowedTiers(tierRun.protocol)) BY DEF TierInv
<1>a. 1 <= 1 + MaxEscalations /\ 2 <= 1 + MaxEscalations BY OneEscalation
<1>b. selected # "T3_PLANNER_EXECUTOR" => BudgetOf(NextOf(Tiers, selected)) \in Nat BY <1>0, CallLimits
<1>1. CASE tried = {selected} /\ tierRun.tier = selected /\ asked <= tierRun.calls
  <2>1. Cardinality(tried) = 1 BY <1>1, FS_Singleton
  <2>2. tierRun.calls <= BudgetOf(selected) BY <1>1, CallsWithin
  <2>3. asked <= BudgetOf(selected) + 0 /\ \A n \in Nat : asked <= BudgetOf(selected) + n
    BY <1>1, <2>2, CallsWithin, InOneTier
  <2>4. asked <= BudgetOf(selected) + (IF selected = "T3_PLANNER_EXECUTOR" THEN 0
                                       ELSE BudgetOf(NextOf(Tiers, selected)))
    BY <1>b, <2>3
  <2>5. tried \subseteq Range(AllowedTiers(tierRun.protocol)) BY <1>0, <1>1
  <2>6. Cardinality(tried) <= 1 + MaxEscalations BY <1>a, <2>1
  <2> QED BY <2>4, <2>5, <2>6
<1>2. CASE /\ selected # "T3_PLANNER_EXECUTOR"
           /\ tierRun.tier = NextOf(Tiers, selected) /\ tried = {selected, tierRun.tier}
           /\ tierRun.tier \in Range(AllowedTiers(tierRun.protocol))
           /\ asked <= MaxModelCalls[selected] + tierRun.calls
  <2>1. tierRun.tier # selected BY <1>0, <1>2, CallLimits
  <2>2. Cardinality(tried) = 2 BY <1>2, <2>1, TwoTiers
  <2>3. asked <= BudgetOf(selected) + BudgetOf(tierRun.tier) BY <1>2, CallsWithin, InTwoTiers
  <2>4. asked <= BudgetOf(selected) + (IF selected = "T3_PLANNER_EXECUTOR" THEN 0
                                       ELSE BudgetOf(NextOf(Tiers, selected)))
    BY <1>2, <2>3
  <2>5. tried \subseteq Range(AllowedTiers(tierRun.protocol)) BY <1>0, <1>2
  <2>6. Cardinality(tried) <= 1 + MaxEscalations BY <1>a, <2>2
  <2> QED BY <2>4, <2>5, <2>6
<1> QED BY <1>1, <1>2 DEF TierInv

LEMMA PricedRun ==
    ASSUME TierInv, NEW protocol \in Protocols, NEW f, NEW payout, NEW given,
           ExecuteWithEscalation(protocol, f, payout, given)
    PROVE  TierInv'
<1>1. tierRun = NoRun /\ selected = "" /\ tried = {} /\ asked = 0 /\ asked' = asked
  BY DEF ExecuteWithEscalation, TierInv, NoRun
<1>2. CASE ShouldApply(protocol, f, payout, given)
  <2> DEFINE tier == SelectedTier(protocol, f)
  <2>1. /\ tierRun' = [NoRun EXCEPT !.at = "call", !.protocol = protocol, !.tier = tier]
        /\ tried' = {tier} /\ selected' = tier
    BY <1>2 DEF ExecuteWithEscalation
  <2>2. tier \in Range(AllowedTiers(protocol)) BY <1>2, SelectedIsAllowed DEF ShouldApply
  <2>3. tier \in TierNames BY <2>2, TierOrder DEF Protocols, TierNames
  <2> HIDE DEF tier
  <2>4. /\ DOMAIN tierRun' = RunFields
        /\ tierRun'.at = "call" /\ tierRun'.protocol = protocol /\ tierRun'.tier = tier /\ tierRun'.calls = 0
    BY <2>1 DEF NoRun, RunFields
  <2>5. 0 \in 0..MaxModelCalls[tier] BY <2>3, CallLimits
  <2>6. asked' \in Nat /\ asked' <= tierRun'.calls /\ tierRun'.calls \in 0..MaxModelCalls[tierRun'.tier]
    <3>1. 0 \in Nat /\ 0 <= 0 OBVIOUS
    <3> QED BY <1>1, <2>4, <2>5, <3>1
  <2>7. tried' = {selected'} /\ tierRun'.tier = selected' /\ tierRun'.at # "idle" BY <2>1, <2>4
  <2>8. /\ selected' \in TierNames /\ tierRun'.protocol \in Protocols /\ tierRun'.tier \in TierNames
        /\ selected' \in Range(AllowedTiers(tierRun'.protocol))
    BY <2>1, <2>2, <2>3, <2>4
  <2> QED BY <2>4, <2>6, <2>7, <2>8 DEF TierInv
<1>3. CASE ~ShouldApply(protocol, f, payout, given)
  <2>1. DOMAIN tierRun' = RunFields /\ tierRun'.at = "NOT_APPLIED" /\ UNCHANGED <<tried, selected>>
    BY <1>3 DEF ExecuteWithEscalation, NoRun, RunFields
  <2> QED BY <1>1, <2>1 DEF TierInv
<1> QED BY <1>2, <1>3

LEMMA ModelAsked ==
    ASSUME TierInv, NEW used, NEW steps, ModelCall(used, steps), tierRun.at = "call", UNCHANGED <<tried, selected>>
    PROVE  TierInv'
<1>0. DOMAIN tierRun = RunFields /\ asked \in Nat BY DEF TierInv
<1>1. CASE ~HasCapacity(EstimatedTokens)
  <2>1. tierRun' = [tierRun EXCEPT !.at = "THREW"] /\ asked' = asked BY <1>1 DEF ModelCall
  <2>2. /\ DOMAIN tierRun' = RunFields /\ tierRun'.at = "THREW" /\ tierRun'.protocol = tierRun.protocol
        /\ tierRun'.tier = tierRun.tier /\ tierRun'.calls = tierRun.calls
    BY <1>0, <2>1 DEF RunFields
  <2> QED BY <2>1, <2>2 DEF TierInv
<1>2. CASE HasCapacity(EstimatedTokens)
  <2> DEFINE at == IF ~HasCapacity(used) THEN "THREW" ELSE IF steps = 0 THEN "validate" ELSE tierRun.at
  <2>1. /\ asked' = asked + 1
        /\ tierRun' = [tierRun EXCEPT !.at = at, !.calls = @ + 1, !.tokens = @ + used, !.steps = steps]
    BY <1>2 DEF ModelCall
  <2>2. at \in {"THREW", "validate", "call"} OBVIOUS
  <2> HIDE DEF at
  <2>3. /\ DOMAIN tierRun' = RunFields /\ tierRun'.at = at /\ tierRun'.protocol = tierRun.protocol
        /\ tierRun'.tier = tierRun.tier /\ tierRun'.calls = tierRun.calls + 1
    BY <1>0, <2>1 DEF RunFields
  <2>4. tierRun'.at # "idle" /\ asked' \in Nat BY <1>0, <2>1, <2>2, <2>3
  <2>5. CASE selected = "" BY <2>3, <2>4, <2>5 DEF TierInv
  <2>6. CASE selected # ""
    <3>1. tierRun.calls + 1 <= MaxModelCalls[tierRun.tier] BY <1>2 DEF HasCapacity
    <3>2. /\ selected \in TierNames /\ tierRun.tier \in TierNames
          /\ tierRun.calls \in 0..MaxModelCalls[tierRun.tier]
      BY <2>6 DEF TierInv
    <3>3. MaxModelCalls[selected] \in Nat /\ MaxModelCalls[tierRun.tier] \in Nat BY <3>2, CallLimits
    <3>4. /\ tierRun'.calls \in 0..MaxModelCalls[tierRun'.tier]
          /\ asked <= tierRun.calls => asked' <= tierRun'.calls
          /\ asked <= MaxModelCalls[selected] + tierRun.calls => asked' <= MaxModelCalls[selected] + tierRun'.calls
      BY <1>0, <2>1, <2>3, <3>1, <3>2, <3>3, OneMore
    <3> QED BY <2>3, <2>4, <2>6, <3>4 DEF TierInv
  <2> QED BY <2>5, <2>6
<1> QED BY <1>1, <1>2

(* What the verdict on a draft leads to: only a run in its first tier may    *)
(* escalate, and it begins the next one with nothing counted.                *)
LEMMA Validated ==
    ASSUME TierInv, NEW verdict, Validate(verdict)
    PROVE  TierInv'
<1>0. /\ DOMAIN tierRun = RunFields /\ asked \in Nat /\ asked' = asked /\ selected' = selected
      /\ tierRun.at = "validate"
  BY DEF TierInv, Validate
<1>1. ASSUME NEW at \in {"COMPLETED", "call", "FAILED"},
             tierRun' = [tierRun EXCEPT !.at = at], tried' = tried
      PROVE  TierInv'
  <2>1. /\ DOMAIN tierRun' = RunFields /\ tierRun'.at # "idle" /\ tierRun'.protocol = tierRun.protocol
        /\ tierRun'.tier = tierRun.tier /\ tierRun'.calls = tierRun.calls
    BY <1>0, <1>1 DEF RunFields
  <2> QED BY <1>0, <1>1, <2>1 DEF TierInv
<1>2. ASSUME CanEscalate(tierRun.protocol, tierRun.tier), StartTier(NextOf(Tiers, tierRun.tier))
      PROVE  TierInv'
  <2> DEFINE next == NextOf(Tiers, tierRun.tier)
  <2>1. /\ tierRun' = [tierRun EXCEPT !.at = "call", !.tier = next, !.calls = 0, !.tokens = 0, !.steps = 0]
        /\ tried' = tried \cup {next}
    BY <1>2 DEF StartTier
  <2>2. /\ tierRun.tier # "T3_PLANNER_EXECUTOR" /\ Cardinality(tried) <= MaxEscalations
        /\ next \in Range(AllowedTiers(tierRun.protocol))
    BY <1>2 DEF CanEscalate
  <2> HIDE DEF next
  <2>3. /\ DOMAIN tierRun' = RunFields /\ tierRun'.at = "call" /\ tierRun'.protocol = tierRun.protocol
        /\ tierRun'.tier = next /\ tierRun'.calls = 0
    BY <1>0, <2>1 DEF RunFields
  <2>4. CASE selected = "" BY <1>0, <2>3, <2>4 DEF TierInv
  <2>5. CASE selected # ""
    <3>1. selected \in TierNames /\ tierRun.tier \in TierNames /\ tierRun.protocol \in Protocols
      BY <2>5 DEF TierInv
    <3>2. ~(selected # "T3_PLANNER_EXECUTOR" /\ tierRun.tier = NextOf(Tiers, selected)
            /\ tried = {selected, tierRun.tier})
      <4> SUFFICES ASSUME selected # "T3_PLANNER_EXECUTOR", tierRun.tier = NextOf(Tiers, selected),
                          tried = {selected, tierRun.tier}
          PROVE  FALSE
        OBVIOUS
      <4>1. tierRun.tier # selected BY <3>1, CallLimits
      <4>2. Cardinality(tried) = 2 BY <4>1, TwoTiers
      <4>3. ~(2 <= MaxEscalations) BY OneEscalation
      <4> QED BY <2>2, <4>2, <4>3
    <3>3. tried = {selected} /\ tierRun.tier = selected /\ asked <= tierRun.calls
      BY <2>5, <3>2 DEF TierInv
    <3>4. next \in TierNames BY <2>2, <3>1, CallLimits DEF next
    <3>5. tierRun.calls \in 0..MaxModelCalls[selected] BY <2>5, <3>3 DEF TierInv
    <3>6. asked <= MaxModelCalls[selected] + 0 /\ 0 \in 0..MaxModelCalls[next]
      BY <1>0, <3>1, <3>3, <3>4, <3>5, CallLimits, Within, InOneTier
    <3>7. asked' <= MaxModelCalls[selected'] + tierRun'.calls /\ tierRun'.calls \in 0..MaxModelCalls[tierRun'.tier]
      BY <1>0, <2>3, <3>6
    <3>8. selected' # "T3_PLANNER_EXECUTOR" /\ tierRun'.tier = NextOf(Tiers, selected')
          /\ tried' = {selected', tierRun'.tier}
      BY <1>0, <2>1, <2>2, <2>3, <3>3 DEF next
    <3>9. selected' \in Range(AllowedTiers(tierRun'.protocol)) /\ tierRun'.tier \in Range(AllowedTiers(tierRun'.protocol))
      BY <1>0, <2>2, <2>3, <2>5 DEF TierInv
    <3> QED BY <1>0, <2>3, <3>1, <3>4, <3>7, <3>8, <3>9 DEF TierInv
  <2> QED BY <2>4, <2>5
<1>3. \/ \E at \in {"COMPLETED", "call", "FAILED"} : tierRun' = [tierRun EXCEPT !.at = at] /\ tried' = tried
      \/ CanEscalate(tierRun.protocol, tierRun.tier) /\ StartTier(NextOf(Tiers, tierRun.tier))
  BY DEF Validate
<1> QED BY <1>1, <1>2, <1>3

LEMMA TierStart == ASSUME TierInit PROVE TierInv
BY DEF TierInit, TierInv, NoRun, RunFields

LEMMA TierStep == ASSUME TierInv, [TierNext]_tierVars PROVE TierInv'
<1>1. CASE UNCHANGED <<tierRun, tried, asked, selected>> BY <1>1 DEF TierInv
<1>2. ASSUME NEW protocol \in Protocols, NEW f \in Features, NEW payout \in {0, 10000}, NEW given \in {{}, {5}, {9}},
             ExecuteWithEscalation(protocol, f, payout, given)
      PROVE  TierInv'
  BY <1>2, PricedRun
<1>3. ASSUME NEW used \in CallTokens, DraftOrRepair(used) PROVE TierInv'
  BY <1>3, ModelAsked DEF DraftOrRepair
<1>4. ASSUME NEW used \in CallTokens, PlanOrStep(used) PROVE TierInv'
  <2>1. tierRun.at = "call" /\ UNCHANGED <<tried, selected>> BY <1>4 DEF PlanOrStep
  <2>2. \E n : ModelCall(used, n) BY <1>4 DEF PlanOrStep
  <2> QED BY <2>1, <2>2, ModelAsked
<1>5. ASSUME NEW verdict, Validate(verdict) PROVE TierInv'
  BY <1>5, Validated
<1>6. ASSUME NEW file, WriteStageArtifact(file) PROVE TierInv'
  BY <1>1, <1>6 DEF WriteStageArtifact
<1>7. CASE AdvanceExecutionStage BY <1>1, <1>7 DEF AdvanceExecutionStage
<1>8. CASE LoadUnreadable BY <1>1, <1>8 DEF LoadUnreadable
<1>9. CASE UNCHANGED tierVars BY <1>1, <1>9 DEF tierVars
<1> QED BY <1>2, <1>3, <1>4, <1>5, <1>6, <1>7, <1>8, <1>9 DEF TierNext, Protocols

(* A job runs only in tiers of its protocol, in at most one more than it was *)
(* priced for, and asks no more models than those may ask (runModel and its  *)
(* guard, canEscalateTier), whatever the token budget and the answers are.   *)
THEOREM SpendingTheorem == TierSpec => []SpendingBounded
<1>1. TierInit => TierInv BY TierStart
<1>2. TierInv /\ [TierNext]_tierVars => TierInv' BY TierStep
<1>3. TierInv => SpendingBounded BY TierBounded
<1> QED BY <1>1, <1>2, <1>3, PTL DEF TierSpec

---------------------------------------------------------------------------
(* The scripts: what the files of one name show, for any deaths and runs     *)
(* that overwrite an earlier one.                                            *)

---------------------------------------------------------------------------
(* The operator's scripts. *)

(* The scripts that leave when all of their outputs are there. *)
ScriptStages == {"review", "draft", "material", "package", "action"}

Final(s) == Last(ScriptTable[s].outs)

LEMMA ScriptNames ==
    /\ DOMAIN ScriptTable = {"review", "draft", "material", "publish", "package", "unsigned", "seedPrime",
                             "inspect", "seedReview", "clear", "dryRun", "validate", "action"}
    /\ ScriptTable["review"] = CandidateReview /\ ScriptTable["draft"] = ApplicationDraft
    /\ ScriptTable["material"] = CommitMaterial /\ ScriptTable["publish"] = Publication
    /\ ScriptTable["package"] = CommitPackage /\ ScriptTable["unsigned"] = UnsignedTx
    /\ ScriptTable["seedPrime"] = SeedPrime /\ ScriptTable["inspect"] = Inspection
    /\ ScriptTable["seedReview"] = SeedReview /\ ScriptTable["clear"] = ClearQueue
    /\ ScriptTable["dryRun"] = DryRun /\ ScriptTable["validate"] = ValidateCompletion
    /\ ScriptTable["action"] = ActionPackage
BY DEF ScriptTable

LEMMA StagedFields ==
    ASSUME NEW needs, NEW outs, NEW leave, NEW inPlace
    PROVE  Staged(needs, outs, leave, inPlace).outs = outs /\ Staged(needs, outs, leave, inPlace).leave = leave
BY DEF Staged

LEMMA OutsOfStages ==
    /\ ScriptTable["review"].outs = <<"review_packet">>
    /\ ScriptTable["draft"].outs = <<"brief", "evidence", "payload", "app_manifest", "draft_review">>
    /\ ScriptTable["material"].outs = <<"commitment_material", "commitment_review", "commitment_manifest">>
    /\ ScriptTable["package"].outs = <<"unsigned_commit_tx", "commit_package_review">>
    /\ ScriptTable["action"].outs = <<"validator_action_tx", "validator_action_packet">>
BY ScriptNames, StagedFields DEF CandidateReview, ApplicationDraft, Drafted, CommitMaterial, CommitPackage, ActionPackage

LEMMA OutsOfOthers ==
    /\ ScriptTable["publish"].outs = <<"storage_pending", "staging_report">>
    /\ ScriptTable["unsigned"].outs = <<"unsigned_commit_tx">>
    /\ ScriptTable["seedPrime"].outs =
          <<"snapshot", "discovery_packet", "brief", "payload", "commitment_material", "fit_evaluation", "trial_files">>
    /\ ScriptTable["inspect"].outs = <<"inspection_report">>
    /\ ScriptTable["seedReview"].outs = <<"decision", "discovery_review", "spec">>
    /\ ScriptTable["clear"].outs = <<"marker">>
    /\ ScriptTable["dryRun"].outs =
          <<"dry_specs", "dry_decision", "dry_plan", "dry_deliverable", "dry_report", "dry_completion",
            "dry_unsigned_tx", "dry_run_manifest", "dry_review", "dry_manifest", "dry_completion">>
    /\ ScriptTable["validate"].outs = <<"validator_report", "validator_packet">>
BY ScriptNames, StagedFields DEF Publication, UnsignedTx, SeedPrime, Inspection, SeedReview, ClearQueue, DryRun,
   ValidateCompletion

LEMMA Leaves ==
    /\ \A s \in ScriptStages : ScriptTable[s].leave = "all"
    /\ \A s \in DOMAIN ScriptTable \ ScriptStages :
          ScriptTable[s].leave = IF s = "publish" THEN "each" ELSE IF s = "validate" THEN "any" ELSE "never"
<1>1. /\ ScriptTable["review"].leave = "all" /\ ScriptTable["draft"].leave = "all"
      /\ ScriptTable["material"].leave = "all" /\ ScriptTable["package"].leave = "all"
      /\ ScriptTable["action"].leave = "all"
  BY ScriptNames, StagedFields DEF CandidateReview, ApplicationDraft, CommitMaterial, CommitPackage, ActionPackage
<1>2. /\ ScriptTable["publish"].leave = "each" /\ ScriptTable["validate"].leave = "any"
      /\ ScriptTable["unsigned"].leave = "never" /\ ScriptTable["seedPrime"].leave = "never"
      /\ ScriptTable["inspect"].leave = "never" /\ ScriptTable["seedReview"].leave = "never"
      /\ ScriptTable["clear"].leave = "never" /\ ScriptTable["dryRun"].leave = "never"
  BY ScriptNames, StagedFields DEF Publication, UnsignedTx, SeedPrime, Inspection, SeedReview, ClearQueue, DryRun,
     ValidateCompletion
<1> QED BY <1>1, <1>2, ScriptNames DEF ScriptStages

LEMMA OutsSets ==
    /\ Outs("review") = {"review_packet"}
    /\ Outs("draft") = {"brief", "evidence", "payload", "app_manifest", "draft_review"}
    /\ Outs("material") = {"commitment_material", "commitment_review", "commitment_manifest"}
    /\ Outs("package") = {"unsigned_commit_tx", "commit_package_review"}
    /\ Outs("action") = {"validator_action_tx", "validator_action_packet"}
    /\ Outs("publish") = {"storage_pending", "staging_report"}
    /\ Outs("validate") = {"validator_report", "validator_packet"}
<1>1. \A s : Outs(s) = ToSet(ScriptTable[s].outs) BY DEF Outs
<1>2. Outs("review") = {"review_packet"}
  <2>1. ScriptTable["review"].outs = <<"review_packet">> BY OutsOfStages
  <2>2. ToSet(<<"review_packet">>) = {"review_packet"} BY DEF ToSet
  <2> QED BY <1>1, <2>1, <2>2, Zenon
<1>3. Outs("draft") = {"brief", "evidence", "payload", "app_manifest", "draft_review"}
  <2>1. ScriptTable["draft"].outs = <<"brief", "evidence", "payload", "app_manifest", "draft_review">> BY OutsOfStages
  <2>2. ToSet(<<"brief", "evidence", "payload", "app_manifest", "draft_review">>) =
            {"brief", "evidence", "payload", "app_manifest", "draft_review"}
    BY DEF ToSet
  <2> QED BY <1>1, <2>1, <2>2, Zenon
<1>4. Outs("material") = {"commitment_material", "commitment_review", "commitment_manifest"}
  <2>1. ScriptTable["material"].outs = <<"commitment_material", "commitment_review", "commitment_manifest">> BY OutsOfStages
  <2>2. ToSet(<<"commitment_material", "commitment_review", "commitment_manifest">>) =
            {"commitment_material", "commitment_review", "commitment_manifest"}
    BY DEF ToSet
  <2> QED BY <1>1, <2>1, <2>2, Zenon
<1>5. Outs("package") = {"unsigned_commit_tx", "commit_package_review"}
  <2>1. ScriptTable["package"].outs = <<"unsigned_commit_tx", "commit_package_review">> BY OutsOfStages
  <2>2. ToSet(<<"unsigned_commit_tx", "commit_package_review">>) = {"unsigned_commit_tx", "commit_package_review"} BY DEF ToSet
  <2> QED BY <1>1, <2>1, <2>2, Zenon
<1>6. Outs("action") = {"validator_action_tx", "validator_action_packet"}
  <2>1. ScriptTable["action"].outs = <<"validator_action_tx", "validator_action_packet">> BY OutsOfStages
  <2>2. ToSet(<<"validator_action_tx", "validator_action_packet">>) = {"validator_action_tx", "validator_action_packet"} BY DEF ToSet
  <2> QED BY <1>1, <2>1, <2>2, Zenon
<1>7. Outs("publish") = {"storage_pending", "staging_report"}
  <2>1. ScriptTable["publish"].outs = <<"storage_pending", "staging_report">> BY OutsOfOthers
  <2>2. ToSet(<<"storage_pending", "staging_report">>) = {"storage_pending", "staging_report"} BY DEF ToSet
  <2> QED BY <1>1, <2>1, <2>2, Zenon
<1>8. Outs("validate") = {"validator_report", "validator_packet"}
  <2>1. ScriptTable["validate"].outs = <<"validator_report", "validator_packet">> BY OutsOfOthers
  <2>2. ToSet(<<"validator_report", "validator_packet">>) = {"validator_report", "validator_packet"} BY DEF ToSet
  <2> QED BY <1>1, <2>1, <2>2, Zenon
<1> QED BY <1>2, <1>3, <1>4, <1>5, <1>6, <1>7, <1>8

(* Only scripts that overwrite write files of a stage that is not theirs.    *)
LEMMA StagesApart ==
    ASSUME NEW s \in ScriptStages, NEW t \in DOMAIN ScriptTable, t # s, Outs(t) \cap Outs(s) # {}
    PROVE  ScriptTable[t].leave = "never"
<1>1. t \in ScriptStages \cup {"publish", "validate"} => FALSE
  BY OutsSets DEF ScriptStages
<1> QED BY <1>1, Leaves

LEMMA FinalIsLast ==
    ASSUME NEW s \in ScriptStages
    PROVE  LET outs == ScriptTable[s].outs IN
           /\ outs \in Seq(Outs(s)) /\ Len(outs) \in Nat \ {0}
           /\ Final(s) = outs[Len(outs)] /\ Final(s) \in Outs(s)
           /\ Outs(s) = {outs[i] : i \in 1..Len(outs)}
           /\ \A i \in 1..(Len(outs) - 1) : outs[i] # Final(s)
<1> DEFINE outs == ScriptTable[s].outs
<1>1. outs \in {<<"review_packet">>, <<"brief", "evidence", "payload", "app_manifest", "draft_review">>,
               <<"commitment_material", "commitment_review", "commitment_manifest">>,
               <<"unsigned_commit_tx", "commit_package_review">>,
               <<"validator_action_tx", "validator_action_packet">>}
  BY OutsOfStages DEF ScriptStages
<1>2. Outs(s) = ToSet(outs) /\ Final(s) = outs[Len(outs)] BY DEF Outs, Final, Last
<1> HIDE DEF outs
<1> DEFINE Ends(q) == /\ Len(q) \in Nat \ {0} /\ DOMAIN q = 1..Len(q)
                      /\ \A i \in 1..(Len(q) - 1) : q[i] # q[Len(q)]
<1>3. Ends(outs)
  <2>1. Ends(<<"review_packet">>) OBVIOUS
  <2>2. Ends(<<"brief", "evidence", "payload", "app_manifest", "draft_review">>) OBVIOUS
  <2>3. Ends(<<"commitment_material", "commitment_review", "commitment_manifest">>) OBVIOUS
  <2>4. Ends(<<"unsigned_commit_tx", "commit_package_review">>) OBVIOUS
  <2>5. Ends(<<"validator_action_tx", "validator_action_packet">>) OBVIOUS
  <2> HIDE DEF Ends
  <2> QED BY <1>1, <2>1, <2>2, <2>3, <2>4, <2>5
<1>4. Outs(s) = {outs[i] : i \in 1..Len(outs)} BY <1>2, <1>3 DEF ToSet
<1>5. outs \in Seq(Outs(s))
  <2>1. outs = [i \in 1..Len(outs) |-> outs[i]]  BY <1>1
  <2>2. \A i \in 1..Len(outs) : outs[i] \in Outs(s) BY <1>4
  <2> QED BY <1>3, <2>1, <2>2
<1> QED BY <1>2, <1>3, <1>4, <1>5 DEF outs

LEMMA OutsAreSequences ==
    ASSUME NEW s \in DOMAIN ScriptTable
    PROVE  ScriptTable[s].outs \in Seq(Outs(s)) /\ Outs(s) \subseteq Files
<1> DEFINE outs == ScriptTable[s].outs
           IsSequence(q) == Len(q) \in Nat /\ q = [i \in 1..Len(q) |-> q[i]]
<1>1. IsSequence(outs)
  <2>1. CASE s \in ScriptStages
    <3>1. outs \in Seq(Outs(s)) BY <2>1, FinalIsLast
    <3> HIDE DEF outs
    <3> QED BY <3>1
  <2>2. CASE s \notin ScriptStages
    <3>1. outs \in {<<"storage_pending", "staging_report">>, <<"unsigned_commit_tx">>,
             <<"snapshot", "discovery_packet", "brief", "payload", "commitment_material", "fit_evaluation", "trial_files">>,
             <<"inspection_report">>, <<"decision", "discovery_review", "spec">>, <<"marker">>,
             <<"dry_specs", "dry_decision", "dry_plan", "dry_deliverable", "dry_report", "dry_completion",
               "dry_unsigned_tx", "dry_run_manifest", "dry_review", "dry_manifest", "dry_completion">>,
             <<"validator_report", "validator_packet">>}
      BY <2>2, OutsOfOthers, ScriptNames DEF ScriptStages
    <3>2. IsSequence(<<"storage_pending", "staging_report">>) OBVIOUS
    <3>3. IsSequence(<<"unsigned_commit_tx">>) OBVIOUS
    <3>4. IsSequence(<<"snapshot", "discovery_packet", "brief", "payload", "commitment_material", "fit_evaluation",
                       "trial_files">>) OBVIOUS
    <3>5. IsSequence(<<"inspection_report">>) OBVIOUS
    <3>6. IsSequence(<<"decision", "discovery_review", "spec">>) OBVIOUS
    <3>7. IsSequence(<<"marker">>) OBVIOUS
    <3>8. IsSequence(<<"dry_specs", "dry_decision", "dry_plan", "dry_deliverable", "dry_report", "dry_completion",
               "dry_unsigned_tx", "dry_run_manifest", "dry_review", "dry_manifest", "dry_completion">>) OBVIOUS
    <3>9. IsSequence(<<"validator_report", "validator_packet">>) OBVIOUS
    <3> HIDE DEF outs, IsSequence
    <3> QED BY <3>1, <3>2, <3>3, <3>4, <3>5, <3>6, <3>7, <3>8, <3>9
  <2> QED BY <2>1, <2>2
<1>2. Outs(s) = ToSet(outs) BY DEF Outs
<1> HIDE DEF outs
<1>3. \A i \in 1..Len(outs) : outs[i] \in Outs(s) BY <1>1, <1>2 DEF ToSet
<1>4. outs \in Seq(Outs(s)) BY <1>1, <1>3
<1>5. Outs(s) \subseteq Files BY DEF Files
<1> QED BY <1>4, <1>5 DEF outs

LEMMA PlansOfOuts ==
    ASSUME NEW s \in DOMAIN ScriptTable, NEW force \in BOOLEAN, NEW plan \in Plans(s, force), plan # <<>>
    PROVE  /\ plan \in Seq(Outs(s))
           /\ s \in ScriptStages => plan = ScriptTable[s].outs /\ (force \/ ~Complete(s))
<1>1. ScriptTable[s].outs \in Seq(Outs(s)) BY OutsAreSequences
<1>2. ToWrite(s, force) \in {ScriptTable[s].outs, <<>>} BY DEF ToWrite
<1>3. CASE s = "dryRun"
  <2> DEFINE all == ToWrite(s, force)
  <2>2. plan \in {all, RemoveAt(all, 7), SubSeq(all, 1, 5)} BY <1>3 DEF Plans
  <2>3. all = ScriptTable[s].outs /\ Len(all) = 11
    <3>1. ScriptTable[s].leave = "never" BY <1>3, Leaves DEF ScriptStages
    <3>2. all = ScriptTable[s].outs BY <3>1 DEF ToWrite
    <3>3. Len(ScriptTable[s].outs) = 11 BY <1>3, OutsOfOthers
    <3> QED BY <3>2, <3>3
  <2>1. all \in Seq(Outs(s)) BY <1>1, <2>3
  <2> HIDE DEF all
  <2>4. SubSeq(all, 1, 5) \in Seq(Outs(s)) /\ SubSeq(all, 1, 6) \in Seq(Outs(s)) /\ SubSeq(all, 8, 11) \in Seq(Outs(s))
    BY <2>1, <2>3
  <2>5. RemoveAt(all, 7) \in Seq(Outs(s)) BY <2>3, <2>4 DEF RemoveAt
  <2> QED BY <1>3, <2>1, <2>2, <2>4, <2>5 DEF ScriptStages
<1>4. CASE s # "dryRun"
  <2>1. plan = ToWrite(s, force) BY <1>4 DEF Plans
  <2>2. plan = ScriptTable[s].outs BY <1>2, <2>1
  <2>3. s \in ScriptStages /\ ~force => ~Complete(s)
    <3> SUFFICES ASSUME s \in ScriptStages, ~force, Complete(s) PROVE FALSE OBVIOUS
    <3>1. {f \in Outs(s) : There(f)} = Outs(s) BY DEF Complete
    <3>2. ScriptTable[s].leave = "all" BY Leaves
    <3>3. ToWrite(s, force) = <<>> BY <3>1, <3>2 DEF ToWrite
    <3> QED BY <2>1, <3>3
  <2> QED BY <1>1, <2>2, <2>3
<1> QED BY <1>3, <1>4

(* What is there of a stage, if its last output is. *)
WholeRun(s) ==
    \A f \in Outs(s) : /\ There(f) /\ written[f].run = written[Final(s)].run
                       /\ f # Final(s) => written[f].text # "half"

(* A run of a stage: what it still has to write is the rest of its outputs,  *)
(* those before are its own, and the last one was not there when it began.   *)
Progress(s) ==
    LET outs == ScriptTable[s].outs
        left == Len(script.todo)
        done == Len(outs) - left
    IN /\ left <= Len(outs)
       /\ \A i \in 1..left : script.todo[i] = outs[done + i]
       /\ \A i \in 1..done : There(outs[i]) /\ written[outs[i]].run = script.run
                             /\ written[outs[i]].text # "half"
       /\ s \notin torn /\ ~script.over /\ left > 0 => ~There(Final(s))

ScriptTypes ==
    /\ DOMAIN written = Files
    /\ \A f \in Files : DOMAIN written[f] = {"run", "text"}
    /\ script # NoScript =>
          /\ DOMAIN script = {"of", "run", "fixture", "todo", "over"}
          /\ script.of \in DOMAIN ScriptTable
          /\ script.todo \in Seq(Outs(script.of))
          /\ script.over \in BOOLEAN
          /\ ScriptTable[script.of].leave = "never" => script.over
          /\ script.over => Sharing(script.of) \subseteq torn

ScriptsInv ==
    /\ ScriptTypes
    /\ \A s \in ScriptStages \ torn : script.of # s /\ There(Final(s)) => WholeRun(s)
    /\ script.of \in ScriptStages => Progress(script.of)

LEMMA NobodyRuns == NoScript.of = "none" /\ "none" \notin DOMAIN ScriptTable
BY ScriptNames DEF NoScript

LEMMA StagesListed == ScriptStages \subseteq DOMAIN ScriptTable
BY ScriptNames DEF ScriptStages

LEMMA ScriptsInvInit == ASSUME ScriptsInit PROVE ScriptsInv
<1>1. script = NoScript BY DEF ScriptsInit
<1>2. Outs("draft") \subseteq Files /\ Outs("material") \subseteq Files
  BY OutsAreSequences, StagesListed DEF ScriptStages
<1>3. written = [f \in Files |->
                IF f \in BundleRead \cup {"completion_review"} THEN [run |-> <<"job", 1>>, text |-> "whole"]
                ELSE IF procState = "APPLICATION_DRAFTED" /\ f \in {"brief", "payload", "commitment_material"}
                THEN [run |-> <<"orchestrator", 1>>, text |-> "orchestrated"]
                ELSE NotWritten]
  BY DEF ScriptsInit
<1>4. \A f \in Files : DOMAIN written[f] = {"run", "text"} BY <1>3 DEF NotWritten
<1>5. \A s \in ScriptStages : ~There(Final(s))
  <2>1. \A s \in ScriptStages : Final(s) \in {"review_packet", "draft_review", "commitment_manifest",
                                       "commit_package_review", "validator_action_packet"}
    <3>1. Final("review") = "review_packet" BY OutsOfStages DEF Final, Last
    <3>2. Final("draft") = "draft_review" BY OutsOfStages DEF Final, Last
    <3>3. Final("material") = "commitment_manifest" BY OutsOfStages DEF Final, Last
    <3>4. Final("package") = "commit_package_review" BY OutsOfStages DEF Final, Last
    <3>5. Final("action") = "validator_action_packet" BY OutsOfStages DEF Final, Last
    <3> QED BY <3>1, <3>2, <3>3, <3>4, <3>5 DEF ScriptStages
  <2>2. \A s \in ScriptStages : Final(s) \in Files BY FinalIsLast, OutsAreSequences, StagesListed
  <2>3. NotWritten.text = "none" BY DEF NotWritten
  <2> QED BY <1>3, <2>1, <2>2, <2>3 DEF There, BundleRead
<1>6. ScriptTypes BY <1>1, <1>3, <1>4 DEF ScriptTypes
<1> QED BY <1>1, <1>5, <1>6, NobodyRuns, StagesListed DEF ScriptsInv

LEMMA BeginKeeps ==
    ASSUME ScriptsInv, NEW s \in DOMAIN ScriptTable, NEW fixture \in BOOLEAN, NEW force \in BOOLEAN,
           BeginScript(s, fixture, force)
    PROVE  ScriptsInv'
<1>1. PICK plan \in Plans(s, force) :
         /\ plan # <<>>
         /\ script' = [of |-> s, run |-> NewRun(s), fixture |-> fixture, todo |-> plan,
                       over |-> force \/ ScriptTable[s].leave = "never"]
  BY DEF BeginScript
<1> DEFINE over == force \/ ScriptTable[s].leave = "never"
           outs == ScriptTable[s].outs
<1>2. over \in BOOLEAN OBVIOUS
<1>3. /\ DOMAIN script' = {"of", "run", "fixture", "todo", "over"}
      /\ script'.of = s /\ script'.todo = plan /\ script'.over = over
  BY <1>1
<1>4. /\ written' = written /\ script = NoScript
      /\ torn' = IF script'.over THEN torn \cup Sharing(s) ELSE torn
  BY DEF BeginScript
<1>5. plan \in Seq(Outs(s)) /\ (s \in ScriptStages => plan = outs /\ (force \/ ~Complete(s)))
  BY <1>1, PlansOfOuts
<1>6. /\ ScriptTable[s].leave = "never" => script'.over
      /\ script'.over => Sharing(s) \subseteq torn'
      /\ torn \subseteq torn'
      /\ ~script'.over => torn' = torn /\ ~force
      /\ script'.over \in BOOLEAN
  BY <1>2, <1>3, <1>4
<1> HIDE DEF over
<1>7. ScriptTypes' BY <1>3, <1>4, <1>5, <1>6 DEF ScriptsInv, ScriptTypes
<1>8. \A t \in ScriptStages \ torn' : There(Final(t)) => WholeRun(t)
  BY <1>4, <1>6, NobodyRuns, StagesListed DEF ScriptsInv
<1>9. \A t : (There(t) <=> There(t)') /\ (WholeRun(t) <=> WholeRun(t)')
  BY <1>4 DEF There, WholeRun
<1>10. ASSUME s \in ScriptStages PROVE Progress(s)'
  <2>1. /\ script'.todo = outs /\ outs \in Seq(Outs(s)) /\ Len(outs) \in Nat \ {0}
    BY <1>3, <1>5, <1>10, FinalIsLast
  <2>2. ASSUME s \notin torn', ~script'.over PROVE ~There(Final(s))
    <3>1. ~force /\ s \notin torn BY <1>6, <2>2
    <3>2. ~Complete(s) BY <1>5, <1>10, <3>1
    <3>3. WholeRun(s) => Complete(s) BY DEF WholeRun, Complete
    <3>4. There(Final(s)) => WholeRun(s) BY <1>4, <1>10, <3>1, NobodyRuns, StagesListed DEF ScriptsInv
    <3> QED BY <3>2, <3>3, <3>4
  <2> HIDE DEF outs
  <2>3. Len(outs) - Len(script'.todo) = 0 /\ \A i \in 1..Len(outs) : script'.todo[i] = outs[0 + i] BY <2>1
  <2>4. ~There(Final(s))' \/ s \in torn' \/ script'.over BY <1>9, <2>2
  <2> QED BY <2>1, <2>3, <2>4 DEF Progress, outs
<1>11. \A t \in ScriptStages \ torn' : There(Final(t))' => WholeRun(t)' BY <1>8, <1>9
<1> QED BY <1>3, <1>7, <1>10, <1>11 DEF ScriptsInv

(* A write, whole or half, by a script: what it may do to a stage.           *)
LEMMA TextsOfOutputs ==
    ASSUME NEW s, NEW f
    PROVE  TextOf(s, f) \notin {"none", "half"}
<1>1. CASE f = "commitment_material" BY <1>1 DEF TextOf
<1>2. CASE f = "validator_report"
  <2>1. TextOf(s, f) = Recommended(jobBundle) BY <1>2 DEF TextOf
  <2>2. Recommended(jobBundle) \in {"invalid_bundle", "reject_candidate", "approve_candidate", "needs_human_review"}
    BY DEF Recommended
  <2> QED BY <2>1, <2>2
<1>3. CASE f \notin {"commitment_material", "validator_report"} BY <1>3 DEF TextOf
<1> QED BY <1>1, <1>2, <1>3

LEMMA NextOutput ==
    ASSUME ScriptsInv, script # NoScript, script.todo # <<>>
    PROVE  /\ Head(script.todo) \in Outs(script.of) /\ Outs(script.of) \subseteq Files
           /\ Head(script.todo) = script.todo[1] /\ Len(script.todo) \in Nat \ {0}
           /\ Tail(script.todo) \in Seq(Outs(script.of))
           /\ Len(Tail(script.todo)) = Len(script.todo) - 1
           /\ \A i \in 1..(Len(script.todo) - 1) : Tail(script.todo)[i] = script.todo[i + 1]
<1>1. script.of \in DOMAIN ScriptTable /\ script.todo \in Seq(Outs(script.of)) BY DEF ScriptsInv, ScriptTypes
<1>2. Outs(script.of) \subseteq Files BY <1>1, OutsAreSequences
<1> DEFINE todo == script.todo
           S == Outs(script.of)
<1>3. todo \in Seq(S) /\ todo # <<>> BY <1>1
<1> HIDE DEF todo, S
<1>4. Head(todo) \in S /\ Head(todo) = todo[1] /\ Len(todo) \in Nat \ {0} /\ Tail(todo) \in Seq(S)
      /\ Len(Tail(todo)) = Len(todo) - 1 /\ \A i \in 1..(Len(todo) - 1) : Tail(todo)[i] = todo[i + 1]
  BY <1>3
<1> QED BY <1>2, <1>4 DEF todo, S

(* A write to the outputs of another script leaves a stage that is not torn. *)
LEMMA OthersApart ==
    ASSUME ScriptsInv, script # NoScript, NEW s \in ScriptStages \ torn, s # script.of
    PROVE  Outs(s) \cap Outs(script.of) = {}
<1>1. script.of \in DOMAIN ScriptTable BY DEF ScriptsInv, ScriptTypes
<1>2. SUFFICES ASSUME Outs(script.of) \cap Outs(s) # {} PROVE FALSE OBVIOUS
<1>3. ScriptTable[script.of].leave = "never" BY <1>1, <1>2, StagesApart
<1>4. s \in Sharing(script.of) BY <1>1, <1>2, StagesListed DEF Sharing
<1> QED BY <1>3, <1>4 DEF ScriptsInv, ScriptTypes

LEMMA WriteKeeps ==
    ASSUME ScriptsInv, WriteOutput
    PROVE  ScriptsInv'
<1>0. PICK s : s = script.of OBVIOUS
<1> DEFINE f == Head(script.todo)
           text == TextOf(s, f)
<1>1. /\ script # NoScript /\ script.todo # <<>> /\ torn' = torn
      /\ script' = [script EXCEPT !.todo = Tail(script.todo)]
      /\ \/ Keeps(f) /\ written' = written
         \/ ~Keeps(f) /\ written' = [written EXCEPT ![f] = [run |-> script.run, text |-> text]]
  BY <1>0 DEF WriteOutput, Put
<1>2. /\ s \in DOMAIN ScriptTable /\ f \in Outs(s) /\ f \in Files /\ f = script.todo[1]
      /\ DOMAIN script = {"of", "run", "fixture", "todo", "over"}
      /\ script.todo \in Seq(Outs(s)) /\ Len(script.todo) \in Nat \ {0}
  BY <1>0, <1>1, NextOutput DEF ScriptsInv, ScriptTypes
<1>3. /\ DOMAIN script' = {"of", "run", "fixture", "todo", "over"}
      /\ script'.of = s /\ script'.todo = Tail(script.todo) /\ script'.over = script.over
      /\ script'.run = script.run
  BY <1>0, <1>1, <1>2
<1>4. text \notin {"none", "half"} BY TextsOfOutputs
<1>5. DOMAIN written = Files /\ \A g \in Files : DOMAIN written[g] = {"run", "text"}
  BY DEF ScriptsInv, ScriptTypes
<1>6. s \in ScriptStages => ~Keeps(f) BY <1>0, Leaves DEF Keeps
<1> HIDE DEF text
<1>7. /\ DOMAIN written' = Files /\ \A g \in Files : DOMAIN written'[g] = {"run", "text"}
      /\ \A g \in Files \ {f} : written'[g] = written[g]
      /\ ~Keeps(f) => written'[f].run = script.run /\ written'[f].text = text
  BY <1>1, <1>2, <1>5
<1> HIDE DEF f
<1>8. ScriptTypes'
  <2>1. Tail(script.todo) \in Seq(Outs(s)) BY <1>0, <1>1, NextOutput
  <2>2. /\ script.over \in BOOLEAN /\ (ScriptTable[s].leave = "never" => script.over)
        /\ (script.over => Sharing(s) \subseteq torn)
    BY <1>0, <1>1 DEF ScriptsInv, ScriptTypes
  <2> QED BY <1>1, <1>2, <1>3, <1>7, <2>1, <2>2 DEF ScriptTypes
<1>9. ASSUME NEW t \in ScriptStages \ torn', script'.of # t, There(Final(t))' PROVE WholeRun(t)'
  <2>1. t \in ScriptStages \ torn /\ t # script.of BY <1>0, <1>1, <1>3, <1>9
  <2>2. f \notin Outs(t) /\ Outs(t) \subseteq Files /\ Final(t) \in Outs(t)
    BY <1>0, <1>1, <1>2, <2>1, OthersApart, OutsAreSequences, StagesListed, FinalIsLast
  <2>3. \A g \in Outs(t) : written'[g] = written[g] BY <1>7, <2>2
  <2>4. There(Final(t)) BY <1>9, <2>2, <2>3 DEF There
  <2>5. WholeRun(t) BY <2>1, <2>4 DEF ScriptsInv
  <2> QED BY <2>2, <2>3, <2>5 DEF WholeRun, There
<1>10. ASSUME s \in ScriptStages PROVE Progress(s)'
  <2> DEFINE outs == ScriptTable[s].outs
             todo == script.todo
             left == Len(todo)
  <2>1. Progress(s) BY <1>0, <1>10 DEF ScriptsInv
  <2>2. /\ outs \in Seq(Outs(s)) /\ Len(outs) \in Nat \ {0} /\ Outs(s) = {outs[i] : i \in 1..Len(outs)}
        /\ Final(s) = outs[Len(outs)] /\ \A i \in 1..(Len(outs) - 1) : outs[i] # Final(s)
        /\ Final(s) \in Outs(s) /\ Outs(s) \subseteq Files
    BY <1>2, <1>10, FinalIsLast, OutsAreSequences
  <2>3. /\ left <= Len(outs) /\ left \in Nat \ {0}
        /\ \A i \in 1..left : todo[i] = outs[Len(outs) - left + i]
        /\ \A i \in 1..(Len(outs) - left) : written[outs[i]].text \notin {"none", "half"} /\ written[outs[i]].run = script.run
        /\ s \notin torn /\ ~script.over => written[Final(s)].text = "none"
    BY <1>2, <2>1 DEF Progress, There
  <2>4. /\ Len(script'.todo) = left - 1
        /\ \A i \in 1..(left - 1) : script'.todo[i] = todo[i + 1]
    BY <1>1, <1>3, NextOutput
  <2>5. /\ f = outs[Len(outs) - left + 1] BY <1>2, <2>3
  <2> HIDE DEF outs, left, todo
  <2>9. Len(outs) \in Nat /\ left \in Nat /\ left >= 1 /\ left <= Len(outs) BY <2>2, <2>3
  <2>6. \A i \in 1..(Len(outs) - (left - 1)) :
           written'[outs[i]].text \notin {"none", "half"} /\ written'[outs[i]].run = script.run
    <3> TAKE i \in 1..(Len(outs) - (left - 1))
    <3>1. i \in 1..Len(outs) /\ (i \in 1..(Len(outs) - left) \/ i = Len(outs) - left + 1) BY <2>9
    <3>2. CASE outs[i] = f BY <1>4, <1>6, <1>7, <1>10, <3>2
    <3>3. CASE outs[i] # f
      <4>1. outs[i] \in Files /\ i \in 1..(Len(outs) - left) BY <2>2, <2>5, <3>1, <3>3
      <4> QED BY <1>7, <2>3, <3>3, <4>1
    <3> QED BY <3>2, <3>3
  <2>7. ASSUME s \notin torn, ~script.over, left - 1 > 0 PROVE written'[Final(s)].text = "none"
    <3>0. Len(outs) - left + 1 \in 1..(Len(outs) - 1) BY <2>7, <2>9
    <3>1. f # Final(s) BY <2>2, <2>5, <3>0
    <3> QED BY <1>7, <2>2, <2>3, <2>7, <3>1
  <2>8. \A i \in 1..(left - 1) : script'.todo[i] = outs[Len(outs) - (left - 1) + i]
    <3> TAKE i \in 1..(left - 1)
    <3>1. script'.todo[i] = todo[i + 1] /\ i + 1 \in 1..left BY <2>3, <2>4
    <3>2. todo[i + 1] = outs[Len(outs) - left + (i + 1)] BY <2>3, <3>1
    <3>3. Len(outs) - left + (i + 1) = Len(outs) - (left - 1) + i BY <2>2, <2>3
    <3> QED BY <3>1, <3>2, <3>3
  <2>10. left - 1 <= Len(outs) BY <2>9
  <2>11. s \notin torn' /\ ~script'.over /\ left - 1 > 0 => written'[Final(s)].text = "none"
    BY <1>1, <1>3, <2>7
  <2>12. \A i \in 1..(Len(outs) - (left - 1)) :
           /\ written'[outs[i]].text # "none" /\ written'[outs[i]].run = script'.run
           /\ written'[outs[i]].text # "half"
    BY <1>3, <2>6
  <2> QED BY <2>4, <2>8, <2>10, <2>11, <2>12 DEF Progress, There, outs
<1> QED BY <1>3, <1>8, <1>9, <1>10 DEF ScriptsInv

(* A stage whose outputs are all written is whole. *)
LEMMA ProgressEnds ==
    ASSUME ScriptsInv, script # NoScript, script.of \in ScriptStages, script.todo = <<>>
    PROVE  WholeRun(script.of)
<1>1. PICK s : s = script.of OBVIOUS
<1> DEFINE outs == ScriptTable[s].outs
<1>2. Progress(s) /\ s \in ScriptStages BY <1>1 DEF ScriptsInv
<1>3. /\ Len(outs) \in Nat \ {0} /\ Outs(s) = {outs[i] : i \in 1..Len(outs)}
      /\ Final(s) = outs[Len(outs)]
  BY <1>2, FinalIsLast
<1>4. Len(script.todo) = 0 OBVIOUS
<1>5. \A i \in 1..(Len(outs) - 0) : There(outs[i]) /\ written[outs[i]].run = script.run
                                   /\ written[outs[i]].text # "half"
  BY <1>2, <1>4 DEF Progress
<1> HIDE DEF outs
<1>6. \A f \in Outs(s) : There(f) /\ written[f].run = script.run /\ written[f].text # "half" BY <1>3, <1>5
<1>7. written[Final(s)].run = script.run BY <1>3, <1>5
<1> QED BY <1>1, <1>6, <1>7 DEF WholeRun

LEMMA FinishKeeps ==
    ASSUME ScriptsInv, FinishScript
    PROVE  ScriptsInv'
<1>1. /\ script # NoScript /\ script.todo = <<>> /\ written' = written /\ script' = NoScript
      /\ torn' = torn \ {script.of}
  BY DEF FinishScript
<1>2. ScriptTypes' BY <1>1 DEF ScriptsInv, ScriptTypes
<1>3. ASSUME NEW t \in ScriptStages \ torn', There(Final(t))' PROVE WholeRun(t)'
  <2>1. WholeRun(t)
    <3>1. CASE t = script.of BY <1>1, <3>1, ProgressEnds
    <3>2. CASE t # script.of
      <4>1. t \in ScriptStages \ torn /\ There(Final(t)) BY <1>1, <1>3, <3>2 DEF There
      <4> QED BY <3>2, <4>1 DEF ScriptsInv
    <3> QED BY <3>1, <3>2
  <2> QED BY <1>1, <2>1 DEF WholeRun, There
<1> QED BY <1>1, <1>2, <1>3, NobodyRuns, StagesListed DEF ScriptsInv

(* A death leaves the last output away, or whole but for itself.             *)
LEMMA DieKeeps ==
    ASSUME ScriptsInv, DieInScript
    PROVE  ScriptsInv'
<1>0. PICK s : s = script.of OBVIOUS
<1>1. /\ script # NoScript /\ script' = NoScript
      /\ torn' = IF script.over THEN torn \cup {s} ELSE torn
      /\ \/ written' = written
         \/ /\ script.todo # <<>>
            /\ written' = [written EXCEPT ![Head(script.todo)] = [run |-> script.run, text |-> "half"]]
  BY <1>0 DEF DieInScript, Put
<1>2. s \in DOMAIN ScriptTable /\ DOMAIN written = Files
      /\ \A g \in Files : DOMAIN written[g] = {"run", "text"}
  BY <1>0, <1>1 DEF ScriptsInv, ScriptTypes
<1>3. DOMAIN written' = Files /\ \A g \in Files : DOMAIN written'[g] = {"run", "text"}
  BY <1>1, <1>2
<1>4. ScriptTypes' BY <1>1, <1>3 DEF ScriptTypes
<1>5. ASSUME NEW t \in ScriptStages \ torn', There(Final(t))', t # s PROVE WholeRun(t)'
  <2>1. t \in ScriptStages \ torn BY <1>1
  <2>2. Outs(t) \cap Outs(s) = {} /\ Outs(t) \subseteq Files /\ Final(t) \in Outs(t)
    BY <1>0, <1>1, <1>5, <2>1, OthersApart, OutsAreSequences, StagesListed, FinalIsLast
  <2>3. \A g \in Outs(t) : written'[g] = written[g]
    <3>1. script.todo # <<>> => Head(script.todo) \in Outs(s) BY <1>0, <1>1, NextOutput
    <3> QED BY <1>1, <1>2, <2>2, <3>1
  <2>4. There(Final(t)) BY <1>5, <2>2, <2>3 DEF There
  <2>5. WholeRun(t) BY <1>0, <1>5, <2>1, <2>4 DEF ScriptsInv
  <2> QED BY <2>2, <2>3, <2>5 DEF WholeRun, There
<1>6. ASSUME s \in ScriptStages, s \notin torn', There(Final(s))' PROVE WholeRun(s)'
  <2>1. s \notin torn /\ ~script.over BY <1>1, <1>6
  <2>2. CASE script.todo = <<>>
    <3>1. WholeRun(s) BY <1>0, <1>1, <1>6, <2>2, ProgressEnds
    <3>2. written' = written BY <1>1, <2>2
    <3> QED BY <3>1, <3>2 DEF WholeRun, There
  <2>3. CASE script.todo # <<>>
    <3> DEFINE outs == ScriptTable[s].outs
               left == Len(script.todo)
               f == Head(script.todo)
    <3>1. /\ outs \in Seq(Outs(s)) /\ Len(outs) \in Nat \ {0} /\ Outs(s) = {outs[i] : i \in 1..Len(outs)}
          /\ Final(s) = outs[Len(outs)] /\ Final(s) \in Outs(s) /\ Outs(s) \subseteq Files
      BY <1>2, <1>6, FinalIsLast, OutsAreSequences
    <3>2. left \in Nat \ {0} /\ f = script.todo[1] /\ f \in Outs(s) BY <1>0, <1>1, <2>3, NextOutput
    <3>3. Progress(s) BY <1>0, <1>6 DEF ScriptsInv
    <3>4. /\ left <= Len(outs) /\ f = outs[Len(outs) - left + 1]
          /\ \A i \in 1..(Len(outs) - left) : /\ written[outs[i]].text \notin {"none", "half"}
                                             /\ written[outs[i]].run = script.run
          /\ written[Final(s)].text = "none"
      <4>1. /\ left <= Len(outs)
            /\ \A i \in 1..left : script.todo[i] = outs[Len(outs) - left + i]
            /\ \A i \in 1..(Len(outs) - left) : There(outs[i]) /\ written[outs[i]].run = script.run
                                               /\ written[outs[i]].text # "half"
            /\ s \notin torn /\ ~script.over /\ left > 0 => ~There(Final(s))
        BY <3>3 DEF Progress
      <4>2. 1 \in 1..left /\ left > 0 BY <3>2
      <4>3. f = outs[Len(outs) - left + 1] BY <3>2, <4>1, <4>2
      <4>4. written[Final(s)].text = "none" BY <2>1, <4>1, <4>2 DEF There
      <4> QED BY <4>1, <4>3, <4>4 DEF There
    <3> HIDE DEF left, f, outs
    <3>5. written'[Final(s)].text # "none" BY <1>6 DEF There
    <3>6. written' = [written EXCEPT ![f] = [run |-> script.run, text |-> "half"]] /\ f = Final(s)
      BY <1>1, <1>2, <3>1, <3>4, <3>5 DEF f
    <3>7. written'[Final(s)].run = script.run /\ written'[Final(s)].text = "half"
      BY <1>2, <3>1, <3>6
    <3>8. left = 1
      <4>1. left > 1 => outs[Len(outs) - left + 1] # Final(s)
        <5>1. left > 1 => Len(outs) - left + 1 \in 1..(Len(outs) - 1)
          <6>1. Len(outs) \in Nat /\ left \in Nat /\ left <= Len(outs) BY <3>1, <3>2, <3>4
          <6> QED BY <6>1
        <5>2. \A i \in 1..(Len(outs) - 1) : outs[i] # Final(s) BY <1>6, FinalIsLast DEF outs
        <5> QED BY <5>1, <5>2
      <4> QED BY <3>2, <3>4, <3>6, <4>1
    <3>9. ASSUME NEW g \in Outs(s), g # Final(s)
          PROVE  written'[g].text \notin {"none", "half"} /\ written'[g].run = script.run
      <4>1. PICK i \in 1..Len(outs) : g = outs[i] BY <3>1
      <4>2. i \in 1..(Len(outs) - left) BY <3>1, <3>8, <3>9, <4>1
      <4>3. written'[g] = written[g] BY <1>2, <3>1, <3>6, <3>9
      <4> QED BY <3>4, <4>1, <4>2, <4>3
    <3> QED BY <3>1, <3>7, <3>9 DEF WholeRun, There
  <2> QED BY <2>2, <2>3
<1> QED BY <1>1, <1>4, <1>5, <1>6, NobodyRuns, StagesListed DEF ScriptsInv

LEMMA FillKeeps ==
    ASSUME ScriptsInv, FillMaterial
    PROVE  ScriptsInv'
<1> DEFINE m == "commitment_material"
           filled == [written[m] EXCEPT !.text = "filled"]
<1>1. /\ script = NoScript /\ UNCHANGED <<script, torn>> /\ Readable(m)
      /\ written' = [written EXCEPT ![m].text = "filled"]
  BY DEF FillMaterial
<1>2. DOMAIN written = Files /\ \A g \in Files : DOMAIN written[g] = {"run", "text"}
  BY DEF ScriptsInv, ScriptTypes
<1>3. m \in Files
  <2>1. m \in Outs("material") BY OutsSets
  <2> QED BY <2>1, OutsAreSequences, StagesListed DEF ScriptStages
<1>4. filled.text = "filled" /\ filled.run = written[m].run /\ DOMAIN filled = {"run", "text"} BY <1>2, <1>3
<1>5. written' = [written EXCEPT ![m] = filled] BY <1>1, <1>2, <1>3
<1> HIDE DEF filled
<1>6. /\ DOMAIN written' = Files
      /\ \A g \in Files : /\ DOMAIN written'[g] = {"run", "text"} /\ written'[g].run = written[g].run
                          /\ written'[g].text \in {written[g].text, "filled"}
                          /\ written'[g].text = "none" <=> written[g].text = "none"
  <2>1. written[m].text # "none" BY <1>1 DEF Readable, There
  <2> QED BY <1>2, <1>3, <1>4, <1>5, <2>1
<1>7. ScriptTypes' BY <1>1, <1>6 DEF ScriptTypes
<1>8. \A t \in ScriptStages : Outs(t) \subseteq Files /\ Final(t) \in Outs(t)
  BY OutsAreSequences, StagesListed, FinalIsLast
<1>9. ASSUME NEW t \in ScriptStages \ torn', There(Final(t))' PROVE WholeRun(t)'
  <2>1. There(Final(t)) BY <1>6, <1>8, <1>9 DEF There
  <2>2. WholeRun(t) BY <1>1, <2>1, NobodyRuns, StagesListed DEF ScriptsInv
  <2> QED BY <1>6, <1>8, <2>2 DEF WholeRun, There
<1> QED BY <1>1, <1>7, <1>9, NobodyRuns, StagesListed DEF ScriptsInv

(* Outputs that are all there come from one run, whole but perhaps the last, *)
(* unless a run that overwrites them was broken off: for any order of the    *)
(* scripts and any number of deaths and of runs that overwrite (the scripts  *)
(* build_prime_*, approve_prime_commit_package, build_validator_action_).    *)
THEOREM OneRunTheorem == ScriptsSpec => []OneRunUnlessTorn
<1>1. ScriptsInit => ScriptsInv BY ScriptsInvInit
<1>2. ASSUME ScriptsInv, [PrimeScriptsNext \/ JobScriptsNext]_scriptVars PROVE ScriptsInv'
  <2>1. CASE UNCHANGED scriptVars
    BY <1>2, <2>1 DEF scriptVars, ScriptsInv, ScriptTypes, Progress, WholeRun, There
  <2>2. ASSUME NEW s, NEW fixture \in BOOLEAN, NEW force \in BOOLEAN, s \in PrimeScripts \/ s \in JobScripts,
               BeginScript(s, fixture, force)
        PROVE  ScriptsInv'
    <3>1. s \in DOMAIN ScriptTable BY <2>2, ScriptNames DEF PrimeScripts, JobScripts
    <3> QED BY <1>2, <2>2, <3>1, BeginKeeps
  <2>3. CASE ScriptStep \/ DieInScript \/ FillMaterial
    BY <1>2, <2>3, WriteKeeps, FinishKeeps, DieKeeps, FillKeeps DEF ScriptStep
  <2> QED BY <1>2, <2>1, <2>2, <2>3 DEF PrimeScriptsNext, JobScriptsNext
<1>3. ASSUME ScriptsInv PROVE OneRunUnlessTorn
  <2> SUFFICES ASSUME NEW s \in DOMAIN ScriptTable \ torn, ScriptTable[s].leave = "all", Complete(s),
                      script = NoScript \/ script.of # s
               PROVE  /\ Cardinality({written[f].run : f \in Outs(s)}) = 1
                      /\ \A f \in Outs(s) \ {Last(ScriptTable[s].outs)} : Readable(f)
    BY DEF OneRunUnlessTorn
  <2>1. s \in ScriptStages BY Leaves
  <2>2. script.of # s BY NobodyRuns
  <2>3. Final(s) \in Outs(s) BY <2>1, FinalIsLast
  <2>4. WholeRun(s) BY <1>3, <2>1, <2>2, <2>3 DEF ScriptsInv, Complete
  <2>5. {written[f].run : f \in Outs(s)} = {written[Final(s)].run} BY <2>3, <2>4 DEF WholeRun
  <2>6. Cardinality({written[f].run : f \in Outs(s)}) = 1 BY <2>5, FS_Singleton
  <2>7. \A f \in Outs(s) \ {Final(s)} : Readable(f) BY <2>4 DEF WholeRun, Readable
  <2> QED BY <2>6, <2>7 DEF Final
<1> QED BY <1>1, <1>2, <1>3, PTL DEF ScriptsSpec
---------------------------------------------------------------------------
(* Sums over finite sets, in whatever order SumFunctionOnSet picks.         *)

(* A set of naturals that holds 0 and the successor of each member is Nat. *)
LEMMA SetOfAll ==
    ASSUME NEW N \in SUBSET Nat, 0 \in N, \A n \in N : n + 1 \in N
    PROVE  N = Nat
<1>1. SUFFICES ASSUME Nat \ N # {} PROVE FALSE OBVIOUS
<1>2. IsWellFoundedOn(OpToRel(<, Nat), Nat) BY NatLessThanWellFounded
<1>3. PICK n \in Nat \ N : \A m \in Nat \ N : ~(<<m, n>> \in OpToRel(<, Nat))
  <2>1. Nat \ N \subseteq Nat OBVIOUS
  <2>2. PICK a : a \in Nat \ N BY <1>1
  <2> QED BY <1>2, <2>1, <2>2, WFMin
<1>4. n - 1 \in Nat BY n # 0
<1>5. n - 1 \in N
  <2>1. <<n - 1, n>> \in OpToRel(<, Nat) BY <1>4 DEF OpToRel
  <2> QED BY <1>3, <1>4, <2>1
<1> QED BY <1>4, <1>5

Pick(s) == CHOOSE x \in s : TRUE
Total(f, g, s) == IF s = {} THEN 0 ELSE f[Pick(s)] + g[s \ {Pick(s)}]
Small(S, n) == {s \in SUBSET S : Cardinality(s) <= n}
RunsTo(f, g, D) == g = [s \in D |-> Total(f, g, s)]
Running(f, S) == CHOOSE g : RunsTo(f, g, SUBSET S)

LEMMA SumIs == ASSUME NEW f, NEW S PROVE SumFunctionOnSet(f, S) = Running(f, S)[S]
  BY DEF SumFunctionOnSet, FoldFunctionOnSet, MapThenFoldSet, Running, RunsTo, Total, Pick

LEMMA Smaller ==
    ASSUME NEW S, IsFiniteSet(S), NEW s \in SUBSET S, s # {}
    PROVE  /\ Pick(s) \in s
           /\ IsFiniteSet(s) /\ Cardinality(s) \in Nat
           /\ s \ {Pick(s)} \in SUBSET S
           /\ Cardinality(s \ {Pick(s)}) = Cardinality(s) - 1
<1>1. Pick(s) \in s BY DEF Pick
<1>2. IsFiniteSet(s) BY FS_Subset
<1>3. Cardinality(s) \in Nat BY <1>2, FS_CardinalityType
<1>4. Cardinality(s \ {Pick(s)}) = Cardinality(s) - 1 BY <1>1, <1>2, FS_RemoveElement
<1> QED BY <1>1, <1>2, <1>3, <1>4

LEMMA RunningExists == ASSUME NEW f, NEW S, IsFiniteSet(S) PROVE \E g : RunsTo(f, g, SUBSET S)
<1> DEFINE N == {n \in Nat : \E g : RunsTo(f, g, Small(S, n))}
<1>1. 0 \in N
  <2>1. \A s \in Small(S, 0) : s = {}
    <3>1. TAKE s \in Small(S, 0)
    <3>2. IsFiniteSet(s) BY FS_Subset DEF Small
    <3> QED BY <3>2, FS_EmptySet, FS_CardinalityType DEF Small
  <2>2. RunsTo(f, [s \in Small(S, 0) |-> 0], Small(S, 0)) BY <2>1 DEF RunsTo, Total
  <2> QED BY <2>2
<1>2. ASSUME NEW n \in N PROVE n + 1 \in N
  <2>1. PICK g : RunsTo(f, g, Small(S, n)) OBVIOUS
  <2> DEFINE h == [s \in Small(S, n + 1) |-> Total(f, g, s)]
  <2>2. ASSUME NEW s \in Small(S, n + 1) PROVE Total(f, g, s) = Total(f, h, s)
    <3>1. CASE s = {} BY <3>1 DEF Total
    <3>2. CASE s # {}
      <4> DEFINE t == s \ {Pick(s)}
      <4>1. t \in Small(S, n) /\ t \in Small(S, n + 1) BY <3>2, Smaller DEF Small
      <4>2. h[t] = Total(f, g, t) BY <4>1
      <4>3. g[t] = Total(f, g, t) BY <2>1, <4>1 DEF RunsTo
      <4> HIDE DEF h
      <4> QED BY <3>2, <4>2, <4>3 DEF Total
    <3> QED BY <3>1, <3>2
  <2>3. RunsTo(f, h, Small(S, n + 1)) BY <2>2 DEF RunsTo
  <2> QED BY <2>3
<1> HIDE DEF N
<1>3. N = Nat
  <2>1. N \subseteq Nat BY DEF N
  <2> QED BY <1>1, <1>2, <2>1, SetOfAll
<1>4. Cardinality(S) \in Nat BY FS_CardinalityType
<1>5. Small(S, Cardinality(S)) = SUBSET S BY FS_Subset DEF Small
<1>6. Cardinality(S) \in N BY <1>3, <1>4
<1>7. \E g : RunsTo(f, g, Small(S, Cardinality(S))) BY <1>6 DEF N
<1> QED BY <1>5, <1>7

LEMMA SumOfNone == ASSUME NEW f PROVE SumFunctionOnSet(f, {}) = 0
<1>1. IsFiniteSet({}) BY FS_EmptySet
<1>2. RunsTo(f, Running(f, {}), SUBSET {}) BY <1>1, RunningExists DEF Running
<1> QED BY <1>2, SumIs DEF RunsTo, Total

LEMMA RunningRuns == ASSUME NEW f, NEW S, IsFiniteSet(S) PROVE RunsTo(f, Running(f, S), SUBSET S)
BY RunningExists DEF Running

GrowsIn(S, Good) ==
    /\ {} \in Good
    /\ \A s \in SUBSET S : s # {} /\ (\A x \in s : s \ {x} \in Good) => s \in Good

(* Every subset of S is among those that grow from the empty set by one      *)
(* element at a time.                                                       *)
LEMMA SubsetsGrow ==
    ASSUME NEW S, IsFiniteSet(S), NEW Good, GrowsIn(S, Good)
    PROVE  SUBSET S \subseteq Good
<1> DEFINE N == {n \in Nat : Small(S, n) \subseteq Good}
<1>1. 0 \in N
  <2>1. ASSUME NEW s \in Small(S, 0) PROVE s \in Good
    <3>1. IsFiniteSet(s) BY FS_Subset DEF Small
    <3>2. s = {} BY <3>1, FS_EmptySet, FS_CardinalityType DEF Small
    <3> QED BY <3>2 DEF GrowsIn
  <2> QED BY <2>1
<1>2. ASSUME NEW n \in N PROVE n + 1 \in N
  <2>1. ASSUME NEW s \in Small(S, n + 1), s # {} PROVE s \in Good
    <3>1. ASSUME NEW x \in s PROVE s \ {x} \in Good
      <4>1. IsFiniteSet(s) BY FS_Subset DEF Small
      <4>2. Cardinality(s) \in Nat /\ Cardinality(s \ {x}) = Cardinality(s) - 1
        BY <4>1, FS_CardinalityType, FS_RemoveElement
      <4>3. s \ {x} \in Small(S, n) BY <4>2 DEF Small
      <4> QED BY <4>3
    <3> QED BY <2>1, <3>1 DEF Small, GrowsIn
  <2>2. {} \in Good BY DEF GrowsIn
  <2> QED BY <2>1, <2>2
<1> HIDE DEF N
<1>3. N = Nat
  <2>1. N \subseteq Nat BY DEF N
  <2> QED BY <1>1, <1>2, <2>1, SetOfAll
<1>4. SUFFICES ASSUME NEW s \in SUBSET S PROVE s \in Good OBVIOUS
<1>5. IsFiniteSet(s) BY FS_Subset
<1>6. Cardinality(s) \in N BY <1>3, <1>5, FS_CardinalityType
<1>7. s \in Small(S, Cardinality(s)) BY <1>5, FS_CardinalityType DEF Small
<1> QED BY <1>6, <1>7 DEF N

(* The sums of S and of a subset of it come from one function. *)
LEMMA SameRun ==
    ASSUME NEW f, NEW S, IsFiniteSet(S), NEW T \in SUBSET S
    PROVE  SumFunctionOnSet(f, T) = Running(f, S)[T]
<1> DEFINE g == Running(f, S)
           h == Running(f, T)
           Good == {s \in SUBSET T : g[s] = h[s]}
<1>1. IsFiniteSet(T) BY FS_Subset
<1>2. RunsTo(f, g, SUBSET S) /\ RunsTo(f, h, SUBSET T) BY <1>1, RunningRuns
<1>3. \A s \in SUBSET T : g[s] = Total(f, g, s) /\ h[s] = Total(f, h, s) BY <1>2 DEF RunsTo
<1> HIDE DEF g, h
<1>4. {} \in Good BY <1>3 DEF Total
<1>5. ASSUME NEW s \in SUBSET T, s # {}, \A x \in s : s \ {x} \in Good PROVE s \in Good
  <2>1. Pick(s) \in s BY <1>1, <1>5, Smaller
  <2>2. g[s \ {Pick(s)}] = h[s \ {Pick(s)}] BY <1>5, <2>1
  <2> QED BY <1>3, <1>5, <2>2 DEF Total
<1> HIDE DEF Good
<1>6. SUBSET T \subseteq Good
  <2>1. GrowsIn(T, Good) BY <1>4, <1>5 DEF GrowsIn
  <2> QED BY <1>1, <2>1, SubsetsGrow
<1>7. g[T] = h[T] BY <1>6 DEF Good
<1> QED BY <1>7, SumIs DEF g, h

(* One of the elements is added last. *)
LEMMA SumPicks ==
    ASSUME NEW f, NEW S, IsFiniteSet(S), S # {}
    PROVE  SumFunctionOnSet(f, S) = f[Pick(S)] + SumFunctionOnSet(f, S \ {Pick(S)})
<1>1. S \in SUBSET S /\ S \ {Pick(S)} \in SUBSET S OBVIOUS
<1>2. RunsTo(f, Running(f, S), SUBSET S) BY RunningRuns
<1>3. Running(f, S)[S] = Total(f, Running(f, S), S) BY <1>1, <1>2 DEF RunsTo
<1> QED BY <1>1, <1>3, SumIs, SameRun DEF Total

(* The sum of numbers is a number, *)
LEMMA SumIsInt ==
    ASSUME NEW f, NEW S, IsFiniteSet(S), \A x \in S : f[x] \in Int
    PROVE  SumFunctionOnSet(f, S) \in Int
<1> DEFINE Good == {s \in SUBSET S : SumFunctionOnSet(f, s) \in Int}
<1>1. {} \in Good BY SumOfNone
<1>2. ASSUME NEW s \in SUBSET S, s # {}, \A x \in s : s \ {x} \in Good PROVE s \in Good
  <2>1. Pick(s) \in s /\ Pick(s) \in S /\ IsFiniteSet(s) BY <1>2, Smaller
  <2>2. SumFunctionOnSet(f, s \ {Pick(s)}) \in Int BY <1>2, <2>1
  <2>3. SumFunctionOnSet(f, s) \in Int BY <1>2, <2>1, <2>2, SumPicks
  <2> QED BY <2>3
<1> HIDE DEF Good
<1>3. S \in Good
  <2>1. GrowsIn(S, Good) BY <1>1, <1>2 DEF GrowsIn
  <2> QED BY <2>1, SubsetsGrow
<1> QED BY <1>3 DEF Good

(* whichever element is added last, *)
LEMMA SumRemoves ==
    ASSUME NEW f, NEW S, IsFiniteSet(S), \A y \in S : f[y] \in Int, NEW x \in S
    PROVE  SumFunctionOnSet(f, S) = f[x] + SumFunctionOnSet(f, S \ {x})
<1> DEFINE Good == {s \in SUBSET S : \A y \in s : SumFunctionOnSet(f, s) = f[y] + SumFunctionOnSet(f, s \ {y})}
<1>1. {} \in Good OBVIOUS
<1>2. ASSUME NEW s \in SUBSET S, s # {}, \A y \in s : s \ {y} \in Good PROVE s \in Good
  <2> DEFINE p == Pick(s)
  <2>1. p \in s /\ IsFiniteSet(s) /\ IsFiniteSet(s \ {p})
    <3>1. p \in s /\ IsFiniteSet(s) BY <1>2, Smaller
    <3> QED BY <3>1, FS_RemoveElement
  <2>2. SumFunctionOnSet(f, s) = f[p] + SumFunctionOnSet(f, s \ {p}) BY <1>2, <2>1, SumPicks
  <2> HIDE DEF p
  <2>3. ASSUME NEW y \in s PROVE SumFunctionOnSet(f, s) = f[y] + SumFunctionOnSet(f, s \ {y})
    <3>1. CASE y = p BY <2>2, <3>1
    <3>2. CASE y # p
      <4>1. y \in s \ {p} /\ (s \ {p}) \ {y} = (s \ {y}) \ {p} BY <3>2
      <4>2. SumFunctionOnSet(f, s \ {p}) = f[y] + SumFunctionOnSet(f, (s \ {y}) \ {p}) BY <1>2, <2>1, <4>1
      <4>3. IsFiniteSet(s \ {y}) /\ p \in s \ {y} BY <2>1, <3>2, FS_RemoveElement
      <4>4. SumFunctionOnSet(f, s \ {y}) = f[p] + SumFunctionOnSet(f, (s \ {y}) \ {p})
        BY <1>2, <4>3
      <4>5. IsFiniteSet((s \ {y}) \ {p}) BY <4>3, FS_RemoveElement
      <4>6. SumFunctionOnSet(f, (s \ {y}) \ {p}) \in Int BY <4>5, SumIsInt
      <4> QED BY <2>1, <2>2, <4>2, <4>4, <4>6
    <3> QED BY <3>1, <3>2
  <2> QED BY <2>3
<1> HIDE DEF Good
<1>3. S \in Good
  <2>1. GrowsIn(S, Good) BY <1>1, <1>2 DEF GrowsIn
  <2> QED BY <2>1, SubsetsGrow
<1> QED BY <1>3 DEF Good

LEMMA Steps ==
    ASSUME NEW n \in Nat \ {0}, NEW low \in Int
    PROVE  low * (n - 1) \in Int /\ low * n = low + low * (n - 1)
OBVIOUS

(* Numbers that lie between two bounds have a sum between their multiples,   *)
LEMMA SumBetween ==
    ASSUME NEW f, NEW S, IsFiniteSet(S), NEW low \in Int, NEW high \in Int,
           \A x \in S : f[x] \in Int /\ low <= f[x] /\ f[x] <= high
    PROVE  /\ SumFunctionOnSet(f, S) \in Int
           /\ low * Cardinality(S) <= SumFunctionOnSet(f, S)
           /\ SumFunctionOnSet(f, S) <= high * Cardinality(S)
<1> DEFINE Multiples(s) == /\ low * Cardinality(s) <= SumFunctionOnSet(f, s)
                        /\ SumFunctionOnSet(f, s) <= high * Cardinality(s)
           Good == {s \in SUBSET S : Multiples(s)}
<1>1. {} \in Good BY SumOfNone, FS_EmptySet
<1>2. ASSUME NEW s \in SUBSET S, s # {}, \A x \in s : s \ {x} \in Good PROVE s \in Good
  <2> DEFINE p == Pick(s)
             rest == SumFunctionOnSet(f, s \ {p})
             n == Cardinality(s)
  <2>1. p \in s /\ p \in S /\ IsFiniteSet(s) /\ n \in Nat BY <1>2, Smaller
  <2>2. n # 0 BY <1>2, <2>1, FS_EmptySet
  <2>3. Cardinality(s \ {p}) = n - 1 /\ IsFiniteSet(s \ {p}) BY <2>1, FS_RemoveElement
  <2>4. SumFunctionOnSet(f, s) = f[p] + rest BY <1>2, <2>1, SumPicks
  <2>5. rest \in Int BY <2>3, SumIsInt
  <2>6. low * (n - 1) <= rest /\ rest <= high * (n - 1) BY <1>2, <2>1, <2>3
  <2>7. f[p] \in Int /\ low <= f[p] /\ f[p] <= high BY <2>1
  <2> HIDE DEF p, rest, n
  <2>8. low * (n - 1) \in Int /\ low * n = low + low * (n - 1) BY <2>1, <2>2, Steps
  <2>9. high * (n - 1) \in Int /\ high * n = high + high * (n - 1) BY <2>1, <2>2, Steps
  <2>10. low * n <= f[p] + rest /\ f[p] + rest <= high * n BY <2>5, <2>6, <2>7, <2>8, <2>9
  <2> QED BY <2>4, <2>10 DEF n
<1> HIDE DEF Good
<1>3. S \in Good
  <2>1. GrowsIn(S, Good) BY <1>1, <1>2 DEF GrowsIn
  <2> QED BY <2>1, SubsetsGrow
<1>4. Multiples(S) BY <1>3 DEF Good
<1> QED BY <1>4, SumIsInt

(* and fewer naturals have no larger one.                                    *)
LEMMA SumOfFewer ==
    ASSUME NEW f, NEW S, IsFiniteSet(S), \A x \in S : f[x] \in Nat, NEW T \in SUBSET S
    PROVE  /\ SumFunctionOnSet(f, S) \in Nat /\ SumFunctionOnSet(f, T) \in Nat
           /\ SumFunctionOnSet(f, T) <= SumFunctionOnSet(f, S)
<1> DEFINE Good == {s \in SUBSET S : /\ SumFunctionOnSet(f, s) \in Nat
                                     /\ SumFunctionOnSet(f, s \cap T) \in Nat
                                     /\ SumFunctionOnSet(f, s \cap T) <= SumFunctionOnSet(f, s)}
<1>1. {} \in Good BY SumOfNone
<1>2. ASSUME NEW s \in SUBSET S, s # {}, \A x \in s : s \ {x} \in Good PROVE s \in Good
  <2> DEFINE p == Pick(s)
  <2>1. p \in s /\ f[p] \in Nat /\ IsFiniteSet(s) BY <1>2, Smaller
  <2>2. SumFunctionOnSet(f, s) = f[p] + SumFunctionOnSet(f, s \ {p}) BY <1>2, <2>1, SumPicks
  <2>3. s \ {p} \in Good BY <1>2, <2>1
  <2>6. /\ SumFunctionOnSet(f, s \ {p}) \in Nat /\ SumFunctionOnSet(f, (s \ {p}) \cap T) \in Nat
        /\ SumFunctionOnSet(f, (s \ {p}) \cap T) <= SumFunctionOnSet(f, s \ {p})
    BY <2>3
  <2> HIDE DEF p
  <2>7. SUFFICES /\ SumFunctionOnSet(f, s) \in Nat /\ SumFunctionOnSet(f, s \cap T) \in Nat
                 /\ SumFunctionOnSet(f, s \cap T) <= SumFunctionOnSet(f, s)
    OBVIOUS
  <2>4. CASE p \in T
    <3>1. IsFiniteSet(s \cap T) /\ p \in s \cap T BY <2>1, <2>4, FS_Subset
    <3>2. \A x \in s \cap T : f[x] \in Int OBVIOUS
    <3>3. SumFunctionOnSet(f, s \cap T) = f[p] + SumFunctionOnSet(f, (s \cap T) \ {p})
      BY <3>1, <3>2, SumRemoves
    <3>4. (s \cap T) \ {p} = (s \ {p}) \cap T OBVIOUS
    <3>5. SumFunctionOnSet(f, s \cap T) = f[p] + SumFunctionOnSet(f, (s \ {p}) \cap T)
      BY <3>3, <3>4, Zenon
    <3> HIDE DEF Good
    <3> QED BY <2>1, <2>2, <2>6, <3>5
  <2>5. CASE p \notin T
    <3>1. s \cap T = (s \ {p}) \cap T BY <2>5
    <3> HIDE DEF Good
    <3> QED BY <2>1, <2>2, <2>6, <3>1
  <2> QED BY <2>4, <2>5
<1> HIDE DEF Good
<1>3. S \in Good
  <2>1. GrowsIn(S, Good) BY <1>1, <1>2 DEF GrowsIn
  <2> QED BY <2>1, SubsetsGrow
<1>4. S \cap T = T OBVIOUS
<1> QED BY <1>3, <1>4 DEF Good

---------------------------------------------------------------------------
(* The mean of n numbers, rounded down, lies between their bounds. *)
LEMMA QuotientBetween ==
    ASSUME NEW n \in Nat \ {0}, NEW sum \in Int, NEW low \in Int, NEW high \in Int,
           low * n <= sum, sum <= high * n
    PROVE  sum \div n \in Int /\ low <= sum \div n /\ sum \div n <= high
<1>1. PICK q \in Int : q = sum \div n OBVIOUS
<1>2. n * q <= sum /\ sum < n * q + n BY <1>1
<1>3. low <= q
  <2>1. SUFFICES ASSUME q + 1 <= low PROVE FALSE BY <1>1
  <2>2. (q + 1) * n <= low * n BY <2>1
  <2>3. (q + 1) * n = n * q + n OBVIOUS
  <2>4. low * n \in Int /\ n * q \in Int OBVIOUS
  <2> QED BY <1>2, <2>2, <2>3, <2>4
<1>4. q <= high
  <2>1. SUFFICES ASSUME high + 1 <= q PROVE FALSE BY <1>1
  <2>2. (high + 1) * n <= q * n BY <2>1
  <2>3. (high + 1) * n = high * n + n /\ q * n = n * q OBVIOUS
  <2>4. high * n \in Int /\ n * q \in Int OBVIOUS
  <2> QED BY <1>2, <2>2, <2>3, <2>4
<1> QED BY <1>1, <1>3, <1>4

(* The highest of finitely many by a measure f. *)
LEMMA HighestExists ==
    ASSUME NEW f, NEW S, IsFiniteSet(S), S # {}, \A x \in S : f[x] \in Int
    PROVE  \E m \in S : \A x \in S : f[x] <= f[m]
<1> DEFINE Good == {s \in SUBSET S : s # {} => \E m \in s : \A x \in s : f[x] <= f[m]}
<1>1. {} \in Good OBVIOUS
<1>2. ASSUME NEW s \in SUBSET S, s # {}, \A x \in s : s \ {x} \in Good PROVE s \in Good
  <2>1. PICK p \in s : TRUE BY <1>2
  <2>2. CASE s \ {p} = {} BY <2>1, <2>2
  <2>3. CASE s \ {p} # {}
    <3>1. PICK m \in s \ {p} : \A x \in s \ {p} : f[x] <= f[m] BY <1>2, <2>1, <2>3
    <3>2. f[m] \in Int /\ f[p] \in Int BY <2>1
    <3>3. CASE f[p] <= f[m]
      <4>1. \A x \in s : f[x] <= f[m] BY <3>1, <3>3
      <4> QED BY <4>1
    <3>4. CASE f[m] <= f[p]
      <4>1. \A x \in s : f[x] <= f[p]
        <5>1. TAKE x \in s
        <5>2. CASE x = p BY <3>2, <5>2
        <5>3. CASE x # p BY <3>1, <3>2, <3>4, <5>3
        <5> QED BY <5>2, <5>3
      <4> QED BY <4>1
    <3> QED BY <3>2, <3>3, <3>4
  <2> QED BY <2>2, <2>3
<1> HIDE DEF Good
<1>3. S \in Good
  <2>1. GrowsIn(S, Good) BY <1>1, <1>2 DEF GrowsIn
  <2> QED BY <2>1, SubsetsGrow
<1> QED BY <1>3 DEF Good

(* An order of the elements of S by f. *)
Climbs(f, s) == \A i, j \in DOMAIN s : i < j => f[s[i]] <= f[s[j]]

LEMMA OrderExists ==
    ASSUME NEW f, NEW S, IsFiniteSet(S), \A x \in S : f[x] \in Int
    PROVE  \E s \in SetToSeqs(S) : Climbs(f, s)
<1> DEFINE Good == {T \in SUBSET S : \E s \in SetToSeqs(T) : Climbs(f, s)}
<1>1. {} \in Good
  <2>1. Cardinality({}) = 0 /\ 1..0 = {} BY FS_EmptySet
  <2>2. <<>> \in [{} -> {}] OBVIOUS
  <2>3. <<>> \in SetToSeqs({}) BY <2>1, <2>2 DEF SetToSeqs
  <2>4. Climbs(f, <<>>) BY DEF Climbs
  <2> QED BY <2>3, <2>4
<1>2. ASSUME NEW T \in SUBSET S, T # {}, \A x \in T : T \ {x} \in Good PROVE T \in Good
  <2>1. IsFiniteSet(T) BY FS_Subset
  <2>2. PICK m \in T : \A x \in T : f[x] <= f[m] BY <1>2, <2>1, HighestExists
  <2>3. PICK s \in SetToSeqs(T \ {m}) : Climbs(f, s) BY <1>2
  <2>4. PICK n \in Nat : n = Cardinality(T \ {m}) BY <2>1, FS_RemoveElement, FS_CardinalityType
  <2>5. Cardinality(T) = n + 1
    <3>1. IsFiniteSet(T \ {m}) /\ m \notin T \ {m} /\ T = (T \ {m}) \cup {m} BY <2>1, FS_RemoveElement
    <3>2. Cardinality((T \ {m}) \cup {m}) = n + 1 BY <2>4, <3>1, FS_AddElement
    <3> QED BY <3>1, <3>2
  <2>6. s \in [1..n -> T \ {m}] /\ \A i, j \in 1..n : i # j => s[i] # s[j]
    BY <2>4 DEF SetToSeqs
  <2> DEFINE t == [i \in 1..(n + 1) |-> IF i = n + 1 THEN m ELSE s[i]]
  <2>7. \A i \in 1..n : t[i] = s[i] /\ s[i] \in T \ {m} BY <2>6
  <2>8. t[n + 1] = m /\ \A i \in 1..(n + 1) : i = n + 1 \/ i \in 1..n OBVIOUS
  <2>9. t \in [1..(n + 1) -> T] BY <2>6
  <2> HIDE DEF t
  <2>10. \A i, j \in 1..(n + 1) : i # j => t[i] # t[j] BY <2>6, <2>7, <2>8
  <2>11. t \in SetToSeqs(T) BY <2>5, <2>9, <2>10 DEF SetToSeqs
  <2>12. ASSUME NEW i \in 1..(n + 1), NEW j \in 1..(n + 1), i < j PROVE f[t[i]] <= f[t[j]]
    <3>1. i \in 1..n BY <2>12
    <3>2. CASE j = n + 1 BY <2>2, <2>7, <2>8, <3>1, <3>2
    <3>3. CASE j \in 1..n
      <4>1. DOMAIN s = 1..n BY <2>6
      <4> QED BY <2>3, <2>7, <2>12, <3>1, <3>3, <4>1 DEF Climbs
    <3> QED BY <2>8, <3>2, <3>3
  <2>13. Climbs(f, t) BY <2>9, <2>12 DEF Climbs
  <2> QED BY <2>11, <2>13
<1> HIDE DEF Good
<1>3. S \in Good
  <2>1. GrowsIn(S, Good) BY <1>1, <1>2 DEF GrowsIn
  <2> QED BY <2>1, SubsetsGrow
<1> QED BY <1>3 DEF Good

LEMMA SumAdds ==
    ASSUME NEW f, NEW S, IsFiniteSet(S), \A y \in S : f[y] \in Int, NEW x, x \notin S, f[x] \in Int
    PROVE  IsFiniteSet(S \cup {x}) /\ SumFunctionOnSet(f, S \cup {x}) = SumFunctionOnSet(f, S) + f[x]
<1>1. IsFiniteSet(S \cup {x}) BY FS_AddElement
<1>2. \A y \in S \cup {x} : f[y] \in Int OBVIOUS
<1>3. (S \cup {x}) \ {x} = S OBVIOUS
<1>4. SumFunctionOnSet(f, S \cup {x}) = f[x] + SumFunctionOnSet(f, S) BY <1>1, <1>2, <1>3, SumRemoves
<1>5. SumFunctionOnSet(f, S) \in Int BY SumIsInt
<1> QED BY <1>1, <1>4, <1>5

SumsTo(f, S, n) == IsFiniteSet(S) /\ (\A x \in S : f[x] \in Nat) /\ SumFunctionOnSet(f, S) = n

LEMMA AddsUp ==
    ASSUME NEW f, NEW S, NEW n \in Nat, SumsTo(f, S, n), NEW x, x \notin S, f[x] \in Nat
    PROVE  SumsTo(f, S \cup {x}, n + f[x])
<1>1. \A y \in S : f[y] \in Int BY DEF SumsTo
<1> QED BY <1>1, SumAdds DEF SumsTo

(* The sum of a few numbers, written out. *)
LEMMA SumOfOne ==
    ASSUME NEW f, NEW a,
           f[a] \in Nat
    PROVE  SumsTo(f, {a}, f[a])
<1>1. {} \cup {a} = {a} /\ 0 + f[a] = f[a] OBVIOUS
<1>2. SumsTo(f, {}, 0) BY SumOfNone, FS_EmptySet DEF SumsTo
<1>3. SumsTo(f, {} \cup {a}, 0 + f[a]) BY <1>2, AddsUp
<1> QED BY <1>1, <1>3

LEMMA SumOfTwo ==
    ASSUME NEW f, NEW a, NEW b,
           f[a] \in Nat, f[b] \in Nat,
           b \notin {a}
    PROVE  SumsTo(f, {a, b}, f[a] + f[b])
<1>1. {a} \cup {b} = {a, b} OBVIOUS
<1>2. SumsTo(f, {a}, f[a]) BY SumOfOne
<1>3. f[a] \in Nat OBVIOUS
<1>4. SumsTo(f, {a} \cup {b}, (f[a]) + f[b]) BY <1>2, <1>3, AddsUp
<1> QED BY <1>1, <1>4

LEMMA SumOfThree ==
    ASSUME NEW f, NEW a, NEW b, NEW c,
           f[a] \in Nat, f[b] \in Nat, f[c] \in Nat,
           b \notin {a}, c \notin {a, b}
    PROVE  SumsTo(f, {a, b, c}, f[a] + f[b] + f[c])
<1>1. {a, b} \cup {c} = {a, b, c} OBVIOUS
<1>2. SumsTo(f, {a, b}, f[a] + f[b]) BY SumOfTwo
<1>3. f[a] + f[b] \in Nat OBVIOUS
<1>4. SumsTo(f, {a, b} \cup {c}, (f[a] + f[b]) + f[c]) BY <1>2, <1>3, AddsUp
<1> QED BY <1>1, <1>4

LEMMA SumOfFour ==
    ASSUME NEW f, NEW a, NEW b, NEW c, NEW d,
           f[a] \in Nat, f[b] \in Nat, f[c] \in Nat, f[d] \in Nat,
           b \notin {a}, c \notin {a, b}, d \notin {a, b, c}
    PROVE  SumsTo(f, {a, b, c, d}, f[a] + f[b] + f[c] + f[d])
<1>1. {a, b, c} \cup {d} = {a, b, c, d} OBVIOUS
<1>2. SumsTo(f, {a, b, c}, f[a] + f[b] + f[c]) BY SumOfThree
<1>3. f[a] + f[b] + f[c] \in Nat OBVIOUS
<1>4. SumsTo(f, {a, b, c} \cup {d}, (f[a] + f[b] + f[c]) + f[d]) BY <1>2, <1>3, AddsUp
<1> QED BY <1>1, <1>4

LEMMA SumOfFive ==
    ASSUME NEW f, NEW a, NEW b, NEW c, NEW d, NEW e,
           f[a] \in Nat, f[b] \in Nat, f[c] \in Nat, f[d] \in Nat, f[e] \in Nat,
           b \notin {a}, c \notin {a, b}, d \notin {a, b, c}, e \notin {a, b, c, d}
    PROVE  SumsTo(f, {a, b, c, d, e}, f[a] + f[b] + f[c] + f[d] + f[e])
<1>1. {a, b, c, d} \cup {e} = {a, b, c, d, e} OBVIOUS
<1>2. SumsTo(f, {a, b, c, d}, f[a] + f[b] + f[c] + f[d]) BY SumOfFour
<1>3. f[a] + f[b] + f[c] + f[d] \in Nat OBVIOUS
<1>4. SumsTo(f, {a, b, c, d} \cup {e}, (f[a] + f[b] + f[c] + f[d]) + f[e]) BY <1>2, <1>3, AddsUp
<1> QED BY <1>1, <1>4

LEMMA SumOfSix ==
    ASSUME NEW f, NEW a, NEW b, NEW c, NEW d, NEW e, NEW g,
           f[a] \in Nat, f[b] \in Nat, f[c] \in Nat, f[d] \in Nat, f[e] \in Nat, f[g] \in Nat,
           b \notin {a}, c \notin {a, b}, d \notin {a, b, c}, e \notin {a, b, c, d}, g \notin {a, b, c, d, e}
    PROVE  SumsTo(f, {a, b, c, d, e, g}, f[a] + f[b] + f[c] + f[d] + f[e] + f[g])
<1>1. {a, b, c, d, e} \cup {g} = {a, b, c, d, e, g} OBVIOUS
<1>2. SumsTo(f, {a, b, c, d, e}, f[a] + f[b] + f[c] + f[d] + f[e]) BY SumOfFive
<1>3. f[a] + f[b] + f[c] + f[d] + f[e] \in Nat OBVIOUS
<1>4. SumsTo(f, {a, b, c, d, e} \cup {g}, (f[a] + f[b] + f[c] + f[d] + f[e]) + f[g]) BY <1>2, <1>3, AddsUp
<1> QED BY <1>1, <1>4

LEMMA SumOfSeven ==
    ASSUME NEW f, NEW a, NEW b, NEW c, NEW d, NEW e, NEW g, NEW h,
           f[a] \in Nat, f[b] \in Nat, f[c] \in Nat, f[d] \in Nat, f[e] \in Nat, f[g] \in Nat, f[h] \in Nat,
           b \notin {a}, c \notin {a, b}, d \notin {a, b, c}, e \notin {a, b, c, d}, g \notin {a, b, c, d, e}, h \notin {a, b, c, d, e, g}
    PROVE  SumsTo(f, {a, b, c, d, e, g, h}, f[a] + f[b] + f[c] + f[d] + f[e] + f[g] + f[h])
<1>1. {a, b, c, d, e, g} \cup {h} = {a, b, c, d, e, g, h} OBVIOUS
<1>2. SumsTo(f, {a, b, c, d, e, g}, f[a] + f[b] + f[c] + f[d] + f[e] + f[g]) BY SumOfSix
<1>3. f[a] + f[b] + f[c] + f[d] + f[e] + f[g] \in Nat OBVIOUS
<1>4. SumsTo(f, {a, b, c, d, e, g} \cup {h}, (f[a] + f[b] + f[c] + f[d] + f[e] + f[g]) + f[h]) BY <1>2, <1>3, AddsUp
<1> QED BY <1>1, <1>4
---------------------------------------------------------------------------
(* A validator's review. *)

Hundred(d) ==
    /\ IsFiniteSet(DOMAIN Points[d])
    /\ \A check \in DOMAIN Points[d] : Points[d][check] \in Nat
    /\ SumFunctionOnSet(Points[d], DOMAIN Points[d]) = 100

(* The checks of each dimension are worth a hundred points, *)
LEMMA PointsOfDimensions == \A d \in DOMAIN Weights : Hundred(d)
<1>1. Hundred("spec")
  <2> DEFINE p == Points["spec"]
  <2>1. /\ DOMAIN p = {"headings", "substantive", "noPlaceholders", "code", "lists", "linkedJob", "accessible"}
        /\ p["headings"] = 20 /\ p["substantive"] = 20 /\ p["noPlaceholders"] = 15 /\ p["code"] = 10
        /\ p["lists"] = 10 /\ p["linkedJob"] = 15 /\ p["accessible"] = 10
    BY DEF Points
  <2> HIDE DEF p
  <2>3. SumsTo(p, DOMAIN p, 100) BY <2>1, SumOfSeven
  <2> QED BY <2>3 DEF Hundred, SumsTo, p
<1>2. Hundred("quality")
  <2> DEFINE p == Points["quality"]
  <2>1. /\ DOMAIN p = {"ratio", "introduction", "conclusion", "sections", "words", "noDisclaimer"}
        /\ p["ratio"] = 25 /\ p["introduction"] = 15 /\ p["conclusion"] = 15 /\ p["sections"] = 20
        /\ p["words"] = 15 /\ p["noDisclaimer"] = 10
    BY DEF Points
  <2> HIDE DEF p
  <2>2. SumsTo(p, {"ratio", "introduction", "conclusion", "sections", "words", "noDisclaimer"},
               p["ratio"] + p["introduction"] + p["conclusion"] + p["sections"] + p["words"] + p["noDisclaimer"])
    <3>1. /\ "introduction" \notin {"ratio"} /\ "conclusion" \notin {"ratio", "introduction"}
          /\ "sections" \notin {"ratio", "introduction", "conclusion"}
          /\ "words" \notin {"ratio", "introduction", "conclusion", "sections"}
          /\ "noDisclaimer" \notin {"ratio", "introduction", "conclusion", "sections", "words"}
      OBVIOUS
    <3>2. /\ p["ratio"] \in Nat /\ p["introduction"] \in Nat /\ p["conclusion"] \in Nat
          /\ p["sections"] \in Nat /\ p["words"] \in Nat /\ p["noDisclaimer"] \in Nat
      BY <2>1
    <3> QED BY <3>1, <3>2, SumOfSix
  <2>3. SumsTo(p, DOMAIN p, 100) BY <2>1, <2>2
  <2> QED BY <2>3 DEF Hundred, SumsTo, p
<1>3. Hundred("public")
  <2> DEFINE p == Points["public"]
  <2>1. /\ DOMAIN p = {"cid", "fetched", "uri", "adequate"}
        /\ p["cid"] = 30 /\ p["fetched"] = 30 /\ p["uri"] = 20 /\ p["adequate"] = 20
    BY DEF Points
  <2> HIDE DEF p
  <2>3. SumsTo(p, DOMAIN p, 100) BY <2>1, SumOfFour
  <2> QED BY <2>3 DEF Hundred, SumsTo, p
<1>4. Hundred("timely")
  <2> DEFINE p == Points["timely"]
  <2>1. /\ DOMAIN p = {"beforeTrialDeadline", "beforeScoreCommit", "scorePhase"}
        /\ p["beforeTrialDeadline"] = 50 /\ p["beforeScoreCommit"] = 25 /\ p["scorePhase"] = 25
    BY DEF Points
  <2> HIDE DEF p
  <2>3. SumsTo(p, DOMAIN p, 100) BY <2>1, SumOfThree
  <2> QED BY <2>3 DEF Hundred, SumsTo, p
<1>5. Hundred("reuse")
  <2> DEFINE p == Points["reuse"]
  <2>1. /\ DOMAIN p = {"patterns", "references", "examples", "structured", "steps"}
        /\ p["patterns"] = 25 /\ p["references"] = 20 /\ p["examples"] = 25
        /\ p["structured"] = 15 /\ p["steps"] = 15
    BY DEF Points
  <2> HIDE DEF p
  <2>3. SumsTo(p, DOMAIN p, 100) BY <2>1, SumOfFive
  <2> QED BY <2>3 DEF Hundred, SumsTo, p
<1> QED BY <1>1, <1>2, <1>3, <1>4, <1>5 DEF Weights

LEMMA DimensionBounded ==
    ASSUME NEW d \in DOMAIN Weights, NEW passed, NEW hasContent
    PROVE  Dimension(d, passed, hasContent) \in 0..100
<1>1. Hundred(d) BY PointsOfDimensions
<1>2. DOMAIN Points[d] \cap passed \in SUBSET DOMAIN Points[d] OBVIOUS
<1>3. SumFunctionOnSet(Points[d], DOMAIN Points[d] \cap passed) \in 0..100
  BY <1>1, <1>2, SumOfFewer DEF Hundred
<1> QED BY <1>3 DEF Dimension

LEMMA WeightedTotal ==
    ASSUME NEW a \in Nat, NEW b \in Nat, NEW c \in Nat, NEW d \in Nat, NEW e \in Nat,
           a <= 3000, b <= 2500, c <= 2000, d <= 1500, e <= 1000
    PROVE  (a + b + c + d + e) \div 100 \in 0..100
OBVIOUS

(* Whatever checks a content passes, its score lies between 0 and 100: the   *)
(* clamp of normalizeScore never cuts a score off.                           *)
THEOREM ScoreInRange ==
    \A passed, hasContent : AdjudicateScore(passed, hasContent) \in 0..100
<1> TAKE passed, hasContent
<1>0. PICK f : f = [d \in DOMAIN Weights |-> Dimension(d, passed, hasContent) * Weights[d]] OBVIOUS
<1>1. DOMAIN Weights = {"spec", "quality", "public", "timely", "reuse"}
      /\ Weights["spec"] = 30 /\ Weights["quality"] = 25 /\ Weights["public"] = 20
      /\ Weights["timely"] = 15 /\ Weights["reuse"] = 10
  BY DEF Weights
<1>2. /\ f["spec"] \in Nat /\ f["quality"] \in Nat /\ f["public"] \in Nat
      /\ f["timely"] \in Nat /\ f["reuse"] \in Nat
      /\ f["spec"] <= 3000 /\ f["quality"] <= 2500 /\ f["public"] <= 2000
      /\ f["timely"] <= 1500 /\ f["reuse"] <= 1000
  BY <1>0, <1>1, DimensionBounded
<1>3. DOMAIN f = {"spec", "quality", "public", "timely", "reuse"} BY <1>0, <1>1
<1>4. AdjudicateScore(passed, hasContent) = SumFunctionOnSet(f, DOMAIN f) \div 100
  BY <1>0 DEF AdjudicateScore, SumFunction
<1>5. PICK a, b, c, d, e : /\ a = f["spec"] /\ b = f["quality"] /\ c = f["public"]
                           /\ d = f["timely"] /\ e = f["reuse"]
  OBVIOUS
<1>6. /\ a \in Nat /\ b \in Nat /\ c \in Nat /\ d \in Nat /\ e \in Nat
      /\ a <= 3000 /\ b <= 2500 /\ c <= 2000 /\ d <= 1500 /\ e <= 1000
  BY <1>2, <1>5
<1>7. SumsTo(f, DOMAIN f, a + b + c + d + e)
  <2>1. /\ "quality" \notin {"spec"} /\ "public" \notin {"spec", "quality"}
        /\ "timely" \notin {"spec", "quality", "public"}
        /\ "reuse" \notin {"spec", "quality", "public", "timely"}
    OBVIOUS
  <2>2. /\ f["spec"] \in Nat /\ f["quality"] \in Nat /\ f["public"] \in Nat
        /\ f["timely"] \in Nat /\ f["reuse"] \in Nat
    BY <1>5, <1>6
  <2>3. SumsTo(f, {"spec", "quality", "public", "timely", "reuse"},
               f["spec"] + f["quality"] + f["public"] + f["timely"] + f["reuse"])
    BY <2>1, <2>2, SumOfFive
  <2> QED BY <1>3, <1>5, <2>3
<1>8. SumFunctionOnSet(f, DOMAIN f) = a + b + c + d + e BY <1>7 DEF SumsTo
<1>9. (a + b + c + d + e) \div 100 \in 0..100 BY <1>6, WeightedTotal
<1> QED BY <1>4, <1>8, <1>9

---------------------------------------------------------------------------
DisputeStatuses == {"PROPOSED", "EVIDENCE_COLLECTING", "RESOLVED"}

ReviewTypeOK ==
    /\ revealedScores \in [Validators -> Nat \cup {Empty}]
    /\ winner \in Applicants \cup {Empty}
    /\ bundle \in [fresh : BOOLEAN, content : Trials \cup {{}}] \cup {Empty}
    /\ dispute \in [status : DisputeStatuses, evidence : 0..2, decision : {Empty, "uphold", "adjust"}] \cup {Empty}
    /\ report \in {Empty, "PENDING", "RECONCILED", "DISCREPANCY_DETECTED"}
    /\ lifecycle \in Range(LifecycleOrder)

LEMMA Lifecycle ==
    /\ Len(LifecycleOrder) = 8 /\ DOMAIN LifecycleOrder = 1..8
    /\ "IDLE" \in Range(LifecycleOrder) /\ "DISCOVERED" \in Range(LifecycleOrder)
    /\ \A i, j \in 1..8 : LifecycleOrder[i] = LifecycleOrder[j] => i = j
    /\ Last(LifecycleOrder) = LifecycleOrder[8]
<1>1. Len(LifecycleOrder) = 8 /\ DOMAIN LifecycleOrder = 1..8 BY DEF LifecycleOrder
<1>2. LifecycleOrder[1] = "IDLE" /\ LifecycleOrder[2] = "DISCOVERED" BY DEF LifecycleOrder
<1>3. \A i, j \in 1..8 : LifecycleOrder[i] = LifecycleOrder[j] => i = j BY DEF LifecycleOrder
<1>4. Last(LifecycleOrder) = LifecycleOrder[8] BY <1>1 DEF Last
<1> QED BY <1>1, <1>2, <1>3, <1>4 DEF Range

LEMMA NextOfLifecycle ==
    ASSUME lifecycle \in Range(LifecycleOrder), AdvanceValidatorLifecycle
    PROVE  lifecycle' \in Range(LifecycleOrder)
<1> DEFINE I == {i \in 1..8 : LifecycleOrder[i] = lifecycle}
<1>1. PICK k \in 1..8 : lifecycle = LifecycleOrder[k] BY Lifecycle DEF Range
<1>2. k # 8 BY <1>1, Lifecycle DEF AdvanceValidatorLifecycle
<1>3. I = {k} BY <1>1, Lifecycle
<1>4. Min({k}) = k BY DEF Min
<1>5. SelectInSeq(LifecycleOrder, LAMBDA s : s = lifecycle) = k BY <1>3, <1>4, Lifecycle DEF SelectInSeq
<1>6. lifecycle' = LifecycleOrder[k + 1] BY <1>5 DEF AdvanceValidatorLifecycle
<1>7. k + 1 \in 1..8 BY <1>2
<1> QED BY <1>6, <1>7, Lifecycle DEF Range

LEMMA ReviewTypesInit == ASSUME ReviewInit PROVE ReviewTypeOK
BY Lifecycle DEF ReviewInit, ReviewTypeOK

LEMMA ReviewTypesStep == ASSUME ReviewTypeOK, [ReviewNext]_reviewVars PROVE ReviewTypeOK'
<1>1. CASE FetchEvidence
  <2>1. bundle' \in [fresh : BOOLEAN, content : Trials \cup {{}}] \cup {Empty}
    <3>1. CASE bundle # Empty /\ bundle.fresh BY <1>1, <3>1 DEF FetchEvidence, ReviewTypeOK
    <3>2. CASE ~(bundle # Empty /\ bundle.fresh)
      <4>1. PICK content \in {{}} \cup Trials : bundle' = [fresh |-> TRUE, content |-> content]
        BY <1>1, <3>2, Zenon DEF FetchEvidence
      <4> QED BY <4>1
    <3> QED BY <3>1, <3>2
  <2> QED BY <1>1, <2>1 DEF FetchEvidence, ReviewTypeOK
<1>2. CASE EvidenceAges
  <2>1. bundle \in [fresh : BOOLEAN, content : Trials \cup {{}}] BY <1>2 DEF EvidenceAges, ReviewTypeOK
  <2>2. bundle' \in [fresh : BOOLEAN, content : Trials \cup {{}}] BY <1>2, <2>1 DEF EvidenceAges
  <2> QED BY <1>2, <2>2 DEF EvidenceAges, ReviewTypeOK
<1>3. ASSUME NEW v \in Validators, NEW score \in Nat, Reveal(v, score) PROVE ReviewTypeOK'
  BY <1>3 DEF Reveal, ReviewTypeOK
<1>4. ASSUME NEW v \in Validators, RevealOwn(v) PROVE ReviewTypeOK'
  <2>1. AdjudicateScore(bundle.content, bundle.content # {}) \in Nat BY ScoreInRange
  <2> QED BY <1>3, <1>4, <2>1 DEF RevealOwn
<1>5. ASSUME NEW v \in Validators, NEW s \in ScoreValues, Reveal(v, s) PROVE ReviewTypeOK'
  BY <1>3, <1>5, ReviewAssumption
<1>6. ASSUME NEW a \in Applicants, Designate(a) PROVE ReviewTypeOK'
  BY <1>6 DEF Designate, ReviewTypeOK
<1>7. CASE OpenDispute
  BY <1>7 DEF OpenDispute, ReviewTypeOK, DisputeStatuses
<1>8. CASE CollectDisputeEvidence
  <2>1. dispute \in [status : DisputeStatuses, evidence : 0..2, decision : {Empty, "uphold", "adjust"}]
    BY <1>8 DEF CollectDisputeEvidence, ReviewTypeOK
  <2>2. dispute.evidence + 1 \in 0..2 BY <1>8, <2>1 DEF CollectDisputeEvidence
  <2>3. dispute' \in [status : DisputeStatuses, evidence : 0..2, decision : {Empty, "uphold", "adjust"}]
    BY <1>8, <2>1, <2>2 DEF CollectDisputeEvidence, DisputeStatuses
  <2> QED BY <1>8, <2>3 DEF CollectDisputeEvidence, ReviewTypeOK
<1>9. ASSUME NEW d \in {"uphold", "adjust"}, ResolveDispute(d) PROVE ReviewTypeOK'
  <2>1. dispute \in [status : DisputeStatuses, evidence : 0..2, decision : {Empty, "uphold", "adjust"}]
    BY <1>9 DEF ResolveDispute, ReviewTypeOK
  <2>2. dispute' \in [status : DisputeStatuses, evidence : 0..2, decision : {Empty, "uphold", "adjust"}]
    BY <1>9, <2>1 DEF ResolveDispute, DisputeStatuses
  <2> QED BY <1>9, <2>2 DEF ResolveDispute, ReviewTypeOK
<1>10. CASE ReconcileValidatorSettlement
  BY <1>10 DEF ReconcileValidatorSettlement, ReviewTypeOK
<1>11. CASE DiscoverValidatorRole
  BY <1>11, Lifecycle DEF DiscoverValidatorRole, ReviewTypeOK
<1>12. CASE AdvanceValidatorLifecycle
  BY <1>12, NextOfLifecycle DEF AdvanceValidatorLifecycle, ReviewTypeOK
<1>13. CASE UNCHANGED reviewVars
  BY <1>13 DEF reviewVars, ReviewTypeOK
<1> QED BY <1>1, <1>2, <1>4, <1>5, <1>6, <1>7, <1>8, <1>9, <1>10, <1>11, <1>12, <1>13 DEF ReviewNext

(* Type correctness of a review, for any validators, applicants and trials. *)
THEOREM ReviewTypeCorrect == ReviewSpec => []ReviewTypeOK
<1>1. ReviewInit => ReviewTypeOK BY ReviewTypesInit
<1>2. ReviewTypeOK /\ [ReviewNext]_reviewVars => ReviewTypeOK' BY ReviewTypesStep
<1> QED BY <1>1, <1>2, PTL DEF ReviewSpec

---------------------------------------------------------------------------
(* Scores that lie between two bounds have an aggregate between them. *)

LEMMA ScoresKnown ==
    ASSUME ReviewTypeOK
    PROVE  IsFiniteSet(Valid) /\ \A v \in Valid : revealedScores[v] \in Nat
<1>1. Valid \in SUBSET Validators BY DEF Valid
<1>2. IsFiniteSet(Valid) BY <1>1, ReviewAssumption, FS_Subset
<1> QED BY <1>2 DEF Valid, ReviewTypeOK

LEMMA SortedSorts ==
    ASSUME ReviewTypeOK
    PROVE  /\ Cardinality(Valid) \in Nat
           /\ Sorted \in [1..Cardinality(Valid) -> Valid]
           /\ \A i, j \in 1..Cardinality(Valid) : i # j => Sorted[i] # Sorted[j]
           /\ Ascending(Sorted)
<1>1. IsFiniteSet(Valid) /\ \A v \in Valid : revealedScores[v] \in Int BY ScoresKnown
<1>2. PICK s \in SetToSeqs(Valid) : Climbs(revealedScores, s) BY <1>1, OrderExists
<1>3. Ascending(s) BY <1>2 DEF Climbs, Ascending
<1>4. Sorted \in SetToSeqs(Valid) /\ Ascending(Sorted) BY <1>2, <1>3 DEF Sorted
<1> QED BY <1>1, <1>4, FS_CardinalityType DEF SetToSeqs

Between(s, low, high) == \A i \in DOMAIN s : s[i] \in Int /\ low <= s[i] /\ s[i] <= high

LEMMA HalfBetween ==
    ASSUME NEW a \in Int, NEW b \in Int, NEW low \in Int, NEW high \in Int,
           low <= a, a <= high, low <= b, b <= high
    PROVE  (a + b) \div 2 \in Int /\ low <= (a + b) \div 2 /\ (a + b) \div 2 <= high
OBVIOUS

LEMMA MedianBetween ==
    ASSUME NEW s \in Seq(Int), s # <<>>, NEW low \in Int, NEW high \in Int, Between(s, low, high)
    PROVE  Median(s) \in Int /\ low <= Median(s) /\ Median(s) <= high
<1>1. PICK n \in Nat : n = Len(s) OBVIOUS
<1>2. n # 0 /\ DOMAIN s = 1..n BY <1>1
<1>3. PICK mid \in Nat : mid = n \div 2 OBVIOUS
<1>4. CASE n % 2 = 1
  <2>1. mid + 1 \in 1..n BY <1>2, <1>3, <1>4
  <2>2. Median(s) = s[mid + 1] BY <1>1, <1>3, <1>4 DEF Median
  <2> QED BY <1>2, <2>1, <2>2 DEF Between
<1>5. CASE n % 2 # 1
  <2>1. mid \in 1..n /\ mid + 1 \in 1..n BY <1>2, <1>3, <1>5
  <2>2. Median(s) = (s[mid] + s[mid + 1]) \div 2 BY <1>1, <1>3, <1>5 DEF Median
  <2>3. PICK a \in Int, b \in Int : /\ a = s[mid] /\ b = s[mid + 1] /\ low <= a /\ a <= high
                                   /\ low <= b /\ b <= high
    BY <1>2, <2>1 DEF Between
  <2>4. (a + b) \div 2 \in Int /\ low <= (a + b) \div 2 /\ (a + b) \div 2 <= high BY <2>3, HalfBetween
  <2> QED BY <2>2, <2>3, <2>4
<1> QED BY <1>4, <1>5

LEMMA TrimmedMeanBetween ==
    ASSUME NEW s \in Seq(Int), s # <<>>, NEW low \in Int, NEW high \in Int, Between(s, low, high)
    PROVE  TrimmedMean(s) \in Int /\ low <= TrimmedMean(s) /\ TrimmedMean(s) <= high
<1> DEFINE cut == IF Len(s) \div 10 > 1 THEN Len(s) \div 10 ELSE 1
           kept == (cut + 1)..(Len(s) - cut)
<1>1. PICK n \in Nat : n = Len(s) OBVIOUS
<1>2. cut \in Nat /\ DOMAIN s = 1..n BY <1>1
<1>3. TrimmedMean(s) = IF kept = {} THEN Median(s) ELSE SumFunctionOnSet(s, kept) \div Cardinality(kept)
  BY DEF TrimmedMean
<1>4. CASE kept = {}
  <2>1. TrimmedMean(s) = Median(s) BY <1>3, <1>4
  <2> QED BY <2>1, MedianBetween
<1>5. CASE kept # {}
  <2>1. kept \subseteq 1..n BY <1>1, <1>2
  <2>2. IsFiniteSet(kept)
    <3>1. cut + 1 \in Int /\ Len(s) - cut \in Int BY <1>1, <1>2
    <3> QED BY <3>1, FS_Interval
  <2>3. Cardinality(kept) \in Nat \ {0} BY <1>5, <2>2, FS_CardinalityType, FS_EmptySet
  <2>4. \A i \in kept : s[i] \in Int /\ low <= s[i] /\ s[i] <= high BY <1>2, <2>1 DEF Between
  <2> HIDE DEF kept
  <2>5. /\ SumFunctionOnSet(s, kept) \in Int
        /\ low * Cardinality(kept) <= SumFunctionOnSet(s, kept)
        /\ SumFunctionOnSet(s, kept) <= high * Cardinality(kept)
    BY <2>2, <2>4, SumBetween
  <2>6. PICK k \in Nat \ {0}, sum \in Int : k = Cardinality(kept) /\ sum = SumFunctionOnSet(s, kept)
    BY <2>3, <2>5
  <2>7. sum \div k \in Int /\ low <= sum \div k /\ sum \div k <= high BY <2>5, <2>6, QuotientBetween
  <2>8. TrimmedMean(s) = sum \div k BY <1>3, <1>5, <2>6
  <2> QED BY <2>7, <2>8
<1> QED BY <1>4, <1>5

LEMMA DisputedPairs ==
    ASSUME ReviewTypeOK, NEW low \in Int, NEW high \in Int,
           \A v \in Valid : low <= revealedScores[v] /\ revealedScores[v] <= high,
           NEW v \in Valid, revealedScores[v] = low, NEW w \in Valid, revealedScores[w] = high
    PROVE  (DetectDisputes # {}) <=> (high - low > DISPUTE_SCORE_DELTA)
<1>1. \A x \in Valid : revealedScores[x] \in Nat BY ScoresKnown
<1>2. DISPUTE_SCORE_DELTA = 25 BY DEF DISPUTE_SCORE_DELTA
<1>3. ASSUME DetectDisputes # {} PROVE high - low > DISPUTE_SCORE_DELTA
  <2>1. PICK q \in Pairs : Apart(q[1], q[2]) > DISPUTE_SCORE_DELTA BY <1>3 DEF DetectDisputes
  <2>2. q[1] \in Valid /\ q[2] \in Valid BY DEF Pairs
  <2>3. PICK a \in Nat, b \in Nat : a = revealedScores[q[1]] /\ b = revealedScores[q[2]] BY <1>1, <2>2
  <2>4. low <= a /\ a <= high /\ low <= b /\ b <= high BY <2>2, <2>3
  <2>5. Apart(q[1], q[2]) = IF a < b THEN b - a ELSE a - b BY <2>3 DEF Apart
  <2> QED BY <1>2, <2>1, <2>4, <2>5
<1>4. ASSUME high - low > DISPUTE_SCORE_DELTA PROVE DetectDisputes # {}
  <2>1. low < high BY <1>2, <1>4
  <2>2. v # w BY <2>1
  <2>3. PICK q : q = <<v, w>> OBVIOUS
  <2>4. q \in Pairs /\ q[1] = v /\ q[2] = w BY <2>2, <2>3 DEF Pairs
  <2>5. Apart(q[1], q[2]) = high - low BY <2>1, <2>4 DEF Apart
  <2>6. Apart(q[1], q[2]) > DISPUTE_SCORE_DELTA BY <1>4, <2>5
  <2>7. {q[1], q[2]} \in DetectDisputes BY <2>4, <2>6 DEF DetectDisputes
  <2> QED BY <2>7
<1> QED BY <1>3, <1>4

LEMMA ReviewDisputed == ASSUME ReviewTypeOK PROVE DisputedIffApart
<1> SUFFICES ASSUME Valid # {} PROVE DisputedIffApart BY DEF DisputedIffApart
<1> DEFINE scores == {revealedScores[v] : v \in Valid}
           low == Min(scores)
           high == Max(scores)
<1>1. IsFiniteSet(Valid) /\ \A v \in Valid : revealedScores[v] \in Nat BY ScoresKnown
<1>2. PICK n \in Nat : n = Cardinality(Valid) BY <1>1, FS_CardinalityType
<1>3. n # 0 BY <1>1, <1>2, FS_EmptySet
<1>4. /\ Sorted \in [1..n -> Valid] /\ Ascending(Sorted)
      /\ \A i, j \in 1..n : i # j => Sorted[i] # Sorted[j]
  BY <1>2, SortedSorts
<1>5. Values \in [1..n -> Nat] /\ \A i \in 1..n : Values[i] = revealedScores[Sorted[i]]
  BY <1>1, <1>4 DEF Values
<1>6. PICK top \in Valid : \A x \in Valid : revealedScores[x] <= revealedScores[top]
  BY <1>1, HighestExists
<1>7. PICK bottom \in Valid : \A x \in Valid : revealedScores[bottom] <= revealedScores[x]
  <2> DEFINE f == [x \in Valid |-> 0 - revealedScores[x]]
  <2>1. \A x \in Valid : f[x] = 0 - revealedScores[x] /\ f[x] \in Int BY <1>1
  <2> HIDE DEF f
  <2>2. PICK b \in Valid : \A x \in Valid : f[x] <= f[b] BY <1>1, <2>1, HighestExists
  <2>3. \A x \in Valid : revealedScores[b] <= revealedScores[x] BY <1>1, <2>1, <2>2
  <2> QED BY <2>3
<1>8. high = revealedScores[top]
  <2>1. revealedScores[top] \in scores /\ \A y \in scores : y \in Nat /\ y <= revealedScores[top] BY <1>1, <1>6
  <2> HIDE DEF scores
  <2>2. high \in scores /\ \A y \in scores : high >= y BY <2>1 DEF Max
  <2> QED BY <2>1, <2>2
<1>9. low = revealedScores[bottom]
  <2>1. revealedScores[bottom] \in scores /\ \A y \in scores : y \in Nat /\ revealedScores[bottom] <= y BY <1>1, <1>7
  <2> HIDE DEF scores
  <2>2. low \in scores /\ \A y \in scores : low <= y BY <2>1 DEF Min
  <2> QED BY <2>1, <2>2
<1>10. low \in Int /\ high \in Int /\ \A v \in Valid : low <= revealedScores[v] /\ revealedScores[v] <= high
  BY <1>1, <1>6, <1>7, <1>8, <1>9
<1> HIDE DEF low, high
<1>11. (DetectDisputes # {}) <=> (high - low > DISPUTE_SCORE_DELTA)
  BY <1>8, <1>9, <1>10, DisputedPairs
<1>12. Values \in Seq(Int) /\ Values # <<>>
  <2>1. Values \in Seq(Int) BY <1>5
  <2>2. DOMAIN Values = 1..n /\ 1 \in 1..n BY <1>3, <1>5
  <2> QED BY <2>1, <2>2
<1>13. Between(Values, low, high)
  <2>1. ASSUME NEW i \in 1..n PROVE Values[i] \in Int /\ low <= Values[i] /\ Values[i] <= high
    <3>1. Sorted[i] \in Valid /\ Values[i] = revealedScores[Sorted[i]] BY <1>4, <1>5
    <3> QED BY <1>1, <1>10, <3>1
  <2>2. DOMAIN Values = 1..n BY <1>5
  <2> QED BY <2>1, <2>2 DEF Between
<1>14. AggregateScores = TrimmedMean(Values) BY <1>12 DEF AggregateScores
<1>15. low <= AggregateScores /\ AggregateScores <= high
  BY <1>10, <1>12, <1>13, <1>14, TrimmedMeanBetween
<1> QED BY <1>11, <1>15 DEF DisputedIffApart, low, high

(* Whatever has been revealed, by however many validators: there is a        *)
(* dispute exactly when the highest and the lowest score are too far apart,  *)
(* and the trimmed mean lies between the two.                                *)
THEOREM DisputedTheorem == ReviewSpec => []DisputedIffApart
<1>1. ReviewTypeOK => DisputedIffApart BY ReviewDisputed
<1> QED BY <1>1, ReviewTypeCorrect, PTL
=============================================================================
