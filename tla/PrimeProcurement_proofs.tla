----------------------- MODULE PrimeProcurement_proofs -----------------------
(***************************************************************************)
(* Theorems about PrimeProcurement, for every set of orchestrators, every   *)
(* six deadlines and every bound, with the gates' helper defined or not.    *)
(***************************************************************************)
EXTENDS PrimeProcurement, TLAPS

---------------------------------------------------------------------------
(* The tables. *)

LEMMA TableTypes ==
    /\ \A k \in Kinds : ReadyOf[k] \in Status /\ ReadyOf[k] \in Steps
    /\ \A k \in DOMAIN SubmittedOf : k \in Kinds /\ SubmittedOf[k] \in Status
    /\ \A g \in Gates : TxOf[g] \in Kinds /\ AfterGate(g) \in Steps
    /\ DOMAIN ApproveFrom = {"finalist", "trial"}
    /\ Kinds = {"commit", "reveal", "finalist", "trial", "completion"}
BY DEF ReadyOf, SubmittedOf, TxOf, AfterGate, ApproveFrom, Kinds, Gates, Steps,
       Status, ApplyStatuses, FinalistStatuses, WinnerStatuses

LEMMA StatusTypes ==
    /\ {"ABSENT", "NONE"} \cap Status = {}
    /\ {"DISCOVERED", "INSPECTED", "APPLICATION_DRAFTED", "TRIAL_IN_PROGRESS",
        "JOB_EXECUTION_IN_PROGRESS", "MISSED_WINDOW", "COMPLETION_READY"} \subseteq Status
    /\ \A e \in OperatorEdges : e[2] \in Status
BY DEF Status, ApplyStatuses, FinalistStatuses, ScoringStatuses, WinnerStatuses, Terminal,
       OperatorEdges

LEMMA StepTypes ==
    /\ Handlers \subseteq Steps /\ Gates \subseteq Steps
    /\ {"idle", "FIT_EVALUATED", "BUNDLE", "COMMIT_TX", "APPLICATION_DRAFTED", "COMMIT_READY",
        "COMMIT_GATE", "REVEAL_GATE", "FINALIST_ACCEPT_GATE", "TRIAL_SUBMIT_GATE",
        "TRIAL_WORK", "TRIAL_URI", "TRIAL_READY"} \subseteq Steps
BY DEF Steps, Handlers, Gates, ReadyOf, Kinds

---------------------------------------------------------------------------
(* Type correctness: whatever the processes do, every status is one of the  *)
(* phase model and every process is at a step of a handler.                 *)

LEMMA GotoType ==
    ASSUME TypeOK, NEW o \in Orchestrators, NEW s \in Steps, NEW n \in Nat, Goto(o, s, n)
    PROVE  pc' \in [Orchestrators -> Steps] /\ held' \in [Orchestrators -> Nat]
BY DEF TypeOK, Goto

LEMMA FinishType ==
    ASSUME TypeOK, NEW o \in Orchestrators, Finish(o)
    PROVE  pc' \in [Orchestrators -> Steps] /\ held' \in [Orchestrators -> Nat]
BY StepTypes, GotoType DEF Finish

THEOREM TypeCorrect == Spec => []TypeOK
<1>1. Init => TypeOK
  BY StepTypes, StatusTypes DEF Init, TypeOK, NoSnapshot
<1>2. TypeOK /\ [Next]_vars => TypeOK'
  <2> SUFFICES ASSUME TypeOK, [Next]_vars PROVE TypeOK'
    OBVIOUS
  <2>1. ASSUME NEW o \in Orchestrators, Advance(o) PROVE TypeOK'
    <3>1. CASE Begin(o)
      BY <3>1, GotoType, StepTypes DEF Begin, TypeOK
    <3>2. CASE Inspect(o)
      BY <3>2, FinishType, StatusTypes DEF Inspect, TypeOK
    <3>3. ASSUME NEW d \in {"PASS", "FAIL"}, WriteFit(o, d) PROVE TypeOK'
      BY <3>3, GotoType, StepTypes DEF WriteFit, TypeOK
    <3>4. CASE RecordFit(o)
      BY <3>4, FinishType DEF RecordFit, TypeOK
    <3>5. CASE PinApplication(o)
      BY <3>5, GotoType, StepTypes DEF PinApplication, TypeOK
    <3>6. CASE PinFails(o)
      BY <3>6, FinishType DEF PinFails, TypeOK
    <3>7. CASE WriteBundle(o)
      BY <3>7, GotoType, StepTypes DEF WriteBundle, TypeOK
    <3>8. CASE BuildCommit(o)
      BY <3>8, GotoType, StepTypes, TableTypes DEF BuildCommit, TypeOK
    <3>9. CASE RecordDraft(o)
      <4>1. CASE IsValidTransition(st.status, "APPLICATION_DRAFTED")
        <5>1. held[o] \in Nat
          BY DEF TypeOK
        <5>2. Goto(o, "COMMIT_READY", held[o])
          BY <3>9, <4>1 DEF RecordDraft
        <5>3. pc' \in [Orchestrators -> Steps] /\ held' \in [Orchestrators -> Nat]
          BY <5>1, <5>2, GotoType, StepTypes
        <5> QED BY <3>9, <4>1, <5>1, <5>3, StatusTypes DEF RecordDraft, TypeOK
      <4>2. CASE ~IsValidTransition(st.status, "APPLICATION_DRAFTED")
        BY <3>9, <4>2, FinishType DEF RecordDraft, TypeOK
      <4> QED BY <4>1, <4>2
    <3>10. CASE EnterCommitGate(o)
      BY <3>10, GotoType, StepTypes DEF EnterCommitGate, TypeOK
    <3>11. CASE WriteReveal(o)
      BY <3>11, GotoType, FinishType, StepTypes DEF WriteReveal, TypeOK
    <3>12. CASE WriteFinalist(o)
      BY <3>12, GotoType, StepTypes DEF WriteFinalist, TypeOK
    <3>13. CASE StartTrial(o)
      BY <3>13, GotoType, StepTypes, StatusTypes DEF StartTrial, TypeOK
    <3>14. ASSUME NEW f \in BOOLEAN, PublishTrial(o, f) PROVE TypeOK'
      <4>1. trials + 1 \in Nat
        BY DEF TypeOK
      <4>2. pc' \in [Orchestrators -> Steps] /\ held' \in [Orchestrators -> Nat]
        BY <3>14, <4>1, GotoType, StepTypes DEF PublishTrial
      <4> QED BY <3>14, <4>1, <4>2 DEF PublishTrial, TypeOK
    <3>15. CASE RecordTrialURI(o)
      BY <3>15, GotoType, StepTypes DEF RecordTrialURI, TypeOK
    <3>16. CASE PassGate(o)
      <4>1. tx' \in [Kinds -> Nat]
        BY <3>16, TableTypes DEF PassGate, TypeOK
      <4>2. pc' \in [Orchestrators -> Steps] /\ held' \in [Orchestrators -> Nat]
        <5>1. CASE GatePasses(pc[o])
          BY <3>16, <5>1, GotoType, TableTypes DEF PassGate, TypeOK
        <5>2. CASE ~GatePasses(pc[o])
          BY <3>16, <5>2, FinishType DEF PassGate
        <5> QED BY <5>1, <5>2
      <4> QED BY <3>16, <4>1, <4>2 DEF PassGate, TypeOK
    <3>17. CASE RecordReady(o)
      <4>1. pc[o] \in Status
        BY <3>17, TableTypes DEF RecordReady
      <4> QED BY <3>17, <4>1, FinishType DEF RecordReady, TypeOK
    <3>18. CASE Execute(o)
      BY <3>18, FinishType, StatusTypes DEF Execute, TypeOK
    <3> QED BY <2>1, <3>1, <3>2, <3>3, <3>4, <3>5, <3>6, <3>7, <3>8, <3>9, <3>10, <3>11,
               <3>12, <3>13, <3>14, <3>15, <3>16, <3>17, <3>18 DEF Advance
  <2>2. ASSUME NEW o \in Orchestrators, Crash(o) PROVE TypeOK'
    BY <2>2, FinishType DEF Crash, TypeOK
  <2>3. CASE Monitor
    <3>1. CASE Discover \/ DetectShortlist \/ DetectWinner
      BY <3>1, StatusTypes DEF Discover, DetectShortlist, DetectWinner, TypeOK, orch
    <3>2. CASE Snapshot
      BY <3>2 DEF Snapshot, TypeOK, orch
    <3>3. CASE Refresh
      BY <3>3, StatusTypes DEF Refresh, NoSnapshot, TypeOK, orch
    <3>4. CASE RefreshFails
      BY <3>4 DEF RefreshFails, NoSnapshot, TypeOK, orch
    <3> QED BY <2>3, <3>1, <3>2, <3>3, <3>4 DEF Monitor
  <2>4. CASE Tools
    <3>1. ASSUME NEW k \in DOMAIN ApproveFrom, Approve(k) PROVE TypeOK'
      BY <3>1, TableTypes DEF Approve, TypeOK, orch
    <3>2. ASSUME NEW k \in DOMAIN SubmittedOf, Mark(k) PROVE TypeOK'
      BY <3>2, TableTypes DEF Mark, TypeOK, orch
    <3>3. CASE CliRecord \/ CliCrash \/ RecordCompletion
      BY <3>3, StatusTypes DEF CliRecord, CliCrash, RecordCompletion, TypeOK, orch
    <3> QED BY <2>4, <3>1, <3>2, <3>3 DEF Tools
  <2>5. CASE Operator
    <3>1. ASSUME NEW to \in {e[2] : e \in OperatorEdges}, Decide(to) PROVE TypeOK'
      BY <3>1, StatusTypes DEF Decide, TypeOK, orch
    <3>2. CASE VerifyStake
      BY <3>2 DEF VerifyStake, TypeOK, orch
    <3>3. CASE SendCommit
      BY <3>3, TableTypes DEF SendCommit, TypeOK, orch
    <3>4. CASE SendReveal
      BY <3>4 DEF SendReveal, TypeOK, orch
    <3> QED BY <2>5, <3>1, <3>2, <3>3, <3>4 DEF Operator
  <2>6. CASE Tick
    BY <2>6 DEF Tick, TypeOK, orch
  <2>7. CASE UNCHANGED vars
    BY <2>7 DEF vars, orch, TypeOK
  <2> QED BY <2>1, <2>2, <2>3, <2>4, <2>5, <2>6, <2>7 DEF Next
<1> QED BY <1>1, <1>2, PTL DEF Spec

---------------------------------------------------------------------------
(* The lifecycle implements the status graph.                               *)

LEMMA EdgeFacts ==
    /\ IsValidTransition("FINALIST_ACCEPT_SUBMITTED", "TRIAL_IN_PROGRESS")
    /\ IsValidTransition("SELECTED", "JOB_EXECUTION_IN_PROGRESS")
    /\ IsValidTransition("JOB_EXECUTION_IN_PROGRESS", "COMPLETION_READY")
    /\ \A s, t : <<s, t>> \in OperatorEdges => IsValidTransition(s, t)
BY DEF IsValidTransition, ForwardEdges, OperatorEdges

LEMMA MovesAreOfStatuses ==
    \A s, t : IsValidTransition(s, t) => s \in Status /\ t \in Status
BY DEF IsValidTransition, ForwardEdges, Missable, Expirable, Status, ApplyStatuses,
       FinalistStatuses, ScoringStatuses, WinnerStatuses, Terminal

Moved ==
    \/ st'.status = st.status
    \/ st.status = "ABSENT" /\ st'.status = "DISCOVERED"
    \/ IsValidTransition(st.status, st'.status)

(* Whichever process takes it, a step moves the status along one edge. *)
LEMMA StatusMoves == ASSUME TypeOK, [Next]_vars PROVE Moved
<1> USE DEF TypeOK, Moved
<1>1. ASSUME NEW o \in Orchestrators, Advance(o) PROVE Moved
  <2>1. CASE Inspect(o) \/ RecordDraft(o) \/ RecordReady(o)
    BY <2>1 DEF Inspect, RecordDraft, RecordReady, Settable
  <2>2. CASE StartTrial(o) \/ Execute(o)
    BY <2>2, EdgeFacts DEF StartTrial, Execute
  <2>3. CASE RecordFit(o) \/ RecordTrialURI(o)
    BY <2>3 DEF RecordFit, RecordTrialURI
  <2>4. CASE st' = st
    BY <2>4
  <2> QED BY <1>1, <2>1, <2>2, <2>3, <2>4 DEF Advance, Begin, WriteFit, PinApplication, PinFails,
         WriteBundle, BuildCommit, EnterCommitGate, WriteReveal, WriteFinalist, PublishTrial, PassGate
<1>2. ASSUME NEW o \in Orchestrators, Crash(o) PROVE Moved
  BY <1>2 DEF Crash
<1>3. CASE Monitor
  BY <1>3 DEF Monitor, Discover, DetectShortlist, DetectWinner, Snapshot, Refresh, RefreshFails
<1>4. CASE Tools
  <2>1. CASE CliRecord
    BY <2>1 DEF CliRecord, Settable
  <2>2. CASE RecordCompletion
    BY <2>2, EdgeFacts DEF RecordCompletion
  <2> QED BY <1>4, <2>1, <2>2 DEF Tools, Approve, Mark, CliCrash
<1>5. CASE Operator
  <2>1. ASSUME NEW to \in {e[2] : e \in OperatorEdges}, Decide(to) PROVE Moved
    BY <2>1, EdgeFacts DEF Decide
  <2> QED BY <1>5, <2>1 DEF Operator, VerifyStake, SendCommit, SendReveal
<1>6. CASE Tick
  BY <1>6 DEF Tick
<1>7. CASE UNCHANGED vars
  BY <1>7 DEF vars
<1> QED BY <1>1, <1>2, <1>3, <1>4, <1>5, <1>6, <1>7 DEF Next

(* The instance of the abstract specification brings its own copy of the    *)
(* phase model.                                                             *)
LEMMA SameModel ==
    /\ Graph!Status = Status
    /\ \A s, t : Graph!IsValidTransition(s, t) <=> IsValidTransition(s, t)
BY DEF Graph!Status, Graph!ApplyStatuses, Graph!FinalistStatuses, Graph!ScoringStatuses,
       Graph!WinnerStatuses, Graph!Terminal, Graph!IsValidTransition, Graph!ForwardEdges,
       Graph!Missable, Graph!Expirable,
       Status, ApplyStatuses, FinalistStatuses, ScoringStatuses, WinnerStatuses, Terminal,
       IsValidTransition, ForwardEdges, Missable, Expirable

(* FollowsGraph for every instance: with any number of orchestrators, tools  *)
(* and monitor steps between a handler's check and its record, the status    *)
(* only moves along VALID_TRANSITIONS.                                       *)
THEOREM GraphTheorem == Spec => FollowsGraph
<1>1. Init => Graph!Init
  BY DEF Init, Graph!Init
<1>2. TypeOK /\ [Next]_vars => [Graph!Next]_(st.status)
  BY StatusMoves, MovesAreOfStatuses, SameModel DEF Moved, Graph!Next, Graph!Discover, Graph!Move
<1> QED BY <1>1, <1>2, TypeCorrect, PTL DEF Spec, FollowsGraph, Graph!Spec

---------------------------------------------------------------------------
(* No transaction is announced before its file is there.                    *)

TxKinds == DOMAIN SubmittedOf

(* The inductive invariant: a process that is about to announce a           *)
(* transaction has its file behind it, and one that is about to write a file *)
(* holds something to write.                                                *)
Announces(k, s) == s = ReadyOf[k] \/ s = SubmittedOf[k]

TxInv ==
    /\ \A k \in TxKinds : Announces(k, st.status) => tx[k] # 0
    /\ \A k \in TxKinds : Announces(k, cli) => tx[k] # 0
    /\ \A o \in Orchestrators, k \in TxKinds : pc[o] = ReadyOf[k] => tx[k] # 0
    /\ \A o \in Orchestrators :
          /\ pc[o] \in {"BUNDLE", "COMMIT_TX", "APPLICATION_DRAFTED"} \cup Gates => held[o] # 0
          /\ pc[o] = "APPLICATION_DRAFTED" => tx["commit"] # 0
          /\ pc[o] = "BUILD_COMMIT_TX" => st.hash # 0
          /\ pc[o] = "TRIAL_URI" => tx["trial"] # 0
    /\ st.status = "APPLICATION_DRAFTED" => st.hash # 0
    /\ cli # "APPLICATION_DRAFTED"

(* A status that no transaction is announced by. *)
Silent(s) == \A k \in TxKinds : ~Announces(k, s)

LEMMA KindNames ==
    /\ TxKinds = {"commit", "reveal", "finalist", "trial"}
    /\ ReadyOf["commit"] = "COMMIT_READY" /\ ReadyOf["reveal"] = "REVEAL_READY"
    /\ ReadyOf["finalist"] = "FINALIST_ACCEPT_READY" /\ ReadyOf["trial"] = "TRIAL_READY"
    /\ ReadyOf["completion"] = "COMPLETION_READY"
    /\ SubmittedOf["commit"] = "COMMIT_SUBMITTED" /\ SubmittedOf["reveal"] = "REVEAL_SUBMITTED"
    /\ SubmittedOf["finalist"] = "FINALIST_ACCEPT_SUBMITTED"
    /\ SubmittedOf["trial"] = "TRIAL_SUBMITTED"
BY DEF TxKinds, ReadyOf, SubmittedOf

LEMMA GateKinds ==
    \A g \in Gates :
        /\ TxOf[g] \in TxKinds /\ TxOf[g] \in Kinds
        /\ \/ AfterGate(g) = ReadyOf[TxOf[g]]
           \/ AfterGate(g) = "TRIAL_URI" /\ TxOf[g] = "trial"
<1>1. \A g \in Gates : TxOf[g] \in TxKinds
  BY KindNames DEF Gates, TxOf
<1>2. TxOf["TRIAL_SUBMIT_GATE"] = "trial"
  BY DEF TxOf
<1> QED BY <1>1, <1>2, KindNames DEF AfterGate, Kinds

LEMMA KindsDiffer ==
    \A j, k \in TxKinds :
        /\ j \in Kinds
        /\ ReadyOf[j] = ReadyOf[k] => j = k
        /\ SubmittedOf[j] = SubmittedOf[k] => j = k
        /\ ReadyOf[j] # SubmittedOf[k]
        /\ ReadyOf[j] # "COMPLETION_READY" /\ SubmittedOf[j] # "COMPLETION_READY"
BY KindNames DEF Kinds

LEMMA SilentFacts ==
    /\ \A s \in {"ABSENT", "NONE", "DISCOVERED", "INSPECTED", "APPLICATION_DRAFTED", "MISSED_WINDOW",
                 "TRIAL_IN_PROGRESS", "JOB_EXECUTION_IN_PROGRESS", "COMPLETION_READY"} : Silent(s)
    /\ \A e \in OperatorEdges : Silent(e[2]) /\ e[2] # "APPLICATION_DRAFTED"
    /\ \A k \in TxKinds : ~Announces(k, "APPLICATION_DRAFTED")
BY DEF Silent, Announces, TxKinds, ReadyOf, SubmittedOf, OperatorEdges

(* The steps a handler goes through announce nothing. *)
LEMMA StepFacts ==
    \A k \in TxKinds :
        ReadyOf[k] \notin Handlers \cup Gates \cup
            {"idle", "FIT_EVALUATED", "BUNDLE", "COMMIT_TX", "APPLICATION_DRAFTED",
             "TRIAL_WORK", "TRIAL_URI"}
BY DEF TxKinds, SubmittedOf, ReadyOf, Handlers, Gates

LEMMA ProposedCommit ==
    Proposed = "BUILD_COMMIT_TX" => st.status = "APPLICATION_DRAFTED"
BY DEF Proposed, ComputeNextAction

(* No step takes a transaction file away. *)
Grows == \A k \in TxKinds : tx[k] # 0 => tx'[k] # 0

LEMMA TxGrows == ASSUME TypeOK, TxInv, [Next]_vars PROVE Grows
<1> USE DEF Grows
<1>1. CASE tx' = tx
  BY <1>1
<1>2. ASSUME NEW o \in Orchestrators, BuildCommit(o) PROVE Grows
  BY <1>2, KindNames DEF BuildCommit, Kinds, TxInv, TypeOK
<1>3. ASSUME NEW o \in Orchestrators, PassGate(o) PROVE Grows
  <2>1. pc[o] \in Gates /\ held[o] # 0 /\ TxOf[pc[o]] \in Kinds
    BY <1>3, GateKinds DEF PassGate, TxInv
  <2>2. tx' = tx \/ tx' = [tx EXCEPT ![TxOf[pc[o]]] = held[o]]
    BY <1>3 DEF PassGate
  <2>3. tx \in [Kinds -> Nat] /\ TxKinds \subseteq Kinds
    BY KindsDiffer DEF TypeOK
  <2> QED BY <2>1, <2>2, <2>3
<1>4. ASSUME NEW k \in DOMAIN ApproveFrom, Approve(k) PROVE Grows
  BY <1>4, KindNames DEF Approve, ApproveFrom, Kinds, TypeOK
<1>5. ASSUME NEW o \in Orchestrators, Advance(o) PROVE Grows
  BY <1>1, <1>2, <1>3, <1>5 DEF Advance, Begin, Inspect, WriteFit, RecordFit, PinApplication, PinFails,
     WriteBundle, RecordDraft, EnterCommitGate, WriteReveal, WriteFinalist, StartTrial,
     PublishTrial, RecordTrialURI, RecordReady, Execute
<1>6. CASE Monitor \/ Operator \/ Tick \/ UNCHANGED vars
  BY <1>1, <1>6 DEF Monitor, Discover, DetectShortlist, DetectWinner, Snapshot, Refresh, RefreshFails,
     Operator, Decide, VerifyStake, SendCommit, SendReveal, Tick, vars
<1>7. CASE Tools
  BY <1>1, <1>4, <1>7 DEF Tools, Mark, CliRecord, CliCrash, RecordCompletion
<1>8. ASSUME NEW o \in Orchestrators, Crash(o) PROVE Grows
  BY <1>1, <1>8 DEF Crash
<1> QED BY <1>5, <1>6, <1>7, <1>8 DEF Next

LEMMA TxInvInductive == ASSUME TypeOK, TxInv, [Next]_vars PROVE TxInv'
<1>g. Grows
  BY TxGrows
<1> USE DEF TxInv
<1>1. ASSUME NEW o \in Orchestrators, Advance(o) PROVE TxInv'
  <2> USE DEF Goto, Finish, TypeOK, Grows
  <2>1. CASE Begin(o)
    BY <2>1, <1>g, StepFacts, ProposedCommit DEF Begin, Handlers, Gates
  <2>2. CASE Inspect(o)
    BY <2>2, <1>g, StepFacts, SilentFacts DEF Inspect, Silent, Gates
  <2>3. ASSUME NEW d \in {"PASS", "FAIL"}, WriteFit(o, d) PROVE TxInv'
    BY <2>3, <1>g, StepFacts DEF WriteFit, Gates
  <2>4. CASE RecordFit(o)
    BY <2>4, <1>g, StepFacts DEF RecordFit, Gates
  <2>5. CASE PinApplication(o)
    BY <2>5, <1>g, StepFacts DEF PinApplication, Gates
  <2>6. CASE PinFails(o)
    BY <2>6, <1>g, StepFacts DEF PinFails, Gates
  <2>7. CASE WriteBundle(o)
    BY <2>7, <1>g, StepFacts DEF WriteBundle, Gates
  <2>8. CASE BuildCommit(o)
    BY <2>8, <1>g, StepFacts DEF BuildCommit, Gates, Kinds
  <2>9. CASE RecordDraft(o)
    <3>1. tx' = tx /\ cli' = cli /\ held[o] # 0 /\ tx["commit"] # 0
      BY <2>9 DEF RecordDraft
    <3>2. CASE st' = st /\ Finish(o)
      BY <3>1, <3>2, StepFacts DEF Gates
    <3>3. CASE /\ st' = [st EXCEPT !.status = "APPLICATION_DRAFTED", !.hash = held[o]]
               /\ Goto(o, "COMMIT_READY", held[o])
      <4>1. st'.status = "APPLICATION_DRAFTED" /\ st'.hash # 0
        BY <3>1, <3>3
      <4>2. \A k \in TxKinds : ~Announces(k, st'.status)
        BY <4>1, SilentFacts
      <4>3. pc' = [pc EXCEPT ![o] = "COMMIT_READY"] /\ held' = [held EXCEPT ![o] = held[o]]
        BY <3>3
      <4>4. \A k \in TxKinds : ReadyOf[k] = "COMMIT_READY" => k = "commit"
        BY KindNames
      <4> QED BY <3>1, <4>1, <4>2, <4>3, <4>4, KindNames DEF Gates
    <3> QED BY <2>9, <3>2, <3>3 DEF RecordDraft
  <2>10. CASE EnterCommitGate(o)
    BY <2>10, <1>g, StepFacts DEF EnterCommitGate, Gates
  <2>11. CASE WriteReveal(o)
    BY <2>11, <1>g, StepFacts DEF WriteReveal, Gates
  <2>12. CASE WriteFinalist(o)
    BY <2>12, <1>g, StepFacts DEF WriteFinalist, Gates
  <2>13. CASE StartTrial(o)
    BY <2>13, <1>g, StepFacts, SilentFacts DEF StartTrial, Silent, Gates
  <2>14. ASSUME NEW f \in BOOLEAN, PublishTrial(o, f) PROVE TxInv'
    BY <2>14, <1>g, StepFacts DEF PublishTrial, Gates
  <2>15. CASE RecordTrialURI(o)
    BY <2>15, <1>g, StepFacts, KindNames, KindsDiffer DEF RecordTrialURI, Gates
  <2>16. CASE PassGate(o)
    BY <2>16, <1>g, StepFacts, GateKinds, KindNames, KindsDiffer DEF PassGate, Gates
  <2>17. CASE RecordReady(o)
    BY <2>17, <1>g, StepFacts, KindNames, KindsDiffer, SilentFacts DEF RecordReady, Gates, Announces, Kinds
  <2>18. CASE Execute(o)
    BY <2>18, <1>g, StepFacts, SilentFacts DEF Execute, Silent, Gates
  <2> QED BY <1>1, <2>1, <2>2, <2>3, <2>4, <2>5, <2>6, <2>7, <2>8, <2>9, <2>10, <2>11, <2>12, <2>13,
             <2>14, <2>15, <2>16, <2>17, <2>18 DEF Advance
<1>2. ASSUME NEW o \in Orchestrators, Crash(o) PROVE TxInv'
  BY <1>2, StepFacts DEF Crash, Finish, Goto, TypeOK, Gates
<1>3. CASE Monitor
  BY <1>3, SilentFacts DEF Monitor, Discover, DetectShortlist, DetectWinner, Snapshot, Refresh,
     RefreshFails, Silent, TypeOK, orch
<1>4. CASE Tools
  <2>1. ASSUME NEW k \in DOMAIN ApproveFrom, Approve(k) PROVE TxInv'
    <3>1. k \in {"finalist", "trial"} /\ tx'[k] # 0 /\ cli' = ReadyOf[k]
      BY <2>1 DEF Approve, ApproveFrom, TypeOK, Kinds
    <3>2. \A j \in TxKinds : Announces(j, cli') => j = k
      BY <3>1, KindNames, KindsDiffer DEF Announces
    <3>3. cli' # "APPLICATION_DRAFTED"
      BY <3>1, KindNames
    <3> QED BY <2>1, <1>g, <3>1, <3>2, <3>3 DEF Approve, Grows, orch
  <2>2. ASSUME NEW k \in DOMAIN SubmittedOf, Mark(k) PROVE TxInv'
    <3>1. k \in TxKinds /\ Announces(k, st.status) /\ cli' = SubmittedOf[k]
      BY <2>2 DEF Mark, Announces, TxKinds
    <3>2. \A j \in TxKinds : Announces(j, cli') => j = k
      BY <3>1, KindsDiffer DEF Announces
    <3>3. cli' # "APPLICATION_DRAFTED"
      BY <3>1, KindNames
    <3> QED BY <2>2, <3>1, <3>2, <3>3 DEF Mark, orch
  <2>3. CASE CliRecord
    <3>1. st' = st \/ st' = [st EXCEPT !.status = cli]
      BY <2>3 DEF CliRecord
    <3>2. cli' = "NONE" /\ Silent("NONE")
      BY <2>3, SilentFacts DEF CliRecord
    <3>3. st'.status = st.status \/ st'.status = cli
      BY <3>1 DEF TypeOK
    <3>4. st'.hash = st.hash
      BY <3>1 DEF TypeOK
    <3> QED BY <2>3, <3>2, <3>3, <3>4 DEF CliRecord, Silent, orch
  <2>4. CASE CliCrash \/ RecordCompletion
    BY <2>4, SilentFacts DEF CliCrash, RecordCompletion, Silent, TypeOK, orch
  <2> QED BY <1>4, <2>1, <2>2, <2>3, <2>4 DEF Tools
<1>5. CASE Operator
  <2>1. ASSUME NEW to \in {e[2] : e \in OperatorEdges}, Decide(to) PROVE TxInv'
    BY <2>1, SilentFacts DEF Decide, Silent, TypeOK, orch
  <2> QED BY <1>5, <2>1 DEF Operator, VerifyStake, SendCommit, SendReveal, orch
<1>6. CASE Tick \/ UNCHANGED vars
  BY <1>6 DEF Tick, vars, orch
<1> QED BY <1>1, <1>2, <1>3, <1>4, <1>5, <1>6 DEF Next

(* ReadyHasTx for every instance: however many orchestrators and tools share *)
(* the directory and wherever one dies, no status asks for a signature, or   *)
(* records one, without the transaction file.                                *)
THEOREM ReadyTheorem == Spec => []ReadyHasTx
<1>1. Init => TxInv
  BY StepFacts, SilentFacts DEF Init, TxInv, Silent, Gates
<1>2. TypeOK /\ TxInv /\ [Next]_vars => TxInv'
  BY TxInvInductive
<1>3. TxInv => ReadyHasTx
  BY DEF TxInv, ReadyHasTx, TxKinds, Announces
<1> QED BY <1>1, <1>2, <1>3, TypeCorrect, PTL DEF Spec

---------------------------------------------------------------------------
(* No window is declared missed ahead of time while nothing is on chain.    *)

(* The statuses a procurement reaches only after its commitment was sent.   *)
PostCommit == NeedsReveal \cup NeedsFinalist \cup NeedsTrial \cup {"REVEAL_SUBMITTED"}

(* The inductive invariant: these statuses, and the monitor's memory of one, *)
(* are backed by a commitment on chain; the monitor's clock runs behind.     *)
MissInv ==
    /\ st.status \in PostCommit => chain.commit # 0
    /\ mon.busy /\ mon.status \in PostCommit => chain.commit # 0
    /\ cli = "COMMIT_SUBMITTED" => chain.commit # 0
    /\ cli # "MISSED_WINDOW"
    /\ mon.now <= now

LEMMA PostCommitEntry ==
    /\ \A s, t : IsValidTransition(s, t) /\ t \in PostCommit
                   => s \in PostCommit \/ t = "COMMIT_SUBMITTED"
    /\ {"ABSENT", "NONE", "DISCOVERED"} \cap PostCommit = {}
BY DEF IsValidTransition, ForwardEdges, Missable, Expirable, PostCommit, NeedsReveal,
       NeedsFinalist, NeedsTrial

(* Only the operator's tool records that the commitment was sent, and only   *)
(* the monitor's refresh that a window was missed.                           *)
LEMMA WhoRecords ==
    ASSUME TypeOK, [Next]_vars, st'.status # st.status
    PROVE  /\ st'.status = "COMMIT_SUBMITTED" => cli = "COMMIT_SUBMITTED"
           /\ st'.status = "MISSED_WINDOW" => (Refresh /\ Missed(mon)) \/ cli = "MISSED_WINDOW"
<1> DEFINE Goal == /\ st'.status = "COMMIT_SUBMITTED" => cli = "COMMIT_SUBMITTED"
                   /\ st'.status = "MISSED_WINDOW"
                          => (Refresh /\ Missed(mon)) \/ cli = "MISSED_WINDOW"
<1> SUFFICES Goal
  OBVIOUS
<1> USE DEF TypeOK
<1>1. ASSUME NEW o \in Orchestrators, Advance(o) PROVE Goal
  <2>1. CASE Inspect(o) \/ RecordDraft(o) \/ StartTrial(o) \/ Execute(o)
    BY <2>1 DEF Inspect, RecordDraft, StartTrial, Execute
  <2>2. CASE RecordReady(o)
    BY <2>2, KindNames DEF RecordReady, Kinds
  <2>3. CASE RecordFit(o) \/ RecordTrialURI(o)
    BY <2>3 DEF RecordFit, RecordTrialURI
  <2>4. CASE st' = st
    BY <2>4
  <2> QED BY <1>1, <2>1, <2>2, <2>3, <2>4 DEF Advance, Begin, WriteFit, PinApplication, PinFails,
         WriteBundle, BuildCommit, EnterCommitGate, WriteReveal, WriteFinalist, PublishTrial, PassGate
<1>2. ASSUME NEW o \in Orchestrators, Crash(o) PROVE Goal
  BY <1>2 DEF Crash
<1>3. CASE Monitor
  <2>1. CASE Refresh
    BY <2>1 DEF Refresh
  <2> QED BY <1>3, <2>1 DEF Monitor, Discover, DetectShortlist, DetectWinner, Snapshot, RefreshFails
<1>4. CASE Tools
  BY <1>4 DEF Tools, Approve, Mark, CliRecord, CliCrash, RecordCompletion
<1>5. CASE Operator
  <2>1. ASSUME NEW to \in {e[2] : e \in OperatorEdges}, Decide(to) PROVE Goal
    <3>1. to # "COMMIT_SUBMITTED" /\ to # "MISSED_WINDOW"
      BY DEF OperatorEdges
    <3> QED BY <2>1, <3>1 DEF Decide
  <2> QED BY <1>5, <2>1 DEF Operator, VerifyStake, SendCommit, SendReveal
<1>6. CASE Tick \/ UNCHANGED vars
  BY <1>6 DEF Tick, vars
<1> QED BY <1>1, <1>2, <1>3, <1>4, <1>5, <1>6 DEF Next

(* The deadlines' first window: whatever the others are, the phase is        *)
(* COMMIT_OPEN before the first deadline.                                    *)
LEMMA FirstWindow ==
    ASSUME NEW t \in Nat, t < Deadlines[1]
    PROVE  PhaseAt(t) = "COMMIT_OPEN"
<1> DEFINE ahead == {i \in 1..6 : t < Deadlines[i]}
<1>1. 1 \in ahead
  OBVIOUS
<1>2. \A i \in ahead : 1 <= i
  OBVIOUS
<1>3. \A i \in ahead : (\A j \in ahead : i <= j) => i = 1
  BY <1>1
<1>4. (CHOOSE i \in ahead : \A j \in ahead : i <= j) = 1
  <2> HIDE DEF ahead
  <2> QED BY <1>1, <1>2, <1>3
<1> QED BY <1>1, <1>4 DEF PhaseAt, DeriveChainPhase, PhaseSeq

(* What a step can do to the chain, the monitor, the clock and the tools.    *)
LEMMA Environment ==
    ASSUME TypeOK, [Next]_vars
    PROVE  /\ chain.commit # 0 => chain'.commit # 0
           /\ mon' \in {mon, NoSnapshot, [busy |-> TRUE, status |-> st.status, now |-> now]}
           /\ now' \in Nat /\ now <= now'
           /\ \/ cli' \in {cli, "NONE", "FINALIST_ACCEPT_READY", "TRIAL_READY"}
              \/ \E k \in TxKinds : cli' = SubmittedOf[k] /\ Sent(k)
<1> USE DEF Advance, Begin, Inspect, WriteFit, RecordFit, PinApplication, PinFails,
        WriteBundle, BuildCommit, RecordDraft, EnterCommitGate, WriteReveal, WriteFinalist,
        StartTrial, PublishTrial, RecordTrialURI, PassGate, RecordReady, Execute, Crash,
        Monitor, Discover, DetectShortlist, DetectWinner, Snapshot, Refresh, RefreshFails,
        CliRecord, CliCrash, RecordCompletion, Operator, Decide, VerifyStake, Tick, vars
<1>1. chain' = chain \/ SendCommit \/ SendReveal
  BY DEF Next, Tools, Approve, Mark
<1>2. mon' \in {mon, NoSnapshot, [busy |-> TRUE, status |-> st.status, now |-> now]}
  BY DEF Next, Tools, Approve, Mark, SendCommit, SendReveal
<1>3. now' = now \/ now' = now + 1
  BY DEF Next, Tools, Approve, Mark, SendCommit, SendReveal
<1>4. \/ cli' \in {cli, "NONE"}
      \/ \E k \in DOMAIN ApproveFrom : Approve(k)
      \/ \E k \in DOMAIN SubmittedOf : Mark(k)
  BY DEF Next, Tools, SendCommit, SendReveal
<1>5. ASSUME NEW k \in DOMAIN ApproveFrom, Approve(k)
      PROVE  cli' \in {"FINALIST_ACCEPT_READY", "TRIAL_READY"}
  BY ONLY <1>5, KindNames DEF Approve, ApproveFrom
<1>6. ASSUME NEW k \in DOMAIN SubmittedOf, Mark(k)
      PROVE  cli' = SubmittedOf[k] /\ Sent(k)
  BY ONLY <1>6 DEF Mark
<1>7. chain.commit # 0 => chain'.commit # 0
  BY <1>1 DEF SendCommit, SendReveal, TypeOK
<1>8. \/ cli' \in {cli, "NONE", "FINALIST_ACCEPT_READY", "TRIAL_READY"}
      \/ \E k \in TxKinds : cli' = SubmittedOf[k] /\ Sent(k)
  BY ONLY <1>4, <1>5, <1>6 DEF TxKinds
<1>9. now' \in Nat /\ now <= now'
  BY ONLY TypeOK, <1>3 DEF TypeOK
<1> QED BY <1>2, <1>7, <1>8, <1>9

LEMMA MissInvInductive == ASSUME TypeOK, MissInv, [Next]_vars PROVE MissInv'
<1>1. chain.commit # 0 => chain'.commit # 0
  BY Environment
<1>2. st'.status \in PostCommit => chain'.commit # 0
  <2>1. CASE st'.status = st.status
    BY <1>1, <2>1 DEF MissInv
  <2>2. CASE st'.status # st.status
    BY <1>1, <2>2, StatusMoves, WhoRecords, PostCommitEntry DEF MissInv, Moved
  <2> QED BY <2>1, <2>2
<1>3. mon'.busy /\ mon'.status \in PostCommit => chain'.commit # 0
  BY <1>1, Environment DEF MissInv, NoSnapshot
<1>4. mon'.now <= now'
  BY Environment DEF MissInv, NoSnapshot, TypeOK
<1>5. cli' # "MISSED_WINDOW" /\ (cli' = "COMMIT_SUBMITTED" => chain'.commit # 0)
  BY <1>1, Environment, KindNames DEF MissInv, Sent
<1> QED BY <1>2, <1>3, <1>4, <1>5 DEF MissInv

(* MissedNotEarly for every instance: whatever six deadlines a procurement   *)
(* has and however old the refresh's reading is, no procurement without a    *)
(* commitment on chain is given up before its commit deadline.               *)
THEOREM MissedTheorem == Spec => MissedNotEarly
<1>1. Init => MissInv
  BY PostCommitEntry DEF Init, MissInv, NoSnapshot
<1>2. TypeOK /\ MissInv /\ [Next]_vars => MissInv'
  BY MissInvInductive
<1>3. TypeOK /\ MissInv /\ [Next]_vars
          => [NewlyMissed /\ chain.commit = 0 => now >= Deadlines[1]]_vars
  <2> SUFFICES ASSUME TypeOK, MissInv, [Next]_vars, NewlyMissed, chain.commit = 0
               PROVE  now >= Deadlines[1]
    OBVIOUS
  <2>1. Refresh /\ Missed(mon)
    BY WhoRecords DEF NewlyMissed, MissInv
  <2>2. mon.status \notin PostCommit /\ mon.now \in Nat /\ mon.now <= now /\ now \in Nat
    BY <2>1 DEF Refresh, MissInv, TypeOK
  <2>3. PhaseAt(mon.now) # "COMMIT_OPEN"
    BY <2>1, <2>2 DEF Missed, DidMissRequiredWindow, PostCommit
  <2>4. Deadlines[1] \in Nat
    BY DeadlinesAssumption
  <2> QED BY <2>2, <2>3, <2>4, FirstWindow
<1> QED BY <1>1, <1>2, <1>3, TypeCorrect, PTL DEF Spec, MissedNotEarly

---------------------------------------------------------------------------
(* While no two orchestrators draft at the same time, the salt of the sent   *)
(* commitment is never lost.                                                *)

Drafting == {"DRAFT_APPLICATION", "BUNDLE", "COMMIT_TX", "APPLICATION_DRAFTED"}

(* No orchestrator chooses to draft while another one is at it; all their    *)
(* other work may overlap.  One orchestrator alone always satisfies this.    *)
DraftsApart == \A o, p \in Orchestrators : pc[o] \in Drafting /\ pc[p] \in Drafting => o = p

Revealing == {"BUILD_REVEAL_TX", "REVEAL_GATE", "REVEAL_READY"}

(* The inductive invariant: while an application is drafted nothing is on    *)
(* chain and nothing but the refresh moves the status; from then on the      *)
(* material and the state agree; a reveal is built from that material.       *)
BindInv ==
    /\ st.status \in {"ABSENT", "DISCOVERED", "INSPECTED", "FIT_APPROVED"} => chain.commit = 0
    /\ st.status \in {"APPLICATION_DRAFTED", "COMMIT_READY"} => art.material = st.hash
    /\ st.status = "REVEAL_READY" => tx["reveal"] = art.material
    /\ cli # "REVEAL_READY"
    /\ MaterialBindsCommit
    /\ \A o \in Orchestrators :
          /\ pc[o] \in Drafting =>
                 chain.commit = 0 /\ st.status \in {"FIT_APPROVED", "MISSED_WINDOW"}
          /\ pc[o] \in {"COMMIT_TX", "APPLICATION_DRAFTED"} => art.material = held[o]
          /\ pc[o] \in Revealing => chain.commit # 0
          /\ pc[o] = "REVEAL_GATE" => held[o] = art.material
          /\ pc[o] = "REVEAL_READY" => tx["reveal"] = art.material

LEMMA ProposedDraft ==
    /\ Proposed = "DRAFT_APPLICATION" => st.status = "FIT_APPROVED"
    /\ Proposed = "BUILD_REVEAL_TX" => st.status = "COMMIT_SUBMITTED"
BY DEF Proposed, ComputeNextAction

(* The edges around the draft. *)
LEMMA DraftEdges ==
    /\ \A s : ~IsValidTransition("MISSED_WINDOW", s)
    /\ \A s : IsValidTransition("FIT_APPROVED", s) => s \in {"APPLICATION_DRAFTED", "MISSED_WINDOW"}
    /\ \A s : IsValidTransition(s, "APPLICATION_DRAFTED") => s = "FIT_APPROVED"
    /\ \A s : IsValidTransition(s, "COMMIT_READY") => s = "APPLICATION_DRAFTED"
    /\ \A s, t : IsValidTransition(s, t) /\ t \in {"ABSENT", "DISCOVERED", "INSPECTED", "FIT_APPROVED"}
           => s \in {"DISCOVERED", "INSPECTED"}
BY DEF IsValidTransition, ForwardEdges, Missable, Expirable, ApplyStatuses, FinalistStatuses,
       ScoringStatuses

(* What a step of one orchestrator means for the others: those that draft    *)
(* are not there.                                                            *)
LEMMA OthersRest ==
    ASSUME NEW o \in Orchestrators, TypeOK, NEW step, NEW token, Goto(o, step, token)
    PROVE  /\ pc'[o] = step /\ held'[o] = token
           /\ \A x \in Orchestrators : x # o => pc'[x] = pc[x] /\ held'[x] = held[x]
           /\ DraftsApart /\ pc[o] \in Drafting =>
                  \A x \in Orchestrators : x # o => pc'[x] \notin Drafting
BY DEF Goto, TypeOK, DraftsApart

LEMMA BindInvInductive ==
    ASSUME DraftsApart, TypeOK, TxInv, MissInv, BindInv, [Next]_vars
    PROVE  BindInv'
<1> USE DEF BindInv, MaterialBindsCommit
<1>1. ASSUME NEW o \in Orchestrators, Advance(o) PROVE BindInv'
  <2> USE DEF Finish, TypeOK, Drafting, Revealing
  <2>a. ASSUME NEW step, NEW token, Goto(o, step, token)
        PROVE  /\ pc'[o] = step /\ held'[o] = token
               /\ \A x \in Orchestrators : x # o => pc'[x] = pc[x] /\ held'[x] = held[x]
               /\ pc[o] \in Drafting => \A x \in Orchestrators : x # o => pc'[x] \notin Drafting
    BY <2>a, OthersRest
  <2>1. CASE Begin(o)
    BY <2>1, <2>a, ProposedDraft DEF Begin, Handlers, MissInv, PostCommit, NeedsReveal
  <2>2. CASE Inspect(o)
    BY <2>2, <2>a, DraftEdges DEF Inspect, Settable
  <2>3. ASSUME NEW d \in {"PASS", "FAIL"}, WriteFit(o, d) PROVE BindInv'
    BY <2>3, <2>a DEF WriteFit
  <2>4. CASE RecordFit(o)
    BY <2>4, <2>a DEF RecordFit
  <2>5. CASE PinApplication(o)
    BY <2>5, <2>a DEF PinApplication
  <2>6. CASE PinFails(o)
    BY <2>6, <2>a DEF PinFails
  <2>7. CASE WriteBundle(o)
    BY <2>7, <2>a DEF WriteBundle
  <2>8. CASE BuildCommit(o)
    BY <2>8, <2>a DEF BuildCommit, Kinds
  <2>9. CASE RecordDraft(o)
    <3>1. /\ pc[o] = "APPLICATION_DRAFTED" /\ chain.commit = 0 /\ art.material = held[o]
          /\ UNCHANGED <<art, tx, chain, cli>>
      BY <2>9 DEF RecordDraft
    <3>2. CASE st' = st /\ Finish(o)
      BY <2>a, <3>1, <3>2
    <3>3. CASE /\ st' = [st EXCEPT !.status = "APPLICATION_DRAFTED", !.hash = held[o]]
               /\ Goto(o, "COMMIT_READY", held[o])
      <4>1. st'.status = "APPLICATION_DRAFTED" /\ st'.hash = held[o]
        BY <3>3
      <4>2. /\ pc'[o] = "COMMIT_READY"
            /\ \A x \in Orchestrators : x # o => pc'[x] = pc[x] /\ held'[x] = held[x]
            /\ \A x \in Orchestrators : pc'[x] \notin Drafting
        BY <2>a, <3>1, <3>3
      <4> QED BY <3>1, <4>1, <4>2
    <3> QED BY <2>9, <3>2, <3>3 DEF RecordDraft
  <2>10. CASE EnterCommitGate(o)
    BY <2>10, <2>a DEF EnterCommitGate
  <2>11. CASE WriteReveal(o)
    BY <2>11, <2>a DEF WriteReveal
  <2>12. CASE WriteFinalist(o)
    BY <2>12, <2>a DEF WriteFinalist
  <2>13. CASE StartTrial(o)
    BY <2>13, <2>a DEF StartTrial
  <2>14. ASSUME NEW f \in BOOLEAN, PublishTrial(o, f) PROVE BindInv'
    BY <2>14, <2>a DEF PublishTrial
  <2>15. CASE RecordTrialURI(o)
    BY <2>15, <2>a DEF RecordTrialURI
  <2>16. CASE PassGate(o)
    BY <2>16, <2>a, GateKinds, KindNames DEF PassGate, Gates, TxOf, AfterGate, Kinds
  <2>17. CASE RecordReady(o)
    BY <2>17, <2>a, DraftEdges, KindNames DEF RecordReady, Kinds
  <2>18. CASE Execute(o)
    BY <2>18, <2>a DEF Execute
  <2> QED BY <1>1, <2>1, <2>2, <2>3, <2>4, <2>5, <2>6, <2>7, <2>8, <2>9, <2>10, <2>11, <2>12, <2>13,
             <2>14, <2>15, <2>16, <2>17, <2>18 DEF Advance
<1>2. ASSUME NEW o \in Orchestrators, Crash(o) PROVE BindInv'
  BY <1>2 DEF Crash, Finish, Goto, TypeOK, Drafting, Revealing
<1>3. CASE Monitor
  BY <1>3, DraftEdges DEF Monitor, Discover, DetectShortlist, DetectWinner, Snapshot, Refresh,
     RefreshFails, TypeOK, orch
<1>4. CASE Tools
  <2>1. ASSUME NEW k \in DOMAIN ApproveFrom, Approve(k) PROVE BindInv'
    BY <2>1, KindNames DEF Approve, ApproveFrom, TypeOK, Kinds, orch
  <2>2. ASSUME NEW k \in DOMAIN SubmittedOf, Mark(k) PROVE BindInv'
    BY <2>2, KindNames DEF Mark, TypeOK, TxKinds, orch
  <2>3. CASE CliRecord
    BY <2>3, DraftEdges DEF CliRecord, Settable, TxInv, MissInv, TypeOK, orch
  <2>4. CASE CliCrash \/ RecordCompletion
    BY <2>4 DEF CliCrash, RecordCompletion, TypeOK, orch
  <2> QED BY <1>4, <2>1, <2>2, <2>3, <2>4 DEF Tools
<1>5. CASE Operator
  <2>1. ASSUME NEW to \in {e[2] : e \in OperatorEdges}, Decide(to) PROVE BindInv'
    BY <2>1, DraftEdges, EdgeFacts DEF Decide, OperatorEdges, TypeOK, orch
  <2>2. CASE VerifyStake
    BY <2>2 DEF VerifyStake, TypeOK, orch
  <2>3. CASE SendCommit
    BY <2>3 DEF SendCommit, TypeOK, orch
  <2>4. CASE SendReveal
    BY <2>4 DEF SendReveal, TypeOK, orch
  <2> QED BY <1>5, <2>1, <2>2, <2>3, <2>4 DEF Operator
<1>6. CASE Tick \/ UNCHANGED vars
  BY <1>6 DEF Tick, vars, orch
<1> QED BY <1>1, <1>2, <1>3, <1>4, <1>5, <1>6 DEF Next

(* MaterialBindsCommit and RevealWillOpen for any orchestrators no two of     *)
(* which draft at the same time, any deadlines and any number of drafts and   *)
(* crashes: the application the contract holds can always be opened, and a    *)
(* prepared reveal opens it.  Reveals, gates and records may overlap.         *)
THEOREM BindTheorem ==
    Spec /\ []DraftsApart => [](MaterialBindsCommit /\ RevealWillOpen)
<1>1. Init => TxInv /\ MissInv /\ BindInv
  BY StepFacts, SilentFacts, PostCommitEntry
     DEF Init, TxInv, Silent, Gates, MissInv, NoSnapshot, BindInv, MaterialBindsCommit, Drafting, Revealing
<1>2. TypeOK /\ DraftsApart /\ TxInv /\ MissInv /\ BindInv /\ [Next]_vars => (TxInv /\ MissInv /\ BindInv)'
  BY TxInvInductive, MissInvInductive, BindInvInductive
<1>3. MissInv /\ BindInv => MaterialBindsCommit /\ RevealWillOpen
  BY DEF MissInv, BindInv, MaterialBindsCommit, RevealWillOpen, PostCommit, NeedsReveal
<1> QED BY <1>1, <1>2, <1>3, TypeCorrect, PTL DEF Spec

(* A reveal the operator is told to sign opens the commitment on chain, not   *)
(* an older draft's: buildRevealTx reads the committed salt and subdomain.    *)
THEOREM RevealTheorem == Spec /\ []DraftsApart => []RevealWillOpen
<1>1. Spec /\ []DraftsApart => [](MaterialBindsCommit /\ RevealWillOpen) BY BindTheorem
<1>2. MaterialBindsCommit /\ RevealWillOpen => RevealWillOpen OBVIOUS
<1> QED BY <1>1, <1>2, PTL

(* One orchestrator, wherever it crashes and however often it starts over,    *)
(* needs no such care.                                                        *)
THEOREM OneOrchestratorTheorem ==
    ASSUME NEW CONSTANT o, Orchestrators = {o}
    PROVE  Spec => [](MaterialBindsCommit /\ RevealWillOpen)
<1>1. DraftsApart
  BY DEF DraftsApart
<1>2. []DraftsApart
  BY <1>1, PTL
<1> QED BY <1>2, BindTheorem, PTL

---------------------------------------------------------------------------
(* With the gates as they are, nothing is ever revealed.                    *)

Unrevealed ==
    {"ABSENT", "DISCOVERED", "INSPECTED", "FIT_APPROVED", "NOT_A_FIT", "APPLICATION_DRAFTED",
     "COMMIT_READY", "COMMIT_SUBMITTED", "MISSED_WINDOW"}

NothingRevealed ==
    /\ st.status \in Unrevealed /\ ~st.shortlisted /\ ~st.selected
    /\ tx["reveal"] = 0 /\ ~chain.revealed

(* The steps an orchestrator can be at when no gate opens.                   *)
BeforeGates ==
    {"idle", "INSPECT", "EVALUATE_FIT", "FIT_EVALUATED", "COMMIT_READY",
     "BUILD_COMMIT_TX", "COMMIT_GATE", "BUILD_REVEAL_TX", "REVEAL_GATE"} \cup Drafting

ClosedInv ==
    /\ NothingRevealed
    /\ cli \in {"NONE", "COMMIT_SUBMITTED"}
    /\ \A o \in Orchestrators : pc[o] \in BeforeGates

LEMMA ProposedEarly ==
    ASSUME st.status \in Unrevealed, Proposed \in Handlers
    PROVE  Proposed \in BeforeGates
BY DEF Proposed, ComputeNextAction, Unrevealed, Handlers, BeforeGates, Drafting, Terminal

LEMMA EarlyEdges ==
    /\ \A to : <<st.status, to>> \in OperatorEdges /\ st.status \in Unrevealed => to \in Unrevealed
    /\ {"INSPECTED", "APPLICATION_DRAFTED", "COMMIT_READY", "COMMIT_SUBMITTED",
        "MISSED_WINDOW", "DISCOVERED"} \subseteq Unrevealed
BY DEF OperatorEdges, Unrevealed

LEMMA ClosedStep ==
    ASSUME HelperDefined = FALSE, TypeOK, ClosedInv, [Next]_vars
    PROVE  ClosedInv'
<1> USE DEF ClosedInv, NothingRevealed
<1>1. ASSUME NEW o \in Orchestrators, Advance(o) PROVE ClosedInv'
  <2> USE DEF Finish, TypeOK
  <2>a. ASSUME NEW step \in BeforeGates, NEW token, Goto(o, step, token)
        PROVE  \A x \in Orchestrators : pc'[x] \in BeforeGates
    BY <2>a, OthersRest
  <2>b. /\ {"idle", "COMMIT_READY", "FIT_EVALUATED", "COMMIT_GATE", "REVEAL_GATE"} \subseteq BeforeGates
        /\ Drafting \subseteq BeforeGates
        /\ {"BUNDLE", "COMMIT_TX", "APPLICATION_DRAFTED"} \subseteq Drafting
    BY DEF BeforeGates, Drafting
  <2>c. /\ {"BUILD_FINALIST_TX", "BUILD_TRIAL", "TRIAL_WORK", "TRIAL_URI", "EXECUTE_JOB",
            "REVEAL_READY", "FINALIST_ACCEPT_READY", "TRIAL_READY", "COMPLETION_READY"}
               \cap BeforeGates = {}
    BY DEF BeforeGates, Drafting
  <2>1. CASE Begin(o)
    BY <2>1, <2>a, ProposedEarly DEF Begin
  <2>2. CASE Inspect(o)
    BY <2>2, <2>a, <2>b, EarlyEdges DEF Inspect
  <2>3. ASSUME NEW d \in {"PASS", "FAIL"}, WriteFit(o, d) PROVE ClosedInv'
    BY <2>3, <2>a, <2>b DEF WriteFit
  <2>4. CASE RecordFit(o)
    BY <2>4, <2>a, <2>b DEF RecordFit
  <2>5. CASE PinApplication(o) \/ PinFails(o)
    BY <2>5, <2>a, <2>b DEF PinApplication, PinFails
  <2>6. CASE WriteBundle(o)
    BY <2>6, <2>a, <2>b DEF WriteBundle
  <2>7. CASE BuildCommit(o)
    BY <2>7, <2>a, <2>b DEF BuildCommit, Kinds
  <2>8. CASE RecordDraft(o)
    BY <2>8, <2>a, <2>b, EarlyEdges DEF RecordDraft
  <2>9. CASE EnterCommitGate(o)
    BY <2>9, <2>a, <2>b DEF EnterCommitGate
  <2>10. CASE WriteReveal(o)
    BY <2>10, <2>a, <2>b DEF WriteReveal
  <2>11. CASE \/ WriteFinalist(o) \/ StartTrial(o) \/ RecordTrialURI(o) \/ Execute(o)
              \/ \E f \in BOOLEAN : PublishTrial(o, f)
    BY <2>11, <2>c DEF WriteFinalist, StartTrial, RecordTrialURI, Execute, PublishTrial
  <2>12. CASE PassGate(o)
    <3>1. ~GatePasses(pc[o])
      BY DEF GatePasses
    <3> QED BY <2>12, <2>a, <2>b, <3>1 DEF PassGate
  <2>13. CASE RecordReady(o)
    <3>1. pc[o] = "COMMIT_READY"
      BY <2>13, <2>c DEF RecordReady, Kinds, ReadyOf
    <3> QED BY <2>13, <2>a, <2>b, <3>1, EarlyEdges DEF RecordReady
  <2> QED BY <1>1, <2>1, <2>2, <2>3, <2>4, <2>5, <2>6, <2>7, <2>8, <2>9, <2>10, <2>11, <2>12, <2>13
          DEF Advance
<1>2. ASSUME NEW o \in Orchestrators, Crash(o) PROVE ClosedInv'
  <2>1. "idle" \in BeforeGates
    BY DEF BeforeGates
  <2> QED BY <1>2, <2>1 DEF Crash, Finish, Goto, TypeOK
<1>3. CASE Monitor
  BY <1>3, EarlyEdges DEF Monitor, Discover, DetectShortlist, DetectWinner, Snapshot, Refresh,
     RefreshFails, TypeOK, orch
<1>4. CASE Tools
  <2>1. \A k \in DOMAIN ApproveFrom : ~Approve(k)
    BY DEF Approve, ApproveFrom, Unrevealed
  <2>2. ASSUME NEW k \in DOMAIN SubmittedOf, Mark(k) PROVE ClosedInv'
    <3>1. k = "commit"
      BY <2>2, KindNames DEF Mark, Unrevealed, TxKinds
    <3> QED BY <2>2, <3>1, KindNames DEF Mark, orch
  <2>3. CASE CliRecord
    BY <2>3, EarlyEdges DEF CliRecord, TypeOK, orch
  <2>4. CASE CliCrash
    BY <2>4 DEF CliCrash, orch
  <2>5. ~RecordCompletion
    BY DEF RecordCompletion, Unrevealed
  <2> QED BY <1>4, <2>1, <2>2, <2>3, <2>4, <2>5 DEF Tools
<1>5. CASE Operator
  <2>1. ASSUME NEW to \in {e[2] : e \in OperatorEdges}, Decide(to) PROVE ClosedInv'
    BY <2>1, EarlyEdges DEF Decide, TypeOK, orch
  <2>2. CASE VerifyStake
    BY <2>2 DEF VerifyStake, orch
  <2>3. CASE SendCommit
    BY <2>3 DEF SendCommit, TypeOK, orch
  <2>4. ~SendReveal
    BY DEF SendReveal, Unrevealed
  <2> QED BY <1>5, <2>1, <2>2, <2>3, <2>4 DEF Operator
<1>6. CASE Tick \/ UNCHANGED vars
  BY <1>6 DEF Tick, vars, orch
<1> QED BY <1>1, <1>2, <1>3, <1>4, <1>5, <1>6 DEF Next

(* While the helper that every gate calls is not defined, no procurement gets *)
(* past COMMIT_SUBMITTED: no reveal is prepared, sent or marked, whatever the *)
(* deadlines, the orchestrators, the tools and the operator do, and however   *)
(* often they start over (prime-review-gates.js).                             *)
THEOREM GatesClosedTheorem ==
    ASSUME HelperDefined = FALSE
    PROVE  Spec => []NothingRevealed
<1>1. Init => ClosedInv
  BY DEF Init, ClosedInv, NothingRevealed, Unrevealed, BeforeGates, Kinds
<1>2. TypeOK /\ ClosedInv /\ [Next]_vars => ClosedInv'
  BY ClosedStep
<1>3. ClosedInv => NothingRevealed
  BY DEF ClosedInv
<1> QED BY <1>1, <1>2, <1>3, TypeCorrect, PTL DEF Spec
=============================================================================
