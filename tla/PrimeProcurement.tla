-------------------------- MODULE PrimeProcurement --------------------------
(***************************************************************************)
(* The life of one Prime procurement.  Four kinds of process meet in its    *)
(* directory artifacts/proc_<id>:                                           *)
(*   - the orchestrator (prime-orchestrator.js) reads state.json, asks      *)
(*     prime-next-action.js for the one action the status and the chain     *)
(*     phase call for, and runs its handler, which writes artifacts and     *)
(*     unsigned transactions, passes a gate (prime-review-gates.js) and     *)
(*     moves the status;                                                    *)
(*   - the monitor (prime-monitor.js) discovers procurements, records       *)
(*     shortlist and winner events and declares missed windows;             *)
(*   - the operator's tools prime_approve_action.js and                     *)
(*     prime_mark_external_action.js;                                       *)
(*   - the operator, who decides, edits, signs and sends.                   *)
(* Nothing locks the directory.  An update of state.json is one step here;  *)
(* what happens inside one is the subject of ProcStateFile.                 *)
(*                                                                          *)
(* An application is a token: 1, 2, ... in the order in which they are      *)
(* drafted, 0 for none.  It stands for its URI, its salt and the hash that  *)
(* commits to both, each fresh in every draft.  Trials are tokens too.      *)
(***************************************************************************)
EXTENDS PrimePhases

CONSTANTS
    Orchestrators, \* the orchestrator processes
    Deadlines,     \* the six deadlines, in ascending order
    HelperDefined, \* whether the gates' helper requireJsonFieldValue exists
    MaxTime,       \* bound: the clock
    MaxDrafts,     \* bound: applications drafted
    MaxTrials,     \* bound: trials published
    MaxCrashes     \* bound: crashes and failed chain reads

ASSUME DeadlinesAssumption == Deadlines \in [1..6 -> Nat]

ASSUME BoundsAssumption ==
    /\ HelperDefined \in BOOLEAN
    /\ MaxTime \in Nat /\ MaxDrafts \in Nat /\ MaxTrials \in Nat /\ MaxCrashes \in Nat

VARIABLES
    st,      \* state.json
    art,     \* the artifacts the gates and handlers read back
    tx,      \* the unsigned transaction files, by kind; 0 is no file
    chain,   \* the contract: the stored commitment, and whether it was opened
    pc,      \* where each orchestrator process is: idle, or the step it is at
    held,    \* the token its handler carries
    mon,     \* the monitor's snapshot in a refresh
    cli,     \* the status an operator's tool is about to record
    now,     \* the clock
    drafts,  \* applications drafted so far
    trials,  \* trials published so far
    crashes  \* crashes so far

orch == <<pc, held>>
vars == <<st, art, tx, chain, orch, mon, cli, now, drafts, trials, crashes>>

Kinds == {"commit", "reveal", "finalist", "trial", "completion"}

(* The status that says the transaction of a kind waits for a signature,    *)
(* and the one that says the operator has sent it.                          *)
ReadyOf == [commit     |-> "COMMIT_READY",
            reveal     |-> "REVEAL_READY",
            finalist   |-> "FINALIST_ACCEPT_READY",
            trial      |-> "TRIAL_READY",
            completion |-> "COMPLETION_READY"]

SubmittedOf == [commit   |-> "COMMIT_SUBMITTED",
                reveal   |-> "REVEAL_SUBMITTED",
                finalist |-> "FINALIST_ACCEPT_SUBMITTED",
                trial    |-> "TRIAL_SUBMITTED"]

PhaseAt(t) == DeriveChainPhase(Deadlines, t)
Phase == PhaseAt(now)

(* Mutant: an application is drafted anew while its commit window is open. *)
ProposedRedrafting ==
    IF st.status = "COMMIT_SUBMITTED" /\ Phase = "COMMIT_OPEN" THEN "DRAFT_APPLICATION"
    ELSE ComputeNextAction([status       |-> st.status,
                            fitEvaluated |-> st.fitEvaluated,
                            assigned     |-> FALSE], Phase)

Proposed == ComputeNextAction([status       |-> st.status,
                               fitEvaluated |-> st.fitEvaluated,
                               assigned     |-> FALSE], Phase)

---------------------------------------------------------------------------
(* The gates.  Each calls requireJsonFieldValue, which no file defines: the *)
(* call throws a ReferenceError and checkGate turns that into a failure.    *)
Gates == {"COMMIT_GATE", "REVEAL_GATE", "FINALIST_ACCEPT_GATE", "TRIAL_SUBMIT_GATE"}

Requirements(gate) ==
    CASE gate = "COMMIT_GATE" ->
             Phase = "COMMIT_OPEN" /\ art.material # 0 /\ art.fit = "PASS"
      [] gate = "REVEAL_GATE" ->
             Phase = "REVEAL_OPEN" /\ art.material # 0 /\ art.verified
      [] gate = "FINALIST_ACCEPT_GATE" ->
             Phase = "FINALIST_ACCEPT" /\ art.stake = "SUFFICIENT" /\ st.shortlisted
      [] gate = "TRIAL_SUBMIT_GATE" ->
             Phase = "TRIAL_OPEN" /\ art.trial # 0 /\ art.fetched

GatePasses(gate) == HelperDefined /\ Requirements(gate)

(* The transaction a passed gate leads to, and the step after building it.  *)
TxOf == [COMMIT_GATE          |-> "commit",
         REVEAL_GATE          |-> "reveal",
         FINALIST_ACCEPT_GATE |-> "finalist",
         TRIAL_SUBMIT_GATE    |-> "trial"]

AfterGate(gate) == IF gate = "TRIAL_SUBMIT_GATE" THEN "TRIAL_URI" ELSE ReadyOf[TxOf[gate]]

---------------------------------------------------------------------------
(* The orchestrator.                                                        *)

Goto(o, step, token) ==
    /\ pc' = [pc EXCEPT ![o] = step]
    /\ held' = [held EXCEPT ![o] = token]

(* A handler returns, blocked or done, or throws: the cycle is over. *)
Finish(o) == Goto(o, "idle", 0)

Handlers == {"INSPECT", "EVALUATE_FIT", "DRAFT_APPLICATION", "BUILD_COMMIT_TX",
             "BUILD_REVEAL_TX", "BUILD_FINALIST_TX", "BUILD_TRIAL", "EXECUTE_JOB"}

(* advanceProcurement: read the state and the chain, choose the handler. *)
Begin(o) ==
    /\ pc[o] = "idle"
    /\ st.status # "ABSENT"
    /\ Proposed \in Handlers
    /\ Goto(o, Proposed, 0)
    /\ UNCHANGED <<st, art, tx, chain, mon, cli, now, drafts, trials, crashes>>

(* Mutant: setProcState stores whatever status it is given. *)
SettableAlways(to) == to \in Status

(* setProcState validates a change of status, and takes no change for one;  *)
(* transitionProcStatus validates always.                                   *)
Settable(to) == to = st.status \/ IsValidTransition(st.status, to)

(* handleInspect *)
Inspect(o) ==
    /\ pc[o] = "INSPECT"
    /\ st' = IF Settable("INSPECTED") THEN [st EXCEPT !.status = "INSPECTED"] ELSE st
    /\ Finish(o)
    /\ UNCHANGED <<art, tx, chain, mon, cli, now, drafts, trials, crashes>>

(* handleEvaluateFit: the evaluation, then the mark that it is there. *)
WriteFit(o, decision) ==
    /\ pc[o] = "EVALUATE_FIT"
    /\ art' = [art EXCEPT !.fit = decision]
    /\ Goto(o, "FIT_EVALUATED", 0)
    /\ UNCHANGED <<st, tx, chain, mon, cli, now, drafts, trials, crashes>>

RecordFit(o) ==
    /\ pc[o] = "FIT_EVALUATED"
    /\ st' = [st EXCEPT !.fitEvaluated = TRUE]
    /\ Finish(o)
    /\ UNCHANGED <<art, tx, chain, mon, cli, now, drafts, trials, crashes>>

(* handleDraftApplication: pin a fresh application, write the bundle with   *)
(* its commitment material, build the commit transaction, and record        *)
(* APPLICATION_DRAFTED and then COMMIT_READY.  No gate is asked.            *)
PinApplication(o) ==
    /\ pc[o] = "DRAFT_APPLICATION"
    /\ drafts < MaxDrafts
    /\ drafts' = drafts + 1
    /\ Goto(o, "BUNDLE", drafts + 1)
    /\ UNCHANGED <<st, art, tx, chain, mon, cli, now, trials, crashes>>

(* pinToIpfs answers null: the handler returns BLOCKED. *)
PinFails(o) ==
    /\ pc[o] \in {"DRAFT_APPLICATION", "TRIAL_WORK"}
    /\ Finish(o)
    /\ UNCHANGED <<st, art, tx, chain, mon, cli, now, drafts, trials, crashes>>

WriteBundle(o) ==
    /\ pc[o] = "BUNDLE"
    /\ art' = [art EXCEPT !.material = held[o]]
    /\ Goto(o, "COMMIT_TX", held[o])
    /\ UNCHANGED <<st, tx, chain, mon, cli, now, drafts, trials, crashes>>

BuildCommit(o) ==
    /\ pc[o] = "COMMIT_TX"
    /\ tx' = [tx EXCEPT !.commit = held[o]]
    /\ Goto(o, "APPLICATION_DRAFTED", held[o])
    /\ UNCHANGED <<st, art, chain, mon, cli, now, drafts, trials, crashes>>

(* Mutant: the patch leaves the commitment hash out. *)
RecordDraftWithoutHash(o) ==
    /\ pc[o] = "APPLICATION_DRAFTED"
    /\ IF IsValidTransition(st.status, "APPLICATION_DRAFTED")
       THEN /\ st' = [st EXCEPT !.status = "APPLICATION_DRAFTED"]
            /\ Goto(o, "COMMIT_READY", held[o])
       ELSE UNCHANGED st /\ Finish(o)
    /\ UNCHANGED <<art, tx, chain, mon, cli, now, drafts, trials, crashes>>

RecordDraft(o) ==
    /\ pc[o] = "APPLICATION_DRAFTED"
    /\ IF IsValidTransition(st.status, "APPLICATION_DRAFTED")
       THEN /\ st' = [st EXCEPT !.status = "APPLICATION_DRAFTED", !.hash = held[o]]
            /\ Goto(o, "COMMIT_READY", held[o])
       ELSE UNCHANGED st /\ Finish(o)
    /\ UNCHANGED <<art, tx, chain, mon, cli, now, drafts, trials, crashes>>

(* handleBuildCommitTx: the hash comes from the state. *)
EnterCommitGate(o) ==
    /\ pc[o] = "BUILD_COMMIT_TX"
    /\ Goto(o, "COMMIT_GATE", st.hash)
    /\ UNCHANGED <<st, art, tx, chain, mon, cli, now, drafts, trials, crashes>>

(* Mutant: the verification's result is not written down. *)
WriteRevealUnverified(o) ==
    /\ pc[o] = "BUILD_REVEAL_TX"
    /\ IF art.material = 0 THEN Finish(o) ELSE Goto(o, "REVEAL_GATE", art.material)
    /\ UNCHANGED <<st, art, tx, chain, mon, cli, now, drafts, trials, crashes>>

(* handleBuildRevealTx: the salt and the URI come from the material on      *)
(* disk, whose hash is recomputed and compared with the one beside them.    *)
WriteReveal(o) ==
    /\ pc[o] = "BUILD_REVEAL_TX"
    /\ IF art.material = 0
       THEN UNCHANGED art /\ Finish(o)
       ELSE /\ art' = [art EXCEPT !.verified = TRUE]
            /\ Goto(o, "REVEAL_GATE", art.material)
    /\ UNCHANGED <<st, tx, chain, mon, cli, now, drafts, trials, crashes>>

(* handleBuildFinalistTx: the bundle holds a fresh stake_preflight.json,    *)
(* both of whose answers are false.                                         *)
WriteFinalist(o) ==
    /\ pc[o] = "BUILD_FINALIST_TX"
    /\ art' = [art EXCEPT !.stake = "UNCHECKED"]
    /\ Goto(o, "FINALIST_ACCEPT_GATE", 1)
    /\ UNCHANGED <<st, tx, chain, mon, cli, now, drafts, trials, crashes>>

(* handleBuildTrial: start the trial if it has not started, publish the     *)
(* deliverable, fetch it back, and after the gate record its URI.           *)
StartTrial(o) ==
    /\ pc[o] = "BUILD_TRIAL"
    /\ st' = IF st.status = "FINALIST_ACCEPT_SUBMITTED"
             THEN [st EXCEPT !.status = "TRIAL_IN_PROGRESS"] ELSE st
    /\ Goto(o, "TRIAL_WORK", 0)
    /\ UNCHANGED <<art, tx, chain, mon, cli, now, drafts, trials, crashes>>

PublishTrial(o, fetched) ==
    /\ pc[o] = "TRIAL_WORK"
    /\ trials < MaxTrials
    /\ trials' = trials + 1
    /\ art' = [art EXCEPT !.trial = trials + 1, !.fetched = fetched]
    /\ Goto(o, "TRIAL_SUBMIT_GATE", trials + 1)
    /\ UNCHANGED <<st, tx, chain, mon, cli, now, drafts, crashes>>

RecordTrialURI(o) ==
    /\ pc[o] = "TRIAL_URI"
    /\ st' = [st EXCEPT !.trialURI = held[o]]
    /\ Goto(o, "TRIAL_READY", held[o])
    /\ UNCHANGED <<art, tx, chain, mon, cli, now, drafts, trials, crashes>>

(* Mutant: a failed gate is reported, and the status recorded all the same. *)
PassGateRegardless(o) ==
    /\ pc[o] \in Gates
    /\ tx' = IF GatePasses(pc[o]) THEN [tx EXCEPT ![TxOf[pc[o]]] = held[o]] ELSE tx
    /\ Goto(o, AfterGate(pc[o]), held[o])
    /\ UNCHANGED <<st, art, chain, mon, cli, now, drafts, trials, crashes>>

(* checkGate, and the builder behind it. *)
PassGate(o) ==
    /\ pc[o] \in Gates
    /\ IF GatePasses(pc[o])
       THEN /\ tx' = [tx EXCEPT ![TxOf[pc[o]]] = held[o]]
            /\ Goto(o, AfterGate(pc[o]), held[o])
       ELSE UNCHANGED tx /\ Finish(o)
    /\ UNCHANGED <<st, art, chain, mon, cli, now, drafts, trials, crashes>>

(* The handlers' last transitionProcStatus. *)
RecordReady(o) ==
    /\ pc[o] \in {ReadyOf[k] : k \in Kinds}
    /\ st' = IF IsValidTransition(st.status, pc[o]) THEN [st EXCEPT !.status = pc[o]] ELSE st
    /\ Finish(o)
    /\ UNCHANGED <<art, tx, chain, mon, cli, now, drafts, trials, crashes>>

(* Mutant: the bridge's own phase is stored as the status. *)
ExecutePhase(o) ==
    /\ pc[o] = "EXECUTE_JOB"
    /\ st' = IF st.status = "SELECTED" /\ st.selected
             THEN [st EXCEPT !.status = "EXECUTING"] ELSE st
    /\ Finish(o)
    /\ UNCHANGED <<art, tx, chain, mon, cli, now, drafts, trials, crashes>>

(* handleExecuteJob, activateBridge: it throws unless the monitor recorded  *)
(* the selection.                                                           *)
Execute(o) ==
    /\ pc[o] = "EXECUTE_JOB"
    /\ st' = IF st.status = "SELECTED" /\ st.selected
             THEN [st EXCEPT !.status = "JOB_EXECUTION_IN_PROGRESS"] ELSE st
    /\ Finish(o)
    /\ UNCHANGED <<art, tx, chain, mon, cli, now, drafts, trials, crashes>>

Crash(o) ==
    /\ pc[o] # "idle"
    /\ crashes < MaxCrashes
    /\ crashes' = crashes + 1
    /\ Finish(o)
    /\ UNCHANGED <<st, art, tx, chain, mon, cli, now, drafts, trials>>

Advance(o) ==
    \/ Begin(o)
    \/ Inspect(o)
    \/ \E d \in {"PASS", "FAIL"} : WriteFit(o, d)
    \/ RecordFit(o)
    \/ PinApplication(o) \/ PinFails(o)
    \/ WriteBundle(o) \/ BuildCommit(o) \/ RecordDraft(o)
    \/ EnterCommitGate(o) \/ WriteReveal(o) \/ WriteFinalist(o)
    \/ StartTrial(o)
    \/ \E f \in BOOLEAN : PublishTrial(o, f)
    \/ RecordTrialURI(o)
    \/ PassGate(o) \/ RecordReady(o)
    \/ Execute(o)

---------------------------------------------------------------------------
(* The monitor.                                                             *)

(* discoverNewProcurements *)
Discover ==
    /\ st.status = "ABSENT"
    /\ st' = [st EXCEPT !.status = "DISCOVERED"]
    /\ UNCHANGED <<art, tx, chain, orch, mon, cli, now, drafts, trials, crashes>>

(* detectShortlistEvents: the flag is set, the status stays.  The contract  *)
(* shortlists revealed applications once the reveal window has closed.      *)
DetectShortlist ==
    /\ chain.revealed
    /\ Phase \notin {"COMMIT_OPEN", "REVEAL_OPEN"}
    /\ ~st.shortlisted
    /\ st' = [st EXCEPT !.shortlisted = TRUE]
    /\ UNCHANGED <<art, tx, chain, orch, mon, cli, now, drafts, trials, crashes>>

(* detectWinnerDesignations: each event replaces the verdict. *)
DetectWinner ==
    /\ chain.revealed
    /\ Phase = "CLOSED"
    /\ st' = [st EXCEPT !.selected = ~st.selected]
    /\ UNCHANGED <<art, tx, chain, orch, mon, cli, now, drafts, trials, crashes>>

(* refreshActiveProcurements: the clock and the states of the active        *)
(* procurements are read first; the window is judged by that reading, and   *)
(* only the move to MISSED_WINDOW looks at the status again.                *)
NoSnapshot == [busy |-> FALSE, status |-> "ABSENT", now |-> 0]

Snapshot ==
    /\ ~mon.busy
    /\ st.status \notin Terminal \cup {"ABSENT"}
    /\ mon' = [busy |-> TRUE, status |-> st.status, now |-> now]
    /\ UNCHANGED <<st, art, tx, chain, orch, cli, now, drafts, trials, crashes>>

(* Mutant: a window counts as missed one tick before it closes. *)
MissedAhead(snapshot) == DidMissRequiredWindow(snapshot.status, PhaseAt(snapshot.now + 1))

Missed(snapshot) == DidMissRequiredWindow(snapshot.status, PhaseAt(snapshot.now))

Refresh ==
    /\ mon.busy
    /\ st' = IF Missed(mon) /\ IsValidTransition(st.status, "MISSED_WINDOW")
             THEN [st EXCEPT !.status = "MISSED_WINDOW"] ELSE st
    /\ mon' = NoSnapshot
    /\ UNCHANGED <<art, tx, chain, orch, cli, now, drafts, trials, crashes>>

(* A chain read of the refresh fails, or the monitor is restarted. *)
RefreshFails ==
    /\ mon.busy
    /\ crashes < MaxCrashes
    /\ crashes' = crashes + 1
    /\ mon' = NoSnapshot
    /\ UNCHANGED <<st, art, tx, chain, orch, cli, now, drafts, trials>>

---------------------------------------------------------------------------
(* The operator's tools.  Each reads the status, writes a file, and then    *)
(* sets the status, which setProcState validates against what it reads.     *)

(* approvePrimeAction.  The tool also offers commit and reveal, but for     *)
(* them it demands a subdomain and a proof in commitment_material.json,     *)
(* which the bundle writer leaves out: it throws before it writes.  The     *)
(* statuses it approves from are not all legal predecessors: the file is    *)
(* then written and the status refused.                                     *)
ApproveFrom == [finalist |-> {"REVEAL_SUBMITTED", "SHORTLISTED"},
                trial    |-> {"FINALIST_ACCEPT_READY", "FINALIST_ACCEPT_SUBMITTED",
                              "TRIAL_IN_PROGRESS"}]

Approve(kind) ==
    /\ cli = "NONE"
    /\ st.status \in ApproveFrom[kind]
    /\ kind = "trial" => art.trial # 0
    /\ tx' = [tx EXCEPT ![kind] = IF kind = "trial" THEN art.trial ELSE 1]
    /\ cli' = ReadyOf[kind]
    /\ UNCHANGED <<st, art, chain, orch, mon, now, drafts, trials, crashes>>

(* What the operator must have seen before claiming to have sent it. *)
Sent(kind) == /\ kind = "commit" => chain.commit # 0
              /\ kind = "reveal" => chain.revealed

(* markExternalAction: the receipt, without looking at the chain. *)
Mark(kind) ==
    /\ cli = "NONE"
    /\ st.status = ReadyOf[kind]
    /\ Sent(kind)
    /\ cli' = SubmittedOf[kind]
    /\ UNCHANGED <<st, art, tx, chain, orch, mon, now, drafts, trials, crashes>>

CliRecord ==
    /\ cli # "NONE"
    /\ st' = IF Settable(cli) THEN [st EXCEPT !.status = cli] ELSE st
    /\ cli' = "NONE"
    /\ UNCHANGED <<art, tx, chain, orch, mon, now, drafts, trials, crashes>>

CliCrash ==
    /\ cli # "NONE"
    /\ crashes < MaxCrashes
    /\ crashes' = crashes + 1
    /\ cli' = "NONE"
    /\ UNCHANGED <<st, art, tx, chain, orch, mon, now, drafts, trials>>

(* recordLinkedJobCompletion *)
RecordCompletion ==
    /\ st.status = "JOB_EXECUTION_IN_PROGRESS"
    /\ st' = [st EXCEPT !.status = "COMPLETION_READY"]
    /\ UNCHANGED <<art, tx, chain, orch, mon, cli, now, drafts, trials, crashes>>

---------------------------------------------------------------------------
(* The operator and the contract, as the code expects them.                 *)

(* The moves no tool performs: the operator makes them with setProcState,   *)
(* on what the evaluation and the monitor recorded.                         *)
OperatorEdges ==
    {<<"INSPECTED", "FIT_APPROVED">>, <<"INSPECTED", "NOT_A_FIT">>,
     <<"REVEAL_SUBMITTED", "SHORTLISTED">>, <<"REVEAL_SUBMITTED", "NOT_SHORTLISTED">>,
     <<"TRIAL_SUBMITTED", "WAITING_SCORE_PHASE">>,
     <<"WAITING_SCORE_PHASE", "WINNER_PENDING">>, <<"WAITING_SCORE_PHASE", "REJECTED">>,
     <<"WINNER_PENDING", "SELECTED">>, <<"WINNER_PENDING", "SELECTION_EXPIRED">>,
     <<"SELECTION_EXPIRED", "FALLBACK_PROMOTABLE">>, <<"FALLBACK_PROMOTABLE", "SELECTED">>,
     <<"COMPLETION_READY", "COMPLETION_SUBMITTED">>, <<"COMPLETION_SUBMITTED", "DONE">>}

Informed(to) ==
    /\ to \in {"FIT_APPROVED", "NOT_A_FIT"} => st.fitEvaluated
    /\ to = "SHORTLISTED" => st.shortlisted
    /\ to = "SELECTED" => st.selected

Decide(to) ==
    /\ <<st.status, to>> \in OperatorEdges
    /\ Informed(to)
    /\ st' = [st EXCEPT !.status = to]
    /\ UNCHANGED <<art, tx, chain, orch, mon, cli, now, drafts, trials, crashes>>

(* Both answers of stake_preflight.json are set to true by hand. *)
VerifyStake ==
    /\ art.stake = "UNCHECKED"
    /\ art' = [art EXCEPT !.stake = "SUFFICIENT"]
    /\ UNCHANGED <<st, tx, chain, orch, mon, cli, now, drafts, trials, crashes>>

(* The operator signs what waits for a signature, after comparing the hash  *)
(* with commitment_material.json; the contract keeps one commitment.        *)
SendCommit ==
    /\ st.status = "COMMIT_READY"
    /\ Phase = "COMMIT_OPEN"
    /\ chain.commit = 0
    /\ tx.commit # 0
    /\ tx.commit = art.material
    /\ chain' = [chain EXCEPT !.commit = tx.commit]
    /\ UNCHANGED <<st, art, tx, orch, mon, cli, now, drafts, trials, crashes>>

(* The contract refuses a reveal that does not open the commitment. *)
SendReveal ==
    /\ st.status = "REVEAL_READY"
    /\ Phase = "REVEAL_OPEN"
    /\ chain.commit # 0
    /\ tx.reveal = chain.commit
    /\ ~chain.revealed
    /\ chain' = [chain EXCEPT !.revealed = TRUE]
    /\ UNCHANGED <<st, art, tx, orch, mon, cli, now, drafts, trials, crashes>>

Tick ==
    /\ now < MaxTime
    /\ now' = now + 1
    /\ UNCHANGED <<st, art, tx, chain, orch, mon, cli, drafts, trials, crashes>>

---------------------------------------------------------------------------
Init ==
    /\ st = [status |-> "ABSENT", fitEvaluated |-> FALSE, shortlisted |-> FALSE,
             selected |-> FALSE, hash |-> 0, trialURI |-> 0]
    /\ art = [fit |-> "NONE", material |-> 0, verified |-> FALSE, stake |-> "NONE",
              trial |-> 0, fetched |-> FALSE]
    /\ tx = [k \in Kinds |-> 0]
    /\ chain = [commit |-> 0, revealed |-> FALSE]
    /\ pc = [o \in Orchestrators |-> "idle"]
    /\ held = [o \in Orchestrators |-> 0]
    /\ mon = NoSnapshot
    /\ cli = "NONE"
    /\ now = 0 /\ drafts = 0 /\ trials = 0 /\ crashes = 0

Monitor == Discover \/ DetectShortlist \/ DetectWinner \/ Snapshot \/ Refresh \/ RefreshFails

Tools ==
    \/ \E k \in DOMAIN ApproveFrom : Approve(k)
    \/ \E k \in DOMAIN SubmittedOf : Mark(k)
    \/ CliRecord \/ CliCrash \/ RecordCompletion

Operator ==
    \/ \E to \in {e[2] : e \in OperatorEdges} : Decide(to)
    \/ VerifyStake \/ SendCommit \/ SendReveal

Next ==
    \/ \E o \in Orchestrators : Advance(o) \/ Crash(o)
    \/ Monitor
    \/ Tools
    \/ Operator
    \/ Tick

Spec == Init /\ [][Next]_vars

(* The poll loop goes on, and so do the orchestrator's cycles.              *)
FairSpec ==
    /\ Spec
    /\ \A o \in Orchestrators : WF_vars(Advance(o))
    /\ WF_vars(Snapshot) /\ WF_vars(Refresh)

---------------------------------------------------------------------------
(* Properties. *)

Steps == {"idle", "FIT_EVALUATED", "BUNDLE", "COMMIT_TX", "APPLICATION_DRAFTED",
          "TRIAL_WORK", "TRIAL_URI"}
             \cup Handlers \cup Gates \cup {ReadyOf[k] : k \in Kinds}

TypeOK ==
    /\ st \in [status : Status \cup {"ABSENT"}, fitEvaluated : BOOLEAN, shortlisted : BOOLEAN,
               selected : BOOLEAN, hash : Nat, trialURI : Nat]
    /\ art \in [fit : {"NONE", "PASS", "FAIL"}, material : Nat, verified : BOOLEAN,
                stake : {"NONE", "UNCHECKED", "SUFFICIENT"}, trial : Nat, fetched : BOOLEAN]
    /\ tx \in [Kinds -> Nat]
    /\ chain \in [commit : Nat, revealed : BOOLEAN]
    /\ pc \in [Orchestrators -> Steps]
    /\ held \in [Orchestrators -> Nat]
    /\ mon \in [busy : BOOLEAN, status : Status \cup {"ABSENT"}, now : Nat]
    /\ cli \in Status \cup {"NONE"}
    /\ now \in Nat /\ drafts \in Nat /\ trials \in Nat /\ crashes \in Nat

(* A status that tells the operator to sign a transaction, or that it was   *)
(* sent, is never there without the file of that transaction, whichever of  *)
(* the orchestrators and tools recorded it and whatever died on the way.    *)
ReadyHasTx ==
    \A k \in DOMAIN SubmittedOf : st.status \in {ReadyOf[k], SubmittedOf[k]} => tx[k] # 0

(* The hash the contract stores is the one the material on disk and the     *)
(* state hold, so the salt that opens it is still known (the bundle warns   *)
(* that commitmentHash must match what is stored on-chain).                 *)
MaterialBindsCommit ==
    chain.commit # 0 => chain.commit = art.material /\ chain.commit = st.hash

(* A reveal that is ready for signature opens the stored commitment.        *)
RevealWillOpen == st.status = "REVEAL_READY" => chain.commit # 0 /\ tx.reveal = chain.commit

NewlyMissed == st.status # "MISSED_WINDOW" /\ st'.status = "MISSED_WINDOW"

(* An application that is not on chain is declared missed only after its    *)
(* commit window has closed, however old the monitor's reading is.          *)
MissedNotEarly == [][NewlyMissed /\ chain.commit = 0 => now >= Deadlines[1]]_vars

(* One that is on chain is declared missed only after its reveal window.    *)
MissedMeansTooLate == [][NewlyMissed /\ chain.commit # 0 => now >= Deadlines[2]]_vars

(* The lifecycle implements the status graph.                               *)
Graph == INSTANCE StatusGraph WITH status <- st.status

FollowsGraph == Graph!Spec

(* Once time has run past the trial window, a procurement that waits for a  *)
(* window has moved on or been declared missed: none is forgotten.          *)
Waiting == st.status \in NeedsCommit \cup NeedsReveal \cup NeedsFinalist \cup NeedsTrial

NoLimbo == <>(now >= Deadlines[4]) => (Waiting ~> ~Waiting)

(* While the reveal window is open, a sent commitment with its material at  *)
(* hand does not stay unrevealed: the reveal gets prepared.                 *)
RevealIsPrepared ==
    ~<>[](st.status = "COMMIT_SUBMITTED" /\ Phase = "REVEAL_OPEN" /\ art.material # 0)
=============================================================================
