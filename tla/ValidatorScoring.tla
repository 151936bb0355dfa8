-------------------------- MODULE ValidatorScoring --------------------------
(***************************************************************************)
(* The validator's side of a procurement: a score is committed to on chain, *)
(* and revealed in the next window.  Two programs build the transactions    *)
(* the operator signs, in one directory and one state.json: the agent       *)
(* (agent/prime-validator-scoring.js over validation/score-tx-handoff.js),  *)
(* dispatched by the monitor or called from a script, and mission control   *)
(* (two endpoints of server.js, whose requests read, wait for the chain and *)
(* then write).  Each program may die between two of its writes.            *)
(*                                                                          *)
(* A score counts half points; a salt is a number, new for every derivation *)
(* (both derivations hash a time), unless a request brings one; a           *)
(* commitment is the pair it hashes.                                        *)
(***************************************************************************)
EXTENDS PrimePhases

CONSTANTS
    None,
    Scores,        \* what an adjudication may come to, in half points
    Asked, AskedSalts,  \* the scores and the salts requests bring
    ScoreCalls,    \* requests mission control has open at once
    MaxSalts,      \* bound: how many salts are derived
    MaxDeaths,     \* bound: how often a writer dies
    HelperDefined  \* whether the gates' helper requireJsonFieldValue exists

ASSUME ScoringAssumption ==
    /\ None \notin Nat /\ None \notin [score : Nat, salt : Nat]
    /\ Scores \cup Asked \cup AskedSalts \subseteq Nat
    /\ "agent" \notin ScoreCalls
    /\ MaxSalts \in Nat /\ MaxDeaths \in Nat /\ HelperDefined \in BOOLEAN

VARIABLES
    writers,      \* who is at work in this behaviour
    clock,        \* index of the chain's phase in PhaseSeq
    assignedOnChain,
    state,        \* state.json: [status, assigned, role]
    validatorScore,  \* state.json: the score of its last commit, or None
    assignment,   \* validator_assignment.json: None or its "assigned"
    adjudication, \* adjudication_result.json: None or its score
    commitPayload, commitTx, revealPayload, revealTx,  \* None or the pair in it
    pc, hold,     \* where the agent and each request is, and the pair it works on
    chainCommit, revealed,   \* the contract
    salts, deaths,
    everCommitted, \* history variable: the pairs ever written to commitPayload
    basis,        \* history variable: what each request's pair was made of
    excused       \* history variable: whether a payload was replaced (see ReplacesExcused)

files == <<assignment, adjudication, commitPayload, commitTx, revealPayload, revealTx>>
chain == <<assignedOnChain, chainCommit, revealed>>
stateFile == <<state, validatorScore>>
history == <<everCommitted, basis, excused>>
vars == <<writers, clock, stateFile, files, pc, hold, chain, salts, deaths, history>>

Actors == {"agent"} \cup ScoreCalls

(* "console" and "agent": the two programs; "caller": requests and scripts  *)
(* that bring a score of their own.                                         *)
Writers == {"agent", "console", "caller"}

ConsoleStatus == {"validator_score_commit_ready", "validator_score_reveal_ready"}

Phase == PhaseSeq[clock]

Round(score) == 2 * ((score + 1) \div 2)

Whole(pair) == [pair EXCEPT !.score = Round(@)]

(* computeScoreCommitment: a hash of score and salt, as they are written.   *)
Commitment(pair) == pair

Init ==
    /\ writers \in SUBSET Writers
    /\ clock = 4
    /\ assignedOnChain \in BOOLEAN
    /\ state \in [status : {"WAITING_SCORE_PHASE"}, assigned : BOOLEAN, role : BOOLEAN]
    /\ assignment = None
    /\ adjudication \in Scores \cup {None}
    /\ commitPayload = None /\ commitTx = None /\ revealPayload = None /\ revealTx = None
    /\ validatorScore = None
    /\ pc = [p \in Actors |-> "rest"] /\ hold = [p \in Actors |-> None]
    /\ chainCommit = None /\ revealed = FALSE
    /\ salts = 0 /\ deaths = 0
    /\ everCommitted = {} /\ basis = [r \in ScoreCalls |-> None] /\ excused = FALSE

Go(p, from, to) == pc[p] = from /\ pc' = [pc EXCEPT ![p] = to]

Hold(p, pair) == hold' = [hold EXCEPT ![p] = pair]

(* A return or a throw: what the run held is gone.                          *)
End(p) == pc' = [pc EXCEPT ![p] = "rest"] /\ Hold(p, None)

---------------------------------------------------------------------------
(* The agent. *)

(* refreshActiveProcurements dispatches on the next action; the functions   *)
(* are also called by hand, at any time.                                    *)
Dispatch(kind) ==
    LET want == IF kind = "commit" THEN "BUILD_VALIDATOR_SCORE_COMMIT_TX" ELSE "BUILD_VALIDATOR_SCORE_REVEAL_TX"
    IN  /\ "agent" \in writers
        /\ "caller" \in writers \/ ComputeNextAction(state, Phase) = want
        /\ Go("agent", "rest", kind)
        /\ UNCHANGED <<writers, clock, stateFile, files, hold, chain, salts, deaths, history>>

(* discoverValidatorAssignment, and the state set from it.                  *)
Assign(kind) ==
    /\ assignment' = assignedOnChain
    /\ state' = [state EXCEPT !.assigned = assignedOnChain, !.role = assignedOnChain]
    /\ Go("agent", kind, IF ~assignedOnChain THEN "rest" ELSE IF kind = "commit" THEN "commit_window" ELSE "reveal_window")
    /\ UNCHANGED <<writers, clock, validatorScore, adjudication, commitPayload, commitTx, revealPayload, revealTx,
                   hold, chain, salts, deaths, history>>

Missed(target) ==
    IF target = "SCORE_COMMIT" THEN Phase \in {"SCORE_REVEAL", "CLOSED"} ELSE Phase = "CLOSED"

(* failClosedWindow: it throws where the table has no such move.            *)
FailClosed(target) ==
    state' = IF Missed(target) /\ IsValidTransition(state.status, "MISSED_WINDOW")
             THEN [state EXCEPT !.status = "MISSED_WINDOW"] ELSE state

(* The window shut: no package.  Open: evidence, adjudication, a new salt.  *)
CommitShut ==
    /\ pc["agent"] = "commit_window" /\ Phase # "SCORE_COMMIT"
    /\ FailClosed("SCORE_COMMIT")
    /\ End("agent")
    /\ UNCHANGED <<writers, clock, validatorScore, files, chain, salts, deaths, history>>

Adjudicate ==
    /\ Phase = "SCORE_COMMIT" /\ salts < MaxSalts
    /\ salts' = salts + 1
    /\ \E score \in Scores :
          /\ adjudication' = score
          /\ Hold("agent", [score |-> Round(score), salt |-> salts'])
    /\ Go("agent", "commit_window", "commit_tx")
    /\ UNCHANGED <<writers, clock, stateFile, assignment, commitPayload, commitTx, revealPayload, revealTx,
                   chain, deaths, history>>

(* buildValidatorScoreCommitHandoff: the transaction, then the payload.     *)
AgentCommitTx ==
    /\ Go("agent", "commit_tx", "commit_payload")
    /\ commitTx' = hold["agent"]
    /\ UNCHANGED <<writers, clock, stateFile, assignment, adjudication, commitPayload, revealPayload, revealTx,
                   hold, chain, salts, deaths, history>>

AgentCommitPayload ==
    /\ Go("agent", "commit_payload", "commit_finish")
    /\ commitPayload' = hold["agent"]
    /\ everCommitted' = everCommitted \cup {hold["agent"]}
    /\ UNCHANGED <<writers, clock, stateFile, assignment, adjudication, commitTx, revealPayload, revealTx,
                   hold, chain, salts, deaths, basis, excused>>

ReadyStatus == {"COMMIT_READY", "REVEAL_READY", "FINALIST_ACCEPT_READY", "TRIAL_READY",
                "VALIDATOR_SCORE_COMMIT_READY", "VALIDATOR_SCORE_REVEAL_READY", "COMPLETION_READY"}

CommitGate == HelperDefined /\ Phase = "SCORE_COMMIT" /\ assignment = TRUE /\ state.role

RevealGate == HelperDefined /\ Phase = "SCORE_REVEAL" /\ revealPayload = commitPayload /\ state.role

(* The gate, the completeness of the bundle, the reconciliation snapshot    *)
(* (it speaks of a bundle only for a status that is ready already), then    *)
(* the move; a gate that throws and a move the table lacks end the run too. *)
(* A commit's move takes the score along.                                   *)
Finish(kind, gate, ready) ==
    /\ pc["agent"] = kind
    /\ IF gate /\ state.status \in ReadyStatus /\ IsValidTransition(state.status, ready)
       THEN /\ state' = [state EXCEPT !.status = ready]
            /\ validatorScore' = IF kind = "commit_finish" THEN hold["agent"].score ELSE validatorScore
       ELSE UNCHANGED stateFile
    /\ End("agent")
    /\ UNCHANGED <<writers, clock, files, chain, salts, deaths, history>>

(* runValidatorScoreReveal: it throws without a payload.                    *)
RevealShut ==
    /\ pc["agent"] = "reveal_window"
    /\ commitPayload = None \/ Phase # "SCORE_REVEAL"
    /\ IF commitPayload = None THEN UNCHANGED state ELSE FailClosed("SCORE_REVEAL")
    /\ End("agent")
    /\ UNCHANGED <<writers, clock, validatorScore, files, chain, salts, deaths, history>>

ReadPayload ==
    /\ commitPayload # None /\ Phase = "SCORE_REVEAL"
    /\ Hold("agent", commitPayload)
    /\ Go("agent", "reveal_window", "reveal_tx")
    /\ UNCHANGED <<writers, clock, stateFile, files, chain, salts, deaths, history>>

AgentRevealTx ==
    /\ Go("agent", "reveal_tx", "reveal_payload")
    /\ revealTx' = hold["agent"]
    /\ UNCHANGED <<writers, clock, stateFile, assignment, adjudication, commitPayload, commitTx, revealPayload,
                   hold, chain, salts, deaths, history>>

AgentRevealPayload ==
    /\ Go("agent", "reveal_payload", "reveal_finish")
    /\ revealPayload' = hold["agent"]
    /\ UNCHANGED <<writers, clock, stateFile, assignment, adjudication, commitPayload, commitTx, revealTx,
                   hold, chain, salts, deaths, history>>

Agent ==
    \/ \E kind \in {"commit", "reveal"} : Dispatch(kind) \/ Assign(kind)
    \/ CommitShut \/ Adjudicate \/ AgentCommitTx \/ AgentCommitPayload
    \/ Finish("commit_finish", CommitGate, "VALIDATOR_SCORE_COMMIT_READY")
    \/ RevealShut \/ ReadPayload \/ AgentRevealTx \/ AgentRevealPayload
    \/ Finish("reveal_finish", RevealGate, "VALIDATOR_SCORE_REVEAL_READY")

---------------------------------------------------------------------------
(* Mission control.  A request reads the files, waits for the chain, and     *)
(* writes what it made of them without waiting again: other requests may    *)
(* read and write while it waits, but none between its writes.              *)

Writing == {"commit_tx", "commit_state", "reveal_tx", "reveal_state"}

(* A step of request r is due only while no other one is at its writes.     *)
Due(r, from, to) ==
    /\ "console" \in writers
    /\ \A q \in ScoreCalls \ {r} : pc[q] \notin Writing
    /\ Go(r, from, to)

(* What a request may bring; None where it leaves that to the server.       *)
Brought ==
    IF "caller" \in writers THEN [score : Asked \cup {None}, salt : AskedSalts \cup {None}]
                            ELSE [score : {None}, salt : {None}]

(* The score a request brings, else the one on file; that of the state is   *)
(* there only once a payload is.                                            *)
ScoreFor(asked) ==
    IF asked # None THEN asked
    ELSE IF commitPayload # None THEN commitPayload.score
    ELSE IF adjudication # None THEN adjudication
    ELSE IF validatorScore # None THEN validatorScore
    ELSE 0

(* Mutant: a request that brings no salt derives one of its own. *)
SaltOnFileNever(asked) == asked

(* The salt a request brings, else the one on file: a package is generated  *)
(* again with the salt it had.                                              *)
SaltOnFile(asked) ==
    IF asked # None THEN asked ELSE IF commitPayload = None THEN None ELSE commitPayload.salt

Rests(r, with) == basis' = [basis EXCEPT ![r] = with]

(* score-commit, up to the last await: its pair.                            *)
ConsoleCommit(r, asked) ==
    LET salt == SaltOnFile(asked.salt)
    IN  /\ Due(r, "rest", "commit_payload")
        /\ IF salt = None THEN salts < MaxSalts /\ salts' = salts + 1 ELSE UNCHANGED salts
        /\ Hold(r, [score |-> ScoreFor(asked.score), salt |-> IF salt = None THEN salts' ELSE salt])
        /\ Rests(r, [seen |-> commitPayload, brought |-> asked.score # None \/ asked.salt # None])
        /\ UNCHANGED <<writers, clock, stateFile, files, chain, deaths, everCommitted, excused>>

(* Request r is about to replace a payload by another, because it brings a  *)
(* pair of its own or because it read the files before that payload was     *)
(* written.                                                                 *)
ReplacesExcused(r) ==
    /\ commitPayload \notin {None, hold[r]}
    /\ basis[r].brought \/ basis[r].seen # commitPayload

(* The payload, then the transaction, then the state, with a status no      *)
(* table of the agent's knows.                                              *)
ConsoleCommitPayload(r) ==
    /\ Due(r, "commit_payload", "commit_tx")
    /\ commitPayload' = hold[r]
    /\ everCommitted' = everCommitted \cup {hold[r]}
    /\ excused' = (excused \/ ReplacesExcused(r))
    /\ UNCHANGED <<writers, clock, stateFile, assignment, adjudication, commitTx, revealPayload, revealTx,
                   hold, chain, salts, deaths, basis>>

ConsoleCommitTx(r) ==
    /\ Due(r, "commit_tx", "commit_state")
    /\ commitTx' = hold[r]
    /\ UNCHANGED <<writers, clock, stateFile, assignment, adjudication, commitPayload, revealPayload, revealTx,
                   hold, chain, salts, deaths, history>>

ConsoleState(r, kind, status) ==
    /\ Due(r, kind, "rest")
    /\ state' = [state EXCEPT !.status = status]
    /\ Hold(r, None) /\ Rests(r, None)
    /\ UNCHANGED <<writers, clock, validatorScore, files, chain, salts, deaths, everCommitted, excused>>

(* Mutant: the request's pair is not compared with the committed one. *)
RevealSafeUncompared(pair) == commitPayload # None

(* verifyRevealSafety: the same score and the same salt as the payload's.   *)
RevealSafe(pair) == commitPayload # None /\ pair = commitPayload

(* score-reveal: 422 without a payload, or with a pair that is not the one  *)
(* of the payload it read.                                                  *)
ConsoleReveal(r, asked) ==
    LET Or(brought, onFile) == IF brought = None THEN onFile ELSE brought
        pair == [commitPayload EXCEPT !.score = Or(asked.score, @), !.salt = Or(asked.salt, @)]
    IN  /\ commitPayload # None /\ RevealSafe(pair)
        /\ Due(r, "rest", "reveal_payload")
        /\ Hold(r, pair)
        /\ UNCHANGED <<writers, clock, stateFile, files, chain, salts, deaths, history>>

ConsoleRevealPayload(r) ==
    /\ Due(r, "reveal_payload", "reveal_tx")
    /\ revealPayload' = hold[r]
    /\ UNCHANGED <<writers, clock, stateFile, assignment, adjudication, commitPayload, commitTx, revealTx,
                   hold, chain, salts, deaths, history>>

(* The transaction takes Math.round of the score.                           *)
ConsoleRevealTx(r) ==
    /\ Due(r, "reveal_tx", "reveal_state")
    /\ revealTx' = Whole(hold[r])
    /\ UNCHANGED <<writers, clock, stateFile, assignment, adjudication, commitPayload, commitTx, revealPayload,
                   hold, chain, salts, deaths, history>>

Console == \E r \in ScoreCalls :
    \/ \E asked \in Brought : ConsoleCommit(r, asked) \/ ConsoleReveal(r, asked)
    \/ ConsoleCommitPayload(r) \/ ConsoleCommitTx(r)
    \/ ConsoleState(r, "commit_state", "validator_score_commit_ready")
    \/ ConsoleRevealPayload(r) \/ ConsoleRevealTx(r)
    \/ ConsoleState(r, "reveal_state", "validator_score_reveal_ready")

---------------------------------------------------------------------------
(* The operator and the contract, as the preconditions of the packages      *)
(* describe them: one commitment of an assigned validator in its window,    *)
(* opened by the pair it was made of in the next.                           *)

SignCommit ==
    /\ commitTx # None /\ Phase = "SCORE_COMMIT" /\ assignedOnChain /\ chainCommit = None
    /\ chainCommit' = Commitment(commitTx)
    /\ UNCHANGED <<writers, clock, assignedOnChain, stateFile, files, pc, hold, revealed, salts, deaths, history>>

SignReveal ==
    /\ revealTx # None /\ Phase = "SCORE_REVEAL" /\ chainCommit # None /\ ~revealed
    /\ revealed' = (Commitment(revealTx) = chainCommit)
    /\ UNCHANGED <<writers, clock, assignedOnChain, chainCommit, stateFile, files, pc, hold, salts, deaths, history>>

Tick ==
    /\ clock < 7 /\ clock' = clock + 1
    /\ UNCHANGED <<writers, stateFile, files, pc, hold, chain, salts, deaths, history>>

(* A program dies: the agent, or mission control with every request it has. *)
Die(dead) ==
    /\ deaths < MaxDeaths /\ \E p \in dead : pc[p] # "rest"
    /\ deaths' = deaths + 1
    /\ pc' = [p \in Actors |-> IF p \in dead THEN "rest" ELSE pc[p]]
    /\ hold' = [p \in Actors |-> IF p \in dead THEN None ELSE hold[p]]
    /\ basis' = [r \in ScoreCalls |-> IF r \in dead THEN None ELSE basis[r]]
    /\ UNCHANGED <<writers, clock, stateFile, files, chain, salts, everCommitted, excused>>

Next == Agent \/ Console \/ SignCommit \/ SignReveal \/ Tick \/ \E dead \in {{"agent"}, ScoreCalls} : Die(dead)

Spec == Init /\ [][Next]_vars

---------------------------------------------------------------------------
(* Properties. *)

Opens == chainCommit # None /\ revealTx # None => Commitment(revealTx) = chainCommit

(* Where mission control is the only writer, the reveal package opens what  *)
(* the operator committed on chain, however often packages are generated,   *)
(* whichever requests overlap and wherever it dies, unless a commit request *)
(* replaced the payload by another pair, and that only a request does which *)
(* brought a score or a salt of its own, or which read the files before     *)
(* that payload was written (two first requests at once: score-commit reads *)
(* in buildPrimeValidatorContext and writes after its awaits).  Otherwise   *)
(* the payload is on disk before the transaction that binds it, its salt is *)
(* used again, and a reveal is compared with it.                            *)
RevealOpens == "agent" \notin writers /\ ~excused => Opens

(* Whoever writes, in whatever order, and whatever a request asks for: a    *)
(* reveal package holds a pair that was once on file as committed to.       *)
RevealOfCommitted == revealTx # None => revealTx \in {Whole(pair) : pair \in everCommitted}
=============================================================================
