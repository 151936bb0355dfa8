----------------------- MODULE ValidatorScoring_proofs -----------------------
(***************************************************************************)
(* The two promises of ValidatorScoring, for any scores that are whole      *)
(* points, any number of requests, of salts and of deaths, whatever the     *)
(* requests bring, and with the gates' helper or without.                   *)
(***************************************************************************)
EXTENDS ValidatorScoring, TLAPS

(* The pairs that are whole; the transactions then round nothing away.      *)
WholePairs == [score : {n \in Nat : Round(n) = n}, salt : Nat]

WholePoints == \A n \in Scores \cup Asked : Round(n) = n

Places == /\ pc = [p \in Actors |-> pc[p]]
          /\ hold = [p \in Actors |-> hold[p]]
          /\ basis = [r \in ScoreCalls |-> basis[r]]

FilesHold ==
    /\ salts \in Nat
    /\ adjudication \in Scores \cup {None}
    /\ validatorScore \in {n \in Nat : Round(n) = n} \cup {None}
    /\ everCommitted \subseteq WholePairs
    /\ commitPayload \in everCommitted \cup {None}
    /\ revealTx \in everCommitted \cup {None}

AgentHolds ==
    /\ pc["agent"] \in {"commit_tx", "commit_payload", "commit_finish"} => hold["agent"] \in WholePairs
    /\ pc["agent"] \in {"reveal_tx", "reveal_payload"} => hold["agent"] \in everCommitted

CallHolds(r) ==
    /\ pc[r] \in {"commit_payload", "commit_tx"} => hold[r] \in WholePairs
    /\ pc[r] \in {"reveal_payload", "reveal_tx"} => hold[r] \in everCommitted

(* Unless the payload was replaced, whatever mission control built or the   *)
(* operator signed is the payload, and a request on its way to a commit     *)
(* holds the payload it read.                                               *)
FilesFit ==
    /\ commitTx # None => commitTx = commitPayload
    /\ chainCommit # None => chainCommit = commitPayload
    /\ revealTx # None => revealTx = commitPayload

CallFits(r) ==
    /\ pc[r] = "commit_payload" /\ ~basis[r].brought /\ basis[r].seen # None => hold[r] = basis[r].seen
    /\ pc[r] \in {"commit_tx", "reveal_payload", "reveal_tx"} => hold[r] = commitPayload

AloneHolds ==
    "agent" \notin writers =>
        /\ pc["agent"] = "rest"
        /\ ~excused => FilesFit /\ \A r \in ScoreCalls : CallFits(r)

ConsoleHolds == \A r \in ScoreCalls : CallHolds(r)

ScoringInv == Places /\ FilesHold /\ AgentHolds /\ ConsoleHolds /\ AloneHolds

LEMMA Update ==
    ASSUME NEW S, NEW f, f = [q \in S |-> f[q]], NEW p \in S, NEW x, NEW g, g = [f EXCEPT ![p] = x]
    PROVE  /\ g = [q \in S |-> g[q]] /\ g[p] = x
           /\ \A q \in S \ {p} : g[q] = f[q]
OBVIOUS

LEMMA WholeOfWhole == ASSUME NEW pair \in WholePairs PROVE Whole(pair) = pair
BY DEF WholePairs, Whole

LEMMA ScoringInvInit == ASSUME Init PROVE ScoringInv
<1>1. /\ pc = [p \in Actors |-> "rest"] /\ hold = [p \in Actors |-> None] /\ basis = [r \in ScoreCalls |-> None]
      /\ commitPayload = None /\ commitTx = None /\ revealTx = None /\ chainCommit = None
      /\ salts = 0 /\ everCommitted = {} /\ adjudication \in Scores \cup {None} /\ validatorScore = None
  BY DEF Init
<1>2. pc["agent"] = "rest" /\ \A r \in ScoreCalls : pc[r] = "rest" BY <1>1 DEF Actors
<1>3. Places BY <1>1 DEF Places
<1>4. FilesHold BY <1>1 DEF FilesHold
<1>5. AgentHolds /\ ConsoleHolds BY <1>2 DEF AgentHolds, ConsoleHolds, CallHolds
<1>6. AloneHolds BY <1>1, <1>2 DEF AloneHolds, FilesFit, CallFits
<1> QED BY <1>3, <1>4, <1>5, <1>6 DEF ScoringInv

(* What moving the counter of one actor does.                               *)
Moved(p) ==
    /\ pc' = [q \in Actors |-> pc'[q]] /\ hold' = [q \in Actors |-> hold'[q]]
    /\ \A q \in Actors \ {p} : pc'[q] = pc[q] /\ hold'[q] = hold[q]

LEMMA Moves ==
    ASSUME Places, NEW p \in Actors, NEW to, pc' = [pc EXCEPT ![p] = to],
           UNCHANGED hold \/ \E x : hold' = [hold EXCEPT ![p] = x]
    PROVE  /\ Moved(p) /\ pc'[p] = to
           /\ \A x : hold' = [hold EXCEPT ![p] = x] => hold'[p] = x
<1>1. pc = [q \in Actors |-> pc[q]] /\ hold = [q \in Actors |-> hold[q]] BY DEF Places
<1>2. pc' = [q \in Actors |-> pc'[q]] /\ pc'[p] = to /\ \A q \in Actors \ {p} : pc'[q] = pc[q]
  BY <1>1, Update
<1>3. ASSUME NEW x, hold' = [hold EXCEPT ![p] = x]
      PROVE  /\ hold' = [q \in Actors |-> hold'[q]] /\ hold'[p] = x
             /\ \A q \in Actors \ {p} : hold'[q] = hold[q]
  BY <1>1, <1>3, Update
<1> QED BY <1>1, <1>2, <1>3 DEF Moved

(* A step of the agent, as far as mission control and the promises are      *)
(* concerned.                                                               *)
AgentEffect == Moved("agent") /\ FilesHold' /\ AgentHolds' /\ everCommitted \subseteq everCommitted'

(* A step that ends a run of the agent, or goes on with nothing in hand.    *)
LEMMA AgentGoesOn ==
    ASSUME ScoringInv, NEW to \in {"rest", "commit", "reveal", "commit_window", "reveal_window", "reveal_finish"},
           pc' = [pc EXCEPT !["agent"] = to],
           UNCHANGED hold \/ hold' = [hold EXCEPT !["agent"] = None],
           UNCHANGED <<salts, adjudication, validatorScore, everCommitted, commitPayload, revealTx>>
    PROVE  AgentEffect
<1>1. Moved("agent") /\ pc'["agent"] = to BY Moves DEF ScoringInv, Actors
<1>2. FilesHold' BY DEF ScoringInv, FilesHold
<1>3. AgentHolds' BY <1>1 DEF AgentHolds
<1> QED BY <1>1, <1>2, <1>3 DEF AgentEffect

LEMMA AgentFinishes ==
    ASSUME ScoringInv, NEW kind, NEW gate, NEW ready, Finish(kind, gate, ready)
    PROVE  AgentEffect
<1> USE DEF files, chain, stateFile
<1>1. /\ pc' = [pc EXCEPT !["agent"] = "rest"] /\ hold' = [hold EXCEPT !["agent"] = None]
      /\ pc["agent"] = kind
      /\ UNCHANGED <<salts, adjudication, everCommitted, commitPayload, revealTx>>
      /\ validatorScore' \in {validatorScore} \cup (IF kind = "commit_finish" THEN {hold["agent"].score} ELSE {})
  BY DEF Finish, End, Hold, history
<1>2. Moved("agent") /\ pc'["agent"] = "rest" BY <1>1, Moves DEF ScoringInv, Actors
<1>3. kind = "commit_finish" => hold["agent"].score \in {n \in Nat : Round(n) = n}
  BY <1>1 DEF ScoringInv, AgentHolds, WholePairs
<1>4. FilesHold' BY <1>1, <1>3 DEF ScoringInv, FilesHold
<1>5. AgentHolds' BY <1>2 DEF AgentHolds
<1> QED BY <1>1, <1>2, <1>4, <1>5 DEF AgentEffect

LEMMA AgentWorks == ASSUME ScoringInv, WholePoints, Agent PROVE AgentEffect
<1> USE DEF files, chain, stateFile, history
<1>1. Places /\ FilesHold /\ AgentHolds /\ "agent" \in Actors BY DEF ScoringInv, Actors
<1>2. ASSUME NEW kind \in {"commit", "reveal"}, Dispatch(kind) PROVE AgentEffect
  BY <1>2, AgentGoesOn DEF Dispatch, Go
<1>3. ASSUME NEW kind \in {"commit", "reveal"}, Assign(kind) PROVE AgentEffect
  BY <1>3, AgentGoesOn DEF Assign, Go
<1>4. CASE CommitShut BY <1>4, AgentGoesOn DEF CommitShut, End, Hold
<1>5. CASE Adjudicate
  <2>1. PICK score \in Scores :
           /\ adjudication' = score
           /\ hold' = [hold EXCEPT !["agent"] = [score |-> Round(score), salt |-> salts']]
    BY <1>5 DEF Adjudicate, Hold
  <2>2. /\ pc' = [pc EXCEPT !["agent"] = "commit_tx"] /\ salts' = salts + 1
        /\ UNCHANGED <<validatorScore, everCommitted, commitPayload, revealTx>>
    BY <1>5 DEF Adjudicate, Go
  <2>3. /\ Moved("agent") /\ pc'["agent"] = "commit_tx"
        /\ hold'["agent"] = [score |-> Round(score), salt |-> salts']
    BY <1>1, <2>1, <2>2, Moves
  <2>4. Round(score) = score /\ score \in Nat BY ScoringAssumption DEF WholePoints
  <2>5. salts' \in Nat BY <1>1, <2>2 DEF FilesHold
  <2>6. hold'["agent"] \in WholePairs BY <2>3, <2>4, <2>5 DEF WholePairs
  <2>7. FilesHold' BY <1>1, <2>1, <2>2, <2>5 DEF FilesHold
  <2>8. AgentHolds' BY <2>3, <2>6 DEF AgentHolds
  <2> QED BY <2>2, <2>3, <2>7, <2>8 DEF AgentEffect
<1>6. CASE AgentCommitTx
  <2>1. /\ pc' = [pc EXCEPT !["agent"] = "commit_payload"] /\ pc["agent"] = "commit_tx"
        /\ UNCHANGED <<hold, salts, adjudication, validatorScore, everCommitted, commitPayload, revealTx>>
    BY <1>6 DEF AgentCommitTx, Go
  <2>2. Moved("agent") /\ pc'["agent"] = "commit_payload" BY <1>1, <2>1, Moves
  <2> QED BY <1>1, <2>1, <2>2 DEF AgentEffect, FilesHold, AgentHolds
<1>7. CASE AgentCommitPayload
  <2>1. /\ pc' = [pc EXCEPT !["agent"] = "commit_finish"] /\ pc["agent"] = "commit_payload"
        /\ commitPayload' = hold["agent"] /\ everCommitted' = everCommitted \cup {hold["agent"]}
        /\ UNCHANGED <<hold, salts, adjudication, validatorScore, revealTx>>
    BY <1>7 DEF AgentCommitPayload, Go
  <2>2. Moved("agent") /\ pc'["agent"] = "commit_finish" BY <1>1, <2>1, Moves
  <2>3. hold["agent"] \in WholePairs BY <1>1, <2>1 DEF AgentHolds
  <2>4. FilesHold' BY <1>1, <2>1, <2>3 DEF FilesHold
  <2>5. AgentHolds' BY <2>1, <2>2, <2>3 DEF AgentHolds
  <2> QED BY <2>1, <2>2, <2>4, <2>5 DEF AgentEffect
<1>8. CASE Finish("commit_finish", CommitGate, "VALIDATOR_SCORE_COMMIT_READY")
  BY <1>8, AgentFinishes
<1>9. CASE RevealShut BY <1>9, AgentGoesOn DEF RevealShut, End, Hold
<1>10. CASE ReadPayload
  <2>1. /\ pc' = [pc EXCEPT !["agent"] = "reveal_tx"] /\ commitPayload # None
        /\ hold' = [hold EXCEPT !["agent"] = commitPayload]
        /\ UNCHANGED <<salts, adjudication, validatorScore, everCommitted, commitPayload, revealTx>>
    BY <1>10 DEF ReadPayload, Go, Hold
  <2>2. Moved("agent") /\ pc'["agent"] = "reveal_tx" /\ hold'["agent"] = commitPayload
    BY <1>1, <2>1, Moves
  <2>3. FilesHold' BY <1>1, <2>1 DEF FilesHold
  <2>4. AgentHolds' BY <1>1, <2>1, <2>2 DEF AgentHolds, FilesHold
  <2> QED BY <2>1, <2>2, <2>3, <2>4 DEF AgentEffect
<1>11. CASE AgentRevealTx
  <2>1. /\ pc' = [pc EXCEPT !["agent"] = "reveal_payload"] /\ pc["agent"] = "reveal_tx"
        /\ revealTx' = hold["agent"]
        /\ UNCHANGED <<hold, salts, adjudication, validatorScore, everCommitted, commitPayload>>
    BY <1>11 DEF AgentRevealTx, Go
  <2>2. Moved("agent") /\ pc'["agent"] = "reveal_payload" BY <1>1, <2>1, Moves
  <2>3. hold["agent"] \in everCommitted BY <1>1, <2>1 DEF AgentHolds
  <2>4. FilesHold' BY <1>1, <2>1, <2>3 DEF FilesHold
  <2> QED BY <2>1, <2>2, <2>3, <2>4 DEF AgentEffect, AgentHolds
<1>12. CASE AgentRevealPayload BY <1>12, AgentGoesOn DEF AgentRevealPayload, Go
<1>13. CASE Finish("reveal_finish", RevealGate, "VALIDATOR_SCORE_REVEAL_READY")
  BY <1>13, AgentFinishes
<1> QED BY <1>2, <1>3, <1>4, <1>5, <1>6, <1>7, <1>8, <1>9, <1>10, <1>11, <1>12, <1>13 DEF Agent

(* Where the agent is no writer it does nothing.                            *)
LEMMA AgentIsNotAlone == ASSUME ScoringInv, Agent PROVE UNCHANGED <<writers, basis>> /\ "agent" \in writers
<1> USE DEF files, chain, stateFile, history
<1>1. "agent" \notin writers => pc["agent"] = "rest" BY DEF ScoringInv, AloneHolds
<1>2. UNCHANGED <<writers, basis>>
  BY DEF Agent, Dispatch, Assign, CommitShut, Adjudicate, AgentCommitTx, AgentCommitPayload, Finish,
         RevealShut, ReadPayload, AgentRevealTx, AgentRevealPayload
<1>3. "agent" \in writers \/ pc["agent"] # "rest"
  BY DEF Agent, Dispatch, Assign, CommitShut, Adjudicate, AgentCommitTx, AgentCommitPayload, Finish,
         RevealShut, ReadPayload, AgentRevealTx, AgentRevealPayload, Go
<1> QED BY <1>1, <1>2, <1>3

(* The requests are actors other than the agent.                            *)
LEMMA CallsAreActors ==
    /\ \A r \in ScoreCalls : r \in Actors \ {"agent"}
    /\ \A r \in ScoreCalls : \A q \in Actors \ {r} : q = "agent" \/ q \in ScoreCalls \ {r}
    /\ \A r \in ScoreCalls : "agent" \in Actors \ {r}
BY ScoringAssumption DEF Actors, ScoringAssumption

LEMMA AgentKeeps == ASSUME ScoringInv, WholePoints, Agent PROVE ScoringInv'
<1>1. AgentEffect /\ UNCHANGED <<writers, basis>> /\ "agent" \in writers
  BY AgentWorks, AgentIsNotAlone
<1>2. Places' BY <1>1 DEF ScoringInv, Places, AgentEffect, Moved
<1>3. ConsoleHolds'
  BY <1>1, CallsAreActors DEF ScoringInv, ConsoleHolds, CallHolds, AgentEffect, Moved
<1>4. AloneHolds' BY <1>1 DEF AloneHolds
<1> QED BY <1>1, <1>2, <1>3, <1>4 DEF ScoringInv, AgentEffect

(* A step of request r keeps the invariant if it keeps what is said of the  *)
(* files and of r itself, and does not replace the payload unexcused.       *)
LEMMA CallKeeps ==
    ASSUME ScoringInv, NEW r \in ScoreCalls, Moved(r),
           UNCHANGED basis \/ \E x : basis' = [basis EXCEPT ![r] = x],
           FilesHold', CallHolds(r)', UNCHANGED writers, everCommitted \subseteq everCommitted',
           excused => excused',
           "agent" \notin writers /\ ~excused' =>
               /\ FilesFit' /\ CallFits(r)'
               /\ \A q \in ScoreCalls \ {r} :
                    pc[q] \in {"commit_tx", "reveal_payload", "reveal_tx"} /\ hold[q] = commitPayload
                        => hold[q] = commitPayload'
    PROVE  ScoringInv'
<1>1. Places /\ ConsoleHolds /\ AloneHolds /\ AgentHolds BY DEF ScoringInv
<1>2. /\ basis' = [q \in ScoreCalls |-> basis'[q]]
      /\ \A q \in ScoreCalls \ {r} : basis'[q] = basis[q]
  <2>1. basis = [q \in ScoreCalls |-> basis[q]] BY <1>1 DEF Places
  <2>2. CASE UNCHANGED basis BY <2>1, <2>2
  <2>3. CASE \E x : basis' = [basis EXCEPT ![r] = x]
    <3>1. PICK x : basis' = [basis EXCEPT ![r] = x] BY <2>3
    <3> QED BY <2>1, <3>1, Update
  <2> QED BY <2>2, <2>3
<1>3. Places' BY <1>2 DEF Places, Moved
<1>4. \A q \in Actors \ {r} : pc'[q] = pc[q] /\ hold'[q] = hold[q] BY DEF Moved
<1>5. AgentHolds' BY <1>1, <1>4, CallsAreActors DEF AgentHolds
<1>6. ConsoleHolds'
  <2> SUFFICES ASSUME NEW q \in ScoreCalls PROVE CallHolds(q)'
    BY DEF ConsoleHolds
  <2>1. CASE q = r BY <2>1
  <2>2. CASE q # r BY <1>1, <1>4, <2>2, CallsAreActors DEF ConsoleHolds, CallHolds
  <2> QED BY <2>1, <2>2
<1>7. AloneHolds'
  <2> SUFFICES ASSUME "agent" \notin writers
               PROVE  pc'["agent"] = "rest" /\ (~excused' => FilesFit' /\ \A q \in ScoreCalls : CallFits(q)')
    BY DEF AloneHolds
  <2>1. pc'["agent"] = "rest" BY <1>1, <1>4, CallsAreActors DEF AloneHolds
  <2>2. ASSUME ~excused', NEW q \in ScoreCalls PROVE CallFits(q)'
    <3>1. CASE q = r BY <2>2, <3>1
    <3>2. CASE q # r
      <4>1. CallFits(q) BY <1>1, <2>2 DEF AloneHolds
      <4>2. pc'[q] = pc[q] /\ hold'[q] = hold[q] /\ basis'[q] = basis[q]
        BY <1>2, <1>4, <3>2, CallsAreActors
      <4> QED BY <2>2, <3>2, <4>1, <4>2 DEF CallFits
    <3> QED BY <3>1, <3>2
  <2> QED BY <2>1, <2>2
<1> QED BY <1>3, <1>5, <1>6, <1>7 DEF ScoringInv

(* The same for a step that leaves the payload alone.                       *)
LEMMA CallGoesOn ==
    ASSUME ScoringInv, NEW r \in ScoreCalls, Moved(r),
           UNCHANGED basis \/ \E x : basis' = [basis EXCEPT ![r] = x],
           FilesHold', CallHolds(r)', UNCHANGED <<writers, everCommitted, excused, commitPayload>>,
           "agent" \notin writers /\ ~excused => FilesFit' /\ CallFits(r)'
    PROVE  ScoringInv'
BY CallKeeps

LEMMA ConsoleCommits ==
    ASSUME ScoringInv, WholePoints, NEW r \in ScoreCalls, NEW asked \in Brought, ConsoleCommit(r, asked)
    PROVE  ScoringInv'
<1> USE DEF files, chain, stateFile
<1> DEFINE onFile == SaltOnFile(asked.salt)
           salt == IF onFile = None THEN salts' ELSE onFile
           pair == [score |-> ScoreFor(asked.score), salt |-> salt]
           with == [seen |-> commitPayload, brought |-> asked.score # None \/ asked.salt # None]
<1>1. Places /\ FilesHold /\ AloneHolds /\ r \in Actors BY CallsAreActors DEF ScoringInv
<1>2. /\ pc' = [pc EXCEPT ![r] = "commit_payload"]
      /\ hold' = [hold EXCEPT ![r] = pair]
      /\ basis' = [basis EXCEPT ![r] = with]
      /\ salts' = IF onFile = None THEN salts + 1 ELSE salts
      /\ UNCHANGED <<writers, adjudication, validatorScore, everCommitted, excused, commitPayload, commitTx,
                     revealTx, chainCommit>>
  BY DEF ConsoleCommit, Due, Go, Hold, Rests
<1>3. Moved(r) /\ pc'[r] = "commit_payload" /\ hold'[r] = pair BY <1>1, <1>2, Moves
<1>4. basis'[r] = with BY <1>1, <1>2 DEF Places
<1>5. asked.score \in Asked \cup {None} /\ asked.salt \in AskedSalts \cup {None} BY DEF Brought
<1>6. commitPayload # None => commitPayload \in WholePairs BY <1>1 DEF FilesHold
<1>7. salts' \in Nat /\ salt \in Nat
  <2>1. salts \in Nat BY <1>1 DEF FilesHold
  <2>2. commitPayload # None => commitPayload.salt \in Nat BY <1>6 DEF WholePairs
  <2>3. onFile # None => onFile \in Nat BY <1>5, <2>2, ScoringAssumption DEF SaltOnFile, ScoringAssumption
  <2> QED BY <1>2, <2>1, <2>3
<1>8. ScoreFor(asked.score) \in {n \in Nat : Round(n) = n}
  <2>1. CASE asked.score # None
    BY <1>5, <2>1, ScoringAssumption DEF ScoreFor, WholePoints, ScoringAssumption
  <2>2. CASE asked.score = None /\ commitPayload # None
    BY <1>6, <2>2 DEF ScoreFor, WholePairs
  <2>3. CASE asked.score = None /\ commitPayload = None /\ adjudication # None
    BY <1>1, <2>3, ScoringAssumption DEF FilesHold, ScoreFor, WholePoints, ScoringAssumption
  <2>4. CASE asked.score = None /\ commitPayload = None /\ adjudication = None /\ validatorScore # None
    BY <1>1, <2>4 DEF FilesHold, ScoreFor
  <2>5. CASE asked.score = None /\ commitPayload = None /\ adjudication = None /\ validatorScore = None
    <3>1. Round(0) = 0 BY DEF Round
    <3> QED BY <2>5, <3>1 DEF ScoreFor
  <2> QED BY <2>1, <2>2, <2>3, <2>4, <2>5
<1>9. pair \in WholePairs BY <1>7, <1>8 DEF WholePairs
<1>10. FilesHold' /\ CallHolds(r)' BY <1>1, <1>2, <1>3, <1>7, <1>9 DEF FilesHold, CallHolds
<1>11. ~with.brought /\ commitPayload # None => pair = commitPayload
  <2> SUFFICES ASSUME asked.score = None, asked.salt = None, commitPayload # None PROVE pair = commitPayload
    OBVIOUS
  <2>1. commitPayload \in WholePairs BY <1>6
  <2>2. onFile = commitPayload.salt /\ onFile # None
    BY <2>1, ScoringAssumption DEF SaltOnFile, WholePairs, ScoringAssumption
  <2>3. ScoreFor(asked.score) = commitPayload.score BY DEF ScoreFor
  <2>4. pair = [score |-> commitPayload.score, salt |-> commitPayload.salt] BY <2>2, <2>3
  <2> QED BY <2>1, <2>4 DEF WholePairs
<1>12. CallFits(r)' BY <1>3, <1>4, <1>11 DEF CallFits
<1>13. "agent" \notin writers /\ ~excused => FilesFit' BY <1>1, <1>2 DEF AloneHolds, FilesFit
<1> HIDE DEF with, pair, salt, onFile
<1> QED BY <1>2, <1>3, <1>10, <1>12, <1>13, CallGoesOn

LEMMA ConsoleReveals ==
    ASSUME ScoringInv, NEW r \in ScoreCalls, NEW asked \in Brought, ConsoleReveal(r, asked)
    PROVE  ScoringInv'
<1> USE DEF files, chain, stateFile, history
<1>1. Places /\ FilesHold /\ AloneHolds /\ r \in Actors BY CallsAreActors DEF ScoringInv
<1>2. /\ pc' = [pc EXCEPT ![r] = "reveal_payload"] /\ commitPayload # None
      /\ hold' = [hold EXCEPT ![r] = commitPayload]
      /\ UNCHANGED <<writers, salts, adjudication, validatorScore, everCommitted, excused, basis,
                     commitPayload, commitTx, revealTx, chainCommit>>
  BY DEF ConsoleReveal, RevealSafe, Due, Go, Hold
<1>3. Moved(r) /\ pc'[r] = "reveal_payload" /\ hold'[r] = commitPayload BY <1>1, <1>2, Moves
<1>4. FilesHold' /\ CallHolds(r)' /\ CallFits(r)'
  BY <1>1, <1>2, <1>3 DEF FilesHold, CallHolds, CallFits
<1>5. "agent" \notin writers /\ ~excused => FilesFit' BY <1>1, <1>2 DEF AloneHolds, FilesFit
<1> QED BY <1>2, <1>3, <1>4, <1>5, CallGoesOn

LEMMA ConsoleEnds ==
    ASSUME ScoringInv, NEW r \in ScoreCalls, NEW kind, NEW status, ConsoleState(r, kind, status)
    PROVE  ScoringInv'
<1> USE DEF files, chain
<1>1. Places /\ FilesHold /\ AloneHolds /\ r \in Actors BY CallsAreActors DEF ScoringInv
<1>2. /\ pc' = [pc EXCEPT ![r] = "rest"] /\ hold' = [hold EXCEPT ![r] = None]
      /\ basis' = [basis EXCEPT ![r] = None]
      /\ UNCHANGED <<writers, salts, adjudication, validatorScore, everCommitted, excused,
                     commitPayload, commitTx, revealTx, chainCommit>>
  BY DEF ConsoleState, Due, Go, Hold, Rests
<1>3. Moved(r) /\ pc'[r] = "rest" BY <1>1, <1>2, Moves
<1>4. FilesHold' /\ CallHolds(r)' /\ CallFits(r)'
  BY <1>1, <1>2, <1>3 DEF FilesHold, CallHolds, CallFits
<1>5. "agent" \notin writers /\ ~excused => FilesFit' BY <1>1, <1>2 DEF AloneHolds, FilesFit
<1> QED BY <1>2, <1>3, <1>4, <1>5, CallGoesOn

(* The one step that may replace the payload.                               *)
LEMMA ConsolePaysIn ==
    ASSUME ScoringInv, NEW r \in ScoreCalls, ConsoleCommitPayload(r)
    PROVE  ScoringInv'
<1> USE DEF chain, stateFile
<1>1. Places /\ FilesHold /\ AloneHolds /\ ConsoleHolds /\ r \in Actors BY CallsAreActors DEF ScoringInv
<1>2. /\ pc' = [pc EXCEPT ![r] = "commit_tx"] /\ pc[r] = "commit_payload"
      /\ commitPayload' = hold[r] /\ everCommitted' = everCommitted \cup {hold[r]}
      /\ excused' = (excused \/ ReplacesExcused(r))
      /\ UNCHANGED <<hold, writers, salts, adjudication, validatorScore, basis, commitTx, revealTx, chainCommit>>
  BY DEF ConsoleCommitPayload, Due, Go
<1>3. Moved(r) /\ pc'[r] = "commit_tx" /\ hold'[r] = hold[r] BY <1>1, <1>2, Moves
<1>4. hold[r] \in WholePairs BY <1>1, <1>2 DEF ConsoleHolds, CallHolds
<1>5. FilesHold' BY <1>1, <1>2, <1>4 DEF FilesHold
<1>6. CallHolds(r)' /\ CallFits(r)' BY <1>2, <1>3, <1>4 DEF CallHolds, CallFits
<1>7. ASSUME "agent" \notin writers, ~excused'
      PROVE  /\ FilesFit'
             /\ \A q \in ScoreCalls \ {r} :
                  pc[q] \in {"commit_tx", "reveal_payload", "reveal_tx"} /\ hold[q] = commitPayload
                      => hold[q] = commitPayload'
  <2>1. ~excused /\ ~ReplacesExcused(r) BY <1>2, <1>7
  <2>2. FilesFit /\ CallFits(r) BY <1>1, <1>7, <2>1 DEF AloneHolds
  <2>3. commitPayload \in {None, hold[r]}
    <3> SUFFICES ASSUME commitPayload # None PROVE commitPayload = hold[r]
      OBVIOUS
    <3>1. commitPayload = hold[r] \/ (~basis[r].brought /\ basis[r].seen = commitPayload)
      BY <2>1 DEF ReplacesExcused
    <3> QED BY <1>2, <2>2, <3>1 DEF CallFits
  <2>4. CASE commitPayload = hold[r] BY <1>2, <2>2, <2>4 DEF FilesFit
  <2>5. CASE commitPayload = None
    <3>1. commitTx' = None /\ chainCommit' = None /\ revealTx' = None BY <1>2, <2>2, <2>5 DEF FilesFit
    <3>2. ASSUME NEW q \in ScoreCalls, pc[q] \in {"commit_tx", "reveal_payload", "reveal_tx"}
          PROVE  hold[q] # None
      <4>1. hold[q] \in WholePairs BY <1>1, <3>2 DEF ConsoleHolds, CallHolds, FilesHold
      <4>2. None \notin WholePairs BY ScoringAssumption DEF ScoringAssumption, WholePairs
      <4> QED BY <4>1, <4>2
    <3> QED BY <2>5, <3>1, <3>2 DEF FilesFit
  <2> QED BY <2>3, <2>4, <2>5
<1>8. everCommitted \subseteq everCommitted' /\ (excused => excused') BY <1>2
<1> QED BY <1>2, <1>3, <1>5, <1>6, <1>7, <1>8, CallKeeps

LEMMA ConsoleWrites ==
    ASSUME ScoringInv, NEW r \in ScoreCalls,
           ConsoleCommitTx(r) \/ ConsoleRevealPayload(r) \/ ConsoleRevealTx(r)
    PROVE  ScoringInv'
<1> USE DEF chain, stateFile, history
<1>1. /\ Places /\ FilesHold /\ AloneHolds /\ CallHolds(r) /\ r \in Actors
      /\ "agent" \notin writers /\ ~excused => FilesFit /\ CallFits(r)
  BY CallsAreActors DEF ScoringInv, ConsoleHolds, AloneHolds
<1>2. CASE ConsoleCommitTx(r)
  <2>1. /\ pc' = [pc EXCEPT ![r] = "commit_state"] /\ pc[r] = "commit_tx"
        /\ commitTx' = hold[r]
        /\ UNCHANGED <<hold, writers, salts, adjudication, validatorScore, everCommitted, excused, basis,
                       commitPayload, revealTx, chainCommit>>
    BY <1>2 DEF ConsoleCommitTx, Due, Go
  <2>2. Moved(r) /\ pc'[r] = "commit_state" BY <1>1, <2>1, Moves
  <2>3. FilesHold' /\ CallHolds(r)' /\ CallFits(r)'
    BY <1>1, <2>1, <2>2 DEF FilesHold, CallHolds, CallFits
  <2>4. "agent" \notin writers /\ ~excused => FilesFit' BY <1>1, <2>1 DEF FilesFit, CallFits
  <2> QED BY <2>1, <2>2, <2>3, <2>4, CallGoesOn
<1>3. CASE ConsoleRevealPayload(r)
  <2>1. /\ pc' = [pc EXCEPT ![r] = "reveal_tx"] /\ pc[r] = "reveal_payload"
        /\ UNCHANGED <<hold, writers, salts, adjudication, validatorScore, everCommitted, excused, basis,
                       commitPayload, commitTx, revealTx, chainCommit>>
    BY <1>3 DEF ConsoleRevealPayload, Due, Go
  <2>2. Moved(r) /\ pc'[r] = "reveal_tx" /\ hold'[r] = hold[r] BY <1>1, <2>1, Moves
  <2>3. FilesHold' /\ CallHolds(r)' BY <1>1, <2>1, <2>2 DEF FilesHold, CallHolds
  <2>4. "agent" \notin writers /\ ~excused => FilesFit' /\ CallFits(r)'
    BY <1>1, <2>1, <2>2 DEF FilesFit, CallFits
  <2> QED BY <2>1, <2>2, <2>3, <2>4, CallGoesOn
<1>4. CASE ConsoleRevealTx(r)
  <2>1. /\ pc' = [pc EXCEPT ![r] = "reveal_state"] /\ pc[r] = "reveal_tx"
        /\ revealTx' = Whole(hold[r])
        /\ UNCHANGED <<hold, writers, salts, adjudication, validatorScore, everCommitted, excused, basis,
                       commitPayload, commitTx, chainCommit>>
    BY <1>4 DEF ConsoleRevealTx, Due, Go
  <2>2. Moved(r) /\ pc'[r] = "reveal_state" BY <1>1, <2>1, Moves
  <2>3. hold[r] \in everCommitted BY <1>1, <2>1 DEF CallHolds
  <2>4. revealTx' = hold[r]
    <3>1. hold[r] \in WholePairs BY <1>1, <2>3 DEF FilesHold
    <3> QED BY <2>1, <3>1, WholeOfWhole
  <2>5. FilesHold' /\ CallHolds(r)' /\ CallFits(r)'
    BY <1>1, <2>1, <2>2, <2>3, <2>4 DEF FilesHold, CallHolds, CallFits
  <2>6. "agent" \notin writers /\ ~excused => FilesFit' BY <1>1, <2>1, <2>4 DEF FilesFit, CallFits
  <2> QED BY <2>1, <2>2, <2>5, <2>6, CallGoesOn
<1> QED BY <1>2, <1>3, <1>4

LEMMA ConsoleKeeps == ASSUME ScoringInv, WholePoints, Console PROVE ScoringInv'
BY ConsoleCommits, ConsoleReveals, ConsoleEnds, ConsolePaysIn, ConsoleWrites DEF Console

(* The operator signs, and time passes.                                     *)
LEMMA OutsideKeeps == ASSUME ScoringInv, SignCommit \/ SignReveal \/ Tick PROVE ScoringInv'
<1>1. /\ UNCHANGED <<writers, pc, hold, salts, adjudication, validatorScore, history, commitPayload, commitTx,
                     revealTx>>
      /\ chainCommit' = chainCommit \/ (commitTx # None /\ chainCommit' = commitTx)
  BY DEF SignCommit, SignReveal, Tick, Commitment, files, chain, stateFile
<1>2. Places' /\ FilesHold' /\ AgentHolds' /\ ConsoleHolds'
  BY <1>1 DEF ScoringInv, Places, FilesHold, AgentHolds, ConsoleHolds, CallHolds, history
<1>3. AloneHolds' BY <1>1 DEF ScoringInv, AloneHolds, FilesFit, CallFits, history
<1> QED BY <1>2, <1>3 DEF ScoringInv

LEMMA DieKeeps == ASSUME ScoringInv, NEW dead \in {{"agent"}, ScoreCalls}, Die(dead) PROVE ScoringInv'
<1>1. /\ pc' = [p \in Actors |-> IF p \in dead THEN "rest" ELSE pc[p]]
      /\ hold' = [p \in Actors |-> IF p \in dead THEN None ELSE hold[p]]
      /\ basis' = [r \in ScoreCalls |-> IF r \in dead THEN None ELSE basis[r]]
      /\ UNCHANGED <<writers, salts, adjudication, validatorScore, everCommitted, excused, commitPayload,
                     commitTx, revealTx, chainCommit>>
  BY DEF Die, files, chain, stateFile
<1>2. /\ \A p \in Actors : pc'[p] = "rest" \/ (pc'[p] = pc[p] /\ hold'[p] = hold[p])
      /\ \A r \in ScoreCalls : pc'[r] = "rest" \/ basis'[r] = basis[r]
  BY <1>1 DEF Actors
<1>3. "agent" \in Actors /\ ScoreCalls \subseteq Actors BY DEF Actors
<1>4. Places' BY <1>1 DEF Places
<1>5. FilesHold' /\ AgentHolds' BY <1>1, <1>2, <1>3 DEF ScoringInv, FilesHold, AgentHolds
<1>6. ConsoleHolds' BY <1>1, <1>2, <1>3 DEF ScoringInv, ConsoleHolds, CallHolds
<1>7. ASSUME NEW r \in ScoreCalls, CallFits(r) PROVE CallFits(r)'
  BY <1>1, <1>2, <1>3, <1>7 DEF CallFits
<1>8. AloneHolds' BY <1>1, <1>2, <1>3, <1>7 DEF ScoringInv, AloneHolds, FilesFit
<1> QED BY <1>4, <1>5, <1>6, <1>8 DEF ScoringInv

LEMMA ScoringStep == ASSUME WholePoints, ScoringInv, [Next]_vars PROVE ScoringInv'
<1>1. CASE Agent BY <1>1, AgentKeeps
<1>2. CASE Console BY <1>2, ConsoleKeeps
<1>3. CASE SignCommit \/ SignReveal \/ Tick BY <1>3, OutsideKeeps
<1>4. CASE \E dead \in {{"agent"}, ScoreCalls} : Die(dead) BY <1>4, DieKeeps
<1>5. CASE UNCHANGED vars
  BY <1>5 DEF vars, files, chain, stateFile, history, ScoringInv, Places, FilesHold, AgentHolds, ConsoleHolds,
              CallHolds, AloneHolds, FilesFit, CallFits
<1> QED BY <1>1, <1>2, <1>3, <1>4, <1>5 DEF Next

(* Whoever writes and whatever a request asks for, a reveal transaction     *)
(* holds a pair that was on file as committed to, if every score is whole   *)
(* (verifyRevealSafety, runValidatorScoreReveal).                           *)
THEOREM RevealWasCommitted == ASSUME WholePoints PROVE Spec => []RevealOfCommitted
<1>1. ASSUME ScoringInv PROVE RevealOfCommitted
  <2> SUFFICES ASSUME revealTx # None PROVE revealTx \in {Whole(pair) : pair \in everCommitted}
    BY DEF RevealOfCommitted
  <2>1. revealTx \in everCommitted /\ revealTx \in WholePairs
    BY <1>1 DEF ScoringInv, FilesHold
  <2>2. Whole(revealTx) = revealTx BY <2>1, WholeOfWhole
  <2> QED BY <2>1, <2>2
<1> QED BY ScoringInvInit, ScoringStep, <1>1, PTL DEF Spec

(* With mission control as the only writer the reveal transaction opens the *)
(* commitment on chain, if every score is whole, however many requests are  *)
(* open at once, whatever they bring and wherever it dies, unless a request *)
(* replaced the payload that brought a pair of its own or had read the      *)
(* files before (score-commit and score-reveal of mission control).         *)
THEOREM RevealFits == ASSUME WholePoints PROVE Spec => []RevealOpens
<1>1. ASSUME ScoringInv PROVE RevealOpens
  BY <1>1 DEF ScoringInv, AloneHolds, FilesFit, RevealOpens, Opens, Commitment
<1> QED BY ScoringInvInit, ScoringStep, <1>1, PTL DEF Spec
=============================================================================
