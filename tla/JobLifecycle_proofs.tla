------------------------- MODULE JobLifecycle_proofs -------------------------
(***************************************************************************)
(* Safety of the life of AGIJobManager jobs, for any number of jobs, of     *)
(* deaths of the agent and of calls, and whatever defects the pipeline has. *)
(***************************************************************************)
EXTENDS SubmissionDryRun, TLAPS

Statuses == Status \cup {"absent"}

(* The moves of VALID_TRANSITIONS that the arguments below turn on.         *)
LEMMA TableFacts ==
    /\ ~IsValidJobTransition("queued", "assigned")
    /\ ~IsValidJobTransition("deliverable_ready", "working")
    /\ \A s : IsValidJobTransition(s, "submitted") => s = "completion_pending_review"
    /\ IsValidJobTransition("deliverable_ready", "publication_pending")
    /\ IsValidJobTransition("deliverable_ready", "failed")
    /\ IsValidJobTransition("publication_pending", "failed")
    /\ IsValidJobTransition("publication_pending", "deliverable_ready")
BY DEF IsValidJobTransition, Allowed, AfterApplication, Terminal

---------------------------------------------------------------------------
(* Types *)

LEMMA NewCells ==
    ASSUME NEW c \in JobState, NEW s \in Statuses
    PROVE  /\ EmptyJob(s) \in JobState
           /\ [c EXCEPT !.status = s] \in JobState
           /\ [c EXCEPT !.status = s, !.exec = TRUE] \in JobState
           /\ [c EXCEPT !.status = s, !.reported = TRUE] \in JobState
           /\ [c EXCEPT !.status = s, !.packaged = TRUE] \in JobState
           /\ \A b \in BOOLEAN : [c EXCEPT !.status = s, !.uri = b] \in JobState
           /\ [c EXCEPT !.published = TRUE] \in JobState
           /\ [c EXCEPT !.storageClaim = TRUE] \in JobState
           /\ \A w \in {"agent", "tool"} : [c EXCEPT !.executeClaim = w] \in JobState
           /\ \A k \in ValidateKey : [c EXCEPT !.validateClaim = {k}] \in JobState
           /\ \A k \in SubmitKey : [c EXCEPT !.submitClaim = {k}] \in JobState
           /\ \A t \in Tx : [c EXCEPT !.applyTx = t] \in JobState
           /\ \A t \in Tx : [c EXCEPT !.completionTx = t] \in JobState
           /\ \A t \in Tx : [c EXCEPT !.status = s, !.applyTx = t] \in JobState
           /\ c.status \in Statuses
BY DEF JobState, EmptyJob, Statuses, Tx

Hands == {"review", "call", "deliver", "verify", "defer", "refuse", "accept", "package", "record"}

(* The agent puts the job in hand down, or takes it up.                     *)
PutDown(j) ==
    /\ agent' \in Agent
    /\ agent'.cur = None /\ j \notin agent'.todo
    /\ \/ agent'.at = "list" /\ agent'.todo = {}
       \/ agent'.at = "pick" /\ agent'.todo \subseteq agent.todo /\ agent'.stage = agent.stage

TakenUp(j, place) ==
    /\ agent' \in Agent
    /\ agent'.cur = j /\ agent'.at = place /\ agent'.stage = agent.stage
    /\ agent'.todo = agent.todo

LEMMA PutsDown ==
    ASSUME agent \in Agent, NEW j \in Jobs, DoneWith(j) \/ Aborted
    PROVE  PutDown(j)
<1>1. CASE DoneWith(j)
  <2>1. agent' = [agent EXCEPT !.at = "pick", !.todo = @ \ {j}, !.cur = None] BY <1>1 DEF DoneWith
  <2>2. agent' \in Agent BY <2>1 DEF Agent
  <2>3. /\ agent'.cur = None /\ agent'.todo = agent.todo \ {j} /\ agent'.at = "pick"
        /\ agent'.stage = agent.stage
    BY <2>1 DEF Agent
  <2> QED BY <2>2, <2>3 DEF PutDown
<1>2. CASE Aborted
  <2>1. CASE agent.stage = "recover"
    BY <1>2, <2>1 DEF Aborted, Down, Agent, PutDown
  <2>2. CASE agent.stage # "recover"
    <3>1. agent' = [agent EXCEPT !.stage = "discover", !.at = "list", !.todo = {}, !.cur = None]
      BY <1>2, <2>2 DEF Aborted
    <3>2. agent' \in Agent BY <3>1 DEF Agent, Pipeline
    <3>3. agent'.cur = None /\ agent'.todo = {} /\ agent'.at = "list" BY <3>1 DEF Agent
    <3> QED BY <3>2, <3>3 DEF PutDown
  <2> QED BY <2>1, <2>2
<1> QED BY <1>1, <1>2

LEMMA TakesUp ==
    ASSUME agent \in Agent, NEW j \in Jobs, NEW place \in Hands, GoOn(j, place)
    PROVE  TakenUp(j, place)
<1>1. agent' = [agent EXCEPT !.at = place, !.cur = j] BY DEF GoOn
<1> QED BY <1>1 DEF Agent, Hands, TakenUp

(* What becomes of a job that a stage sets, or fails.                       *)
LEMMA Sets ==
    ASSUME TypeOK, NEW j \in Jobs, NEW new \in JobState, Set(j, new)
    PROVE  /\ \/ job' = [job EXCEPT ![j] = new] /\ Admits(j, new.status)
              \/ job' = job /\ ~Admits(j, new.status)
           /\ job' \in [Jobs -> JobState]
           /\ PutDown(j)
<1>1. agent \in Agent /\ (DoneWith(j) \/ Aborted) BY DEF Set, TypeOK
<1>2. PutDown(j) BY <1>1, PutsDown
<1> QED BY <1>2 DEF Set, TypeOK

LEMMA Fails ==
    ASSUME TypeOK, NEW j \in Jobs, Fail(j)
    PROVE  /\ \/ job' = [job EXCEPT ![j] = [job[j] EXCEPT !.status = "failed"]]
              \/ job' = job /\ ~Admits(j, "failed")
           /\ job' \in [Jobs -> JobState]
           /\ PutDown(j)
<1>1. job[j] \in JobState BY DEF TypeOK
<1>2. [job[j] EXCEPT !.status = "failed"] \in JobState
  BY <1>1, NewCells DEF Statuses, Status, Terminal
<1>3. [job[j] EXCEPT !.status = "failed"].status = "failed" BY <1>1 DEF JobState
<1> QED BY <1>2, <1>3, Sets DEF Fail

LEMMA SetsOrFails ==
    ASSUME TypeOK, NEW j \in Jobs, NEW new \in JobState, SetOrFail(j, new)
    PROVE  /\ \/ job' = [job EXCEPT ![j] = new] /\ Admits(j, new.status)
              \/ /\ job' = [job EXCEPT ![j] = [job[j] EXCEPT !.status = "failed"]]
                 /\ ~Admits(j, new.status)
              \/ job' = job /\ ~Admits(j, new.status) /\ ~Admits(j, "failed")
           /\ job' \in [Jobs -> JobState]
           /\ PutDown(j)
BY Sets, Fails DEF SetOrFail

(* Between two jobs the agent has none in hand, between two stages no list. *)
Desk ==
    /\ agent.at \in {"list", "pick"} => agent.cur = None
    /\ agent.at = "list" => agent.todo = {}

(* A step of the agent on a job: what it leaves alone.                      *)
Turn(j) ==
    /\ job' \in [Jobs -> JobState] /\ files' \in [Jobs -> SUBSET Artifact]
    /\ calls' \in [Jobs -> 0..MaxCalls]
    /\ \A k \in Jobs \ {j} : job'[k] = job[k] /\ files'[k] = files[k] /\ calls'[k] = calls[k]
    /\ agent.at = "pick" \/ agent.cur = j
    /\ PutDown(j) \/ \E place \in Hands : TakenUp(j, place)
    /\ UNCHANGED <<remote, tool, crashes, byHand>>

LEMMA AddsFiles ==
    ASSUME TypeOK, NEW j \in Jobs, NEW F \in SUBSET Artifact,
           files' = [files EXCEPT ![j] = F]
    PROVE  /\ files' \in [Jobs -> SUBSET Artifact] /\ files'[j] = F
           /\ \A k \in Jobs \ {j} : files'[k] = files[k]
BY DEF TypeOK

LEMMA TurnOfSet ==
    ASSUME TypeOK, NEW j \in Jobs, NEW new \in JobState, Set(j, new) \/ SetOrFail(j, new) \/ Fail(j),
           agent.at = "pick" \/ agent.cur = j,
           NEW F \in SUBSET Artifact, files' = [files EXCEPT ![j] = F] \/ files' = files,
           UNCHANGED calls \/ (calls' = [calls EXCEPT ![j] = @ + 1] /\ calls[j] < MaxCalls),
           UNCHANGED <<remote, tool, crashes, byHand>>
    PROVE  Turn(j)
<1>1. job' \in [Jobs -> JobState] /\ PutDown(j) BY Sets, SetsOrFails, Fails
<1>2. \A k \in Jobs \ {j} : job'[k] = job[k]
  BY Sets, SetsOrFails, Fails DEF TypeOK
<1>3. files' \in [Jobs -> SUBSET Artifact] /\ \A k \in Jobs \ {j} : files'[k] = files[k]
  BY AddsFiles DEF TypeOK
<1>4. calls' \in [Jobs -> 0..MaxCalls] /\ \A k \in Jobs \ {j} : calls'[k] = calls[k]
  BY BoundsAssumption DEF TypeOK
<1> QED BY <1>1, <1>2, <1>3, <1>4 DEF Turn

LEMMA TurnOfHand ==
    ASSUME TypeOK, NEW j \in Jobs, NEW new \in JobState, job' = [job EXCEPT ![j] = new] \/ job' = job,
           DoneWith(j) \/ Aborted \/ \E place \in Hands : GoOn(j, place),
           agent.at = "pick" \/ agent.cur = j,
           NEW F \in SUBSET Artifact, files' = [files EXCEPT ![j] = F] \/ files' = files,
           UNCHANGED calls \/ (calls' = [calls EXCEPT ![j] = @ + 1] /\ calls[j] < MaxCalls),
           UNCHANGED <<remote, tool, crashes, byHand>>
    PROVE  Turn(j)
<1>1. job' \in [Jobs -> JobState] /\ \A k \in Jobs \ {j} : job'[k] = job[k]
  BY DEF TypeOK
<1>2. PutDown(j) \/ \E place \in Hands : TakenUp(j, place)
  BY PutsDown, TakesUp DEF TypeOK
<1>3. files' \in [Jobs -> SUBSET Artifact] /\ \A k \in Jobs \ {j} : files'[k] = files[k]
  BY AddsFiles DEF TypeOK
<1>4. calls' \in [Jobs -> 0..MaxCalls] /\ \A k \in Jobs \ {j} : calls'[k] = calls[k]
  BY BoundsAssumption DEF TypeOK
<1> QED BY <1>1, <1>2, <1>3, <1>4 DEF Turn

(* The agent's work on a job, stage by stage. *)
WorksOn(j) ==
    \/ Recover(j) \/ Discover(j) \/ Review(j) \/ Evaluate(j) \/ Apply(j) \/ Confirm(j)
    \/ ExecuteClaim(j) \/ ExecuteCall(j) \/ ExecuteDeliver(j)
    \/ ValidateClaim(j) \/ ValidateCall(j) \/ ValidateVerify(j)
    \/ ValidateDefer(j) \/ ValidateRefuse(j) \/ ValidateAccept(j)
    \/ SubmitClaim(j) \/ SubmitPackage(j) \/ SubmitRecord(j) \/ Reconcile(j)

LEMMA WorkIsTurn == ASSUME TypeOK, Desk, NEW j \in Jobs, WorksOn(j) PROVE Turn(j)
<1> DEFINE c == job[j]
<1>1. /\ c \in JobState /\ files[j] \in SUBSET Artifact /\ agent \in Agent
      /\ \A s \in Statuses : [c EXCEPT !.status = s] \in JobState
      /\ c.status \in Statuses
  <2>1. c \in JobState /\ files[j] \in SUBSET Artifact /\ agent \in Agent BY DEF TypeOK
  <2>2. \A s \in Statuses : [c EXCEPT !.status = s] \in JobState BY <2>1, NewCells
  <2>3. c.status \in Statuses BY <2>1 DEF JobState, Statuses
  <2> QED BY <2>1, <2>2, <2>3
<1>2. CASE Recover(j)
  <2>1. Recovered(j) \in Statuses BY <1>1 DEF Recovered, Statuses, Status
  <2> QED BY <1>1, <1>2, <2>1, TurnOfSet DEF Recover, Picks
<1>3. CASE Discover(j)
  <2>1. CASE DiscoverNothing(j)
    BY <1>1, <1>3, <2>1, TurnOfHand DEF Discover, DiscoverNothing, Picks, Skip
  <2>2. CASE DiscoverAssigned(j)
    BY <1>1, <1>3, <2>2, TableFacts, TurnOfHand DEF Discover, DiscoverAssigned, Picks
  <2>3. CASE DiscoverOpen(j)
    <3>1. EmptyJob("queued") \in JobState BY <1>1, NewCells DEF Statuses, Status
    <3> QED BY <1>1, <1>3, <2>3, <3>1, TurnOfHand DEF Discover, DiscoverOpen, Picks, Hands
  <2> QED BY <1>3, <2>1, <2>2, <2>3 DEF Discover
<1>4. CASE Review(j)
  <2>1. [c EXCEPT !.status = "review_pending"] \in JobState BY <1>1 DEF Statuses, Status
  <2>2. files[j] \cup {"decision"} \in SUBSET Artifact BY <1>1 DEF Artifact
  <2>3. files' = [files EXCEPT ![j] = files[j] \cup {"decision"}] BY <1>4 DEF Review
  <2> QED BY <1>4, <2>1, <2>2, <2>3, TurnOfSet DEF Review, At
<1>5. CASE Evaluate(j)
  <2>1. "scored" \in Statuses /\ "failed" \in Statuses BY DEF Statuses, Status, Terminal
  <2> QED BY <1>1, <1>5, <2>1, TurnOfSet DEF Evaluate, Picks
<1>6. CASE Apply(j)
  <2>1. CASE Aborted /\ UNCHANGED <<job, files>>
    BY <1>1, <1>6, <2>1, TurnOfHand DEF Apply, Picks
  <2>2. CASE /\ files' = [files EXCEPT ![j] = @ \cup {"unsignedApply"}]
             /\ job' = [job EXCEPT ![j].status = "application_pending_review"]
             /\ agent' = [agent EXCEPT !.todo = {}]
    <3>1. [c EXCEPT !.status = "application_pending_review"] \in JobState
      BY <1>1 DEF Statuses, Status
    <3>2. job' \in [Jobs -> JobState] /\ \A k \in Jobs \ {j} : job'[k] = job[k]
      BY <2>2, <3>1 DEF TypeOK
    <3>3. files[j] \cup {"unsignedApply"} \in SUBSET Artifact BY <1>1 DEF Artifact
    <3>4. files' \in [Jobs -> SUBSET Artifact] /\ \A k \in Jobs \ {j} : files'[k] = files[k]
      BY <2>2, <3>3, AddsFiles
    <3>5. PutDown(j)
      <4>1. agent.at = "pick" /\ agent.cur = None BY <1>6 DEF Apply, Picks, Desk
      <4> QED BY <1>1, <2>2, <4>1 DEF PutDown, Agent
    <3> QED BY <1>6, <3>2, <3>4, <3>5 DEF Apply, Picks, Turn, TypeOK
  <2> QED BY <1>6, <2>1, <2>2 DEF Apply
<1>7. CASE Confirm(j)
  <2>1. CASE Skip(j) \/ (Aborted /\ job' = job)
    BY <1>1, <1>7, <2>1, TurnOfHand DEF Confirm, Picks, Skip
  <2>2. CASE Set(j, [c EXCEPT !.status = "assignment_pending"])
    <3>1. [c EXCEPT !.status = "assignment_pending"] \in JobState BY <1>1 DEF Statuses, Status
    <3> QED BY <1>1, <1>7, <2>2, <3>1, TurnOfSet DEF Confirm, Picks
  <2>3. CASE Set(j, [c EXCEPT !.status = "assigned", !.applyTx = "finalized"])
    <3>1. [c EXCEPT !.status = "assigned", !.applyTx = "finalized"] \in JobState
      <4>1. "assigned" \in Statuses /\ "finalized" \in Tx BY DEF Statuses, Status, Tx
      <4> QED BY <1>1, <4>1, NewCells
    <3> QED BY <1>1, <1>7, <2>3, <3>1, TurnOfSet DEF Confirm, Picks
  <2>4. CASE Fail(j)
    BY <1>1, <1>7, <2>4, TurnOfSet DEF Confirm, Picks
  <2> QED BY <1>7, <2>1, <2>2, <2>3, <2>4 DEF Confirm
<1>8. CASE ExecuteClaim(j)
  <2>1. [c EXCEPT !.executeClaim = "agent"] \in JobState
    <3>1. "assigned" \in Statuses BY DEF Statuses, Status
    <3> QED BY <1>1, <3>1, NewCells
  <2>2. job' = job \/ job' = [job EXCEPT ![j] = [c EXCEPT !.executeClaim = "agent"]]
    BY <1>8 DEF ExecuteClaim, Skip
  <2> QED BY <1>1, <1>8, <2>1, <2>2, TurnOfHand DEF ExecuteClaim, Picks, Skip, Hands
<1>9. CASE ExecuteCall(j)
  <2>1. files[j] \cup {"brief"} \in SUBSET Artifact BY <1>1 DEF Artifact
  <2>2. /\ files' = [files EXCEPT ![j] = files[j] \cup {"brief"}]
        /\ calls' = [calls EXCEPT ![j] = @ + 1] /\ calls[j] < MaxCalls
        /\ agent.cur = j /\ UNCHANGED <<remote, tool, crashes, byHand>>
    BY <1>9 DEF ExecuteCall, At
  <2>3. CASE Fail(j) BY <1>1, <2>1, <2>2, <2>3, TurnOfSet
  <2>4. CASE job' = job /\ GoOn(j, "deliver")
    BY <1>1, <2>1, <2>2, <2>4, TurnOfHand DEF Hands
  <2> QED BY <1>9, <2>3, <2>4 DEF ExecuteCall
<1>10. CASE ExecuteDeliver(j)
  <2>1. files[j] \cup {"deliverable"} \in SUBSET Artifact BY <1>1 DEF Artifact
  <2>2. [c EXCEPT !.status = "deliverable_ready", !.exec = TRUE] \in JobState
    <3>1. "deliverable_ready" \in Statuses BY DEF Statuses, Status
    <3> QED BY <1>1, <3>1, NewCells
  <2>3. files' = [files EXCEPT ![j] = files[j] \cup {"deliverable"}] BY <1>10 DEF ExecuteDeliver
  <2> QED BY <1>10, <2>1, <2>2, <2>3, TurnOfSet DEF ExecuteDeliver, At
<1>11. CASE ValidateClaim(j)
  <2>1. [c EXCEPT !.validateClaim = {KeyOfValidate(j)}] \in JobState
    <3>1. KeyOfValidate(j) \in ValidateKey BY <1>1 DEF KeyOfValidate, ValidateKey, JobState, Agent
    <3>2. "assigned" \in Statuses BY DEF Statuses, Status
    <3> QED BY <1>1, <3>1, <3>2, NewCells
  <2>2. job' = job \/ job' = [job EXCEPT ![j] = [c EXCEPT !.validateClaim = {KeyOfValidate(j)}]]
    BY <1>11 DEF ValidateClaim, Skip
  <2> QED BY <1>1, <1>11, <2>1, <2>2, TurnOfHand DEF ValidateClaim, Picks, Skip, Hands
<1>18. /\ (files[j] \ {"verified"}) \cup {"unheeded"} \in SUBSET Artifact
       /\ (files[j] \ {"unheeded"}) \cup {"verified"} \in SUBSET Artifact
       /\ files[j] \ {"unheeded"} \in SUBSET Artifact
  BY <1>1 DEF Artifact
<1>12. CASE ValidateCall(j)
  <2>1. agent.cur = j /\ UNCHANGED <<remote, calls, tool, crashes, byHand>>
    BY <1>12 DEF ValidateCall, At
  <2>2. CASE UNCHANGED <<job, files>> /\ GoOn(j, "verify")
    BY <1>1, <2>1, <2>2, TurnOfHand DEF Hands
  <2>3. CASE files' = files /\ Fail(j)
    BY <1>1, <2>1, <2>3, TurnOfSet
  <2>4. CASE job' = job /\ ReportsAgainst(j) /\ GoOn(j, "defer")
    BY <1>1, <1>18, <2>1, <2>4, TurnOfHand DEF Hands, ReportsAgainst
  <2>5. CASE /\ files' = files
             /\ job' = [job EXCEPT ![j].published = TRUE] /\ GoOn(j, "verify")
    <3>1. [c EXCEPT !.published = TRUE] \in JobState
      <4>1. "assigned" \in Statuses BY DEF Statuses, Status
      <4> QED BY <1>1, <4>1, NewCells
    <3>2. job' = [job EXCEPT ![j] = [c EXCEPT !.published = TRUE]] BY <2>5
    <3> QED BY <1>1, <2>1, <2>5, <3>1, <3>2, TurnOfHand DEF Hands
  <2> QED BY <1>12, <2>2, <2>3, <2>4, <2>5 DEF ValidateCall
<1>13. CASE ValidateVerify(j)
  <2>1. agent.cur = j /\ UNCHANGED <<remote, calls, tool, crashes, byHand>>
    BY <1>13 DEF ValidateVerify, At
  <2>2. CASE files' = files /\ Fail(j)
    BY <1>1, <2>1, <2>2, TurnOfSet
  <2>3. CASE job' = job /\ ReportsAgainst(j) /\ GoOn(j, "refuse")
    BY <1>1, <1>18, <2>1, <2>3, TurnOfHand DEF Hands, ReportsAgainst
  <2>4. CASE /\ job' = job /\ GoOn(j, "accept")
             /\ files' = [files EXCEPT ![j] = (@ \ {"unheeded"}) \cup {"verified"}]
    BY <1>1, <1>18, <2>1, <2>4, TurnOfHand DEF Hands
  <2> QED BY <1>13, <2>2, <2>3, <2>4 DEF ValidateVerify
<1>19. ASSUME agent.cur = j, UNCHANGED <<remote, calls, tool, crashes, byHand>>,
              files' = files \/ files' = [files EXCEPT ![j] = @ \ {"unheeded"}],
              NEW s \in {"publication_pending", "failed", "deliverable_ready"},
              \/ SetOrFail(j, [c EXCEPT !.status = s, !.reported = TRUE])
              \/ Set(j, [c EXCEPT !.status = s, !.reported = TRUE])
       PROVE  Turn(j)
  <2>1. [c EXCEPT !.status = s, !.reported = TRUE] \in JobState
    <3>1. s \in Statuses BY DEF Statuses, Status, Terminal
    <3> QED BY <1>1, <3>1, NewCells
  <2> QED BY <1>18, <1>19, <2>1, TurnOfSet
<1>20. CASE ValidateDefer(j) BY <1>19, <1>20 DEF ValidateDefer, At
<1>21. CASE ValidateRefuse(j) BY <1>19, <1>21 DEF ValidateRefuse, At
<1>22. CASE ValidateAccept(j) BY <1>19, <1>22 DEF ValidateAccept, At
<1>14. CASE SubmitClaim(j)
  <2>1. [c EXCEPT !.submitClaim = {KeyOfSubmit(j)}] \in JobState
    <3>1. KeyOfSubmit(j) \in SubmitKey BY <1>1 DEF KeyOfSubmit, SubmitKey, JobState
    <3>2. "assigned" \in Statuses BY DEF Statuses, Status
    <3> QED BY <1>1, <3>1, <3>2, NewCells
  <2>2. job' = job \/ job' = [job EXCEPT ![j] = [c EXCEPT !.submitClaim = {KeyOfSubmit(j)}]]
    BY <1>14 DEF SubmitClaim, Skip
  <2> QED BY <1>1, <1>14, <2>1, <2>2, TurnOfHand DEF SubmitClaim, Picks, Skip, Hands
<1>15. CASE SubmitPackage(j)
  <2>1. agent.cur = j /\ UNCHANGED <<remote, calls, tool, crashes, byHand>>
    BY <1>15 DEF SubmitPackage, At
  <2>2. PICK n \in 1..4 : files' = [files EXCEPT ![j] = files[j] \cup SubmitFiles[n]]
    BY <1>15 DEF SubmitPackage
  <2>3. files[j] \cup SubmitFiles[n] \in SUBSET Artifact BY <1>1 DEF Artifact, SubmitFiles
  <2>4. CASE Fail(j) BY <1>1, <2>1, <2>2, <2>3, <2>4, TurnOfSet
  <2>5. CASE job' = job /\ GoOn(j, "record")
    BY <1>1, <2>1, <2>2, <2>3, <2>5, TurnOfHand DEF Hands
  <2> QED BY <1>15, <2>4, <2>5 DEF SubmitPackage
<1>16. CASE SubmitRecord(j)
  <2>1. [c EXCEPT !.status = "completion_pending_review", !.packaged = TRUE] \in JobState
    <3>1. "completion_pending_review" \in Statuses BY DEF Statuses, Status
    <3> QED BY <1>1, <3>1, NewCells
  <2> QED BY <1>1, <1>16, <2>1, TurnOfSet DEF SubmitRecord, At
<1>17. CASE Reconcile(j)
  <2>1. agent.at = "pick" /\ UNCHANGED <<files, remote, calls, tool, crashes, byHand>>
    BY <1>17 DEF Reconcile, Picks
  <2>2. CASE Skip(j) BY <1>1, <2>1, <2>2, TurnOfHand DEF Skip
  <2>3. ASSUME NEW status \in {"submitted", "completed", "failed"},
               NEW new \in JobState, Reconciled(j, status, new)
        PROVE  Turn(j)
    <3>1. [new EXCEPT !.status = IF Admits(j, status) THEN status ELSE @] \in JobState
      <4> DEFINE s == IF Admits(j, status) THEN status ELSE new.status
      <4>1. new.status \in Statuses BY DEF JobState, Statuses
      <4>2. s \in Statuses BY <4>1 DEF Statuses, Status, Terminal
      <4>3. [new EXCEPT !.status = s] \in JobState BY <4>2, NewCells
      <4> QED BY <4>3
    <3> QED BY <1>1, <2>1, <2>3, <3>1, TurnOfHand DEF Reconciled
  <2>4. [c EXCEPT !.completionTx = "finalized"] \in JobState
    <3>1. "assigned" \in Statuses /\ "finalized" \in Tx BY DEF Statuses, Status, Tx
    <3> QED BY <1>1, <3>1, NewCells
  <2> QED BY <1>1, <1>17, <2>2, <2>3, <2>4 DEF Reconcile
<1> QED BY <1>2, <1>3, <1>4, <1>5, <1>6, <1>7, <1>8, <1>9, <1>10, <1>11, <1>12, <1>13, <1>14,
           <1>15, <1>16, <1>17, <1>20, <1>21, <1>22 DEF WorksOn

(* A step of a tool on a job: what it leaves alone. *)
Handled(j) ==
    /\ job' \in [Jobs -> JobState] /\ files' \in [Jobs -> SUBSET Artifact]
    /\ \A k \in Jobs \ {j} : job'[k] = job[k] /\ files'[k] = files[k]
    /\ tool' \in Tool
    /\ UNCHANGED <<remote, calls, agent, crashes, byHand>>

LEMMA ToolSetsOne ==
    ASSUME TypeOK, NEW j \in Jobs, NEW new \in JobState, ToolSets(j, new)
    PROVE  /\ job' \in [Jobs -> JobState] /\ \A k \in Jobs \ {j} : job'[k] = job[k]
           /\ job'[j] = IF Admits(j, new.status) THEN new ELSE job[j]
BY DEF ToolSets, TypeOK

LEMMA PutsOne ==
    ASSUME TypeOK, NEW j \in Jobs, NEW new \in JobState, job' = [job EXCEPT ![j] = new] \/ job' = job
    PROVE  job' \in [Jobs -> JobState] /\ \A k \in Jobs \ {j} : job'[k] = job[k]
BY DEF TypeOK

LEMMA ToolHandles == ASSUME TypeOK, NEW j \in Jobs, UseTool(j) PROVE Handled(j)
<1> DEFINE c == job[j]
<1>1. c \in JobState /\ files[j] \in SUBSET Artifact /\ files \in [Jobs -> SUBSET Artifact]
  BY DEF TypeOK
<1>2. c.status \in Statuses BY <1>1 DEF JobState, Statuses
<1>3. /\ "apply_ready" \in Statuses /\ "deliverable_ready" \in Statuses /\ "failed" \in Statuses
      /\ "storage_pending" \in Statuses /\ "storage_verified" \in Statuses
      /\ "completion_package_ready" \in Statuses
  BY DEF Statuses, Status, Terminal
<1>4. tool \in Tool /\ Idle \in Tool BY DEF TypeOK, Idle, Tool
<1>5. \A name \in {"execute", "stage", "package"} : Runs(name, j) => tool' \in Tool
  BY <1>2 DEF Runs, Tool, Statuses
<1>6. \A name \in {"execute", "stage", "package"} : Finishes(name, j) => tool' \in Tool
  BY <1>4 DEF Finishes
<1>7. CASE Approve(j)
  <2>1. [c EXCEPT !.status = "apply_ready"] \in JobState BY <1>1, <1>3, NewCells
  <2>2. job' = [job EXCEPT ![j] = [c EXCEPT !.status = "apply_ready"]] BY <1>7 DEF Approve
  <2>3. files[j] \cup {"unsignedApply"} \in SUBSET Artifact BY <1>1 DEF Artifact
  <2>4. files' = [files EXCEPT ![j] = files[j] \cup {"unsignedApply"}] BY <1>7 DEF Approve
  <2>5. job' \in [Jobs -> JobState] /\ \A k \in Jobs \ {j} : job'[k] = job[k] BY <2>1, <2>2, PutsOne
  <2>6. files' \in [Jobs -> SUBSET Artifact] /\ \A k \in Jobs \ {j} : files'[k] = files[k]
    BY <2>3, <2>4, AddsFiles
  <2> QED BY <1>4, <1>7, <2>5, <2>6 DEF Approve, Handled
<1>8. ASSUME NEW force \in BOOLEAN, BeginExecute(j, force) PROVE Handled(j)
  <2>1. [c EXCEPT !.executeClaim = "tool"] \in JobState BY <1>1, <1>3, NewCells
  <2>2. job' = job \/ job' = [job EXCEPT ![j] = [c EXCEPT !.executeClaim = "tool"]]
    BY <1>8 DEF BeginExecute
  <2>3. job' \in [Jobs -> JobState] /\ \A k \in Jobs \ {j} : job'[k] = job[k] BY <2>1, <2>2, PutsOne
  <2> QED BY <1>1, <1>5, <1>8, <2>3 DEF BeginExecute, Handled
<1>9. ASSUME NEW force \in BOOLEAN, BeginPackage(j, force) PROVE Handled(j)
  BY <1>1, <1>5, <1>9 DEF BeginPackage, Handled, TypeOK
<1>10. ASSUME NEW force \in BOOLEAN, NEW publish \in BOOLEAN, BeginStage(j, force, publish)
       PROVE  Handled(j)
  <2>1. [c EXCEPT !.storageClaim = TRUE] \in JobState BY <1>1, <1>3, NewCells
  <2>2. job' = job \/ job' = [job EXCEPT ![j] = [c EXCEPT !.storageClaim = TRUE]]
    BY <1>10 DEF BeginStage
  <2>3. job' \in [Jobs -> JobState] /\ \A k \in Jobs \ {j} : job'[k] = job[k] BY <2>1, <2>2, PutsOne
  <2> QED BY <1>1, <1>5, <1>10, <2>3 DEF BeginStage, Handled
<1>11. CASE EndExecute(j)
  <2>1. files[j] \cup {"bundle", "completion"} \in SUBSET Artifact BY <1>1 DEF Artifact
  <2>2. files' = [files EXCEPT ![j] = files[j] \cup {"bundle", "completion"}] BY <1>11 DEF EndExecute
  <2>3. files' \in [Jobs -> SUBSET Artifact] /\ \A k \in Jobs \ {j} : files'[k] = files[k]
    BY <2>1, <2>2, AddsFiles
  <2>4. [c EXCEPT !.status = "failed"] \in JobState BY <1>1, <1>3, NewCells
  <2>5. [c EXCEPT !.status = "deliverable_ready", !.uri = FALSE] \in JobState BY <1>1, <1>3, NewCells
  <2>6. \/ job' = [job EXCEPT ![j] = [c EXCEPT !.status = "deliverable_ready", !.uri = FALSE]]
        \/ ToolSets(j, [c EXCEPT !.status = "failed"])
    BY <1>11 DEF EndExecute
  <2>7. job' \in [Jobs -> JobState] /\ \A k \in Jobs \ {j} : job'[k] = job[k]
    BY <2>4, <2>5, <2>6, PutsOne, ToolSetsOne
  <2> QED BY <1>6, <1>11, <2>3, <2>7 DEF EndExecute, Handled
<1>12. CASE EndStageTool(j)
  <2>1. UNCHANGED <<remote, calls, agent, crashes, byHand>> /\ tool' \in Tool
    BY <1>6, <1>12 DEF EndStageTool
  <2>2. \A s \in Statuses : \A b \in BOOLEAN : [c EXCEPT !.status = s, !.uri = b] \in JobState
    BY <1>1, NewCells
  <2>3. CASE UNCHANGED <<job, files>> BY <2>1, <2>3 DEF Handled, TypeOK
  <2>4. CASE job' = job /\ files' = [files EXCEPT ![j] = @ \ {"bundlePublished"}]
    <3>1. files[j] \ {"bundlePublished"} \in SUBSET Artifact BY <1>1
    <3>2. files' = [files EXCEPT ![j] = files[j] \ {"bundlePublished"}] BY <2>4
    <3>3. files' \in [Jobs -> SUBSET Artifact] /\ \A k \in Jobs \ {j} : files'[k] = files[k]
      BY <3>1, <3>2, AddsFiles
    <3> QED BY <2>1, <2>4, <3>3 DEF Handled, TypeOK
  <2>5. CASE ToolSets(j, [c EXCEPT !.status = "storage_pending", !.uri = FALSE]) /\ files' = files
    <3>1. job' \in [Jobs -> JobState] /\ \A k \in Jobs \ {j} : job'[k] = job[k]
      BY <1>3, <2>2, <2>5, ToolSetsOne
    <3> QED BY <1>1, <2>1, <2>5, <3>1 DEF Handled
  <2>6. CASE /\ ToolSets(j, [c EXCEPT !.status = "storage_verified", !.uri = TRUE])
             /\ files' = [files EXCEPT ![j] = @ \cup {"bundlePublished"}]
    <3>1. job' \in [Jobs -> JobState] /\ \A k \in Jobs \ {j} : job'[k] = job[k]
      BY <1>3, <2>2, <2>6, ToolSetsOne
    <3>2. files[j] \cup {"bundlePublished"} \in SUBSET Artifact BY <1>1 DEF Artifact
    <3>3. files' = [files EXCEPT ![j] = files[j] \cup {"bundlePublished"}] BY <2>6
    <3>4. files' \in [Jobs -> SUBSET Artifact] /\ \A k \in Jobs \ {j} : files'[k] = files[k]
      BY <3>2, <3>3, AddsFiles
    <3> QED BY <2>1, <3>1, <3>4 DEF Handled
  <2> QED BY <1>12, <2>3, <2>4, <2>5, <2>6 DEF EndStageTool
<1>13. CASE EndPackage(j)
  <2>1. [c EXCEPT !.status = "completion_package_ready"] \in JobState BY <1>1, <1>3, NewCells
  <2>2. job' \in [Jobs -> JobState] /\ \A k \in Jobs \ {j} : job'[k] = job[k]
    BY <1>13, <2>1, ToolSetsOne DEF EndPackage
  <2>3. files[j] \cup {"package"} \in SUBSET Artifact BY <1>1 DEF Artifact
  <2>4. files' = [files EXCEPT ![j] = files[j] \cup {"package"}] BY <1>13 DEF EndPackage
  <2>5. files' \in [Jobs -> SUBSET Artifact] /\ \A k \in Jobs \ {j} : files'[k] = files[k]
    BY <2>3, <2>4, AddsFiles
  <2> QED BY <1>6, <1>13, <2>2, <2>5 DEF EndPackage, Handled
<1> QED BY <1>7, <1>8, <1>9, <1>10, <1>11, <1>12, <1>13 DEF UseTool

(* A tool that is killed has written some of its files.                     *)
LEMMA KilledAdds ==
    ASSUME TypeOK, ToolKilled
    PROVE  /\ files' \in [Jobs -> SUBSET Artifact] /\ \A k \in Jobs : files[k] \subseteq files'[k]
           /\ tool' = Idle /\ UNCHANGED <<job, remote, calls, agent, crashes, byHand>>
<1>1. /\ tool \in Tool /\ files \in [Jobs -> SUBSET Artifact]
      /\ tool' = Idle /\ UNCHANGED <<job, remote, calls, agent, crashes, byHand>>
  BY DEF TypeOK, ToolKilled
<1>2. PICK written \in ToolWrites[tool.name] : files' = [files EXCEPT ![tool.job] = @ \cup written]
  BY DEF ToolKilled
<1>3. written \in SUBSET Artifact BY <1>1 DEF ToolWrites, Tool, Artifact
<1>4. CASE tool.job \in Jobs BY <1>1, <1>2, <1>3, <1>4
<1>5. CASE tool.job \notin Jobs BY <1>1, <1>2, <1>5
<1> QED BY <1>1, <1>4, <1>5

(* The agent's process starts, dies, lists and ends a stage.                *)
Paces == Start \/ Crash \/ List \/ EndStage

LEMMA PacesKeepTypes ==
    ASSUME TypeOK, Desk, Paces
    PROVE  /\ TypeOK' /\ Desk' /\ UNCHANGED <<job, files, remote, calls, tool, byHand>>
           /\ agent'.cur = None
           /\ agent'.at \in {"list", "pick"}
<1>1. agent \in Agent /\ crashes \in 0..MaxCrashes BY DEF TypeOK
<1>2. /\ agent' \in Agent /\ crashes' \in 0..MaxCrashes /\ agent'.cur = None
      /\ UNCHANGED <<job, files, remote, calls, tool, byHand>>
      /\ agent'.at = "pick" \/ (agent'.at = "list" /\ agent'.todo = {})
  <2>1. CASE Start
    <3>1. PICK pin \in BOOLEAN : agent' = [Down EXCEPT !.stage = "recover", !.pin = pin]
      BY <2>1 DEF Start
    <3> QED BY <1>1, <2>1, <3>1 DEF Start, Down, Agent, Pipeline
  <2>2. CASE Crash BY <1>1, <2>2, BoundsAssumption DEF Crash, Down, Agent
  <2>3. CASE List
    <3>1. CASE Aborted
      BY <1>1, <2>3, <3>1 DEF List, Aborted, Down, Agent, Pipeline
    <3>2. CASE agent' = [agent EXCEPT !.at = "pick", !.todo = Listed(agent.stage)]
      <4>1. Listed(agent.stage) \subseteq Jobs BY DEF Listed
      <4>2. agent.cur = None BY <2>3 DEF List, Desk
      <4> QED BY <1>1, <2>3, <3>2, <4>1, <4>2 DEF List, Agent
    <3> QED BY <2>3, <3>1, <3>2 DEF List
  <2>4. CASE EndStage
    <3>1. agent' = [agent EXCEPT !.at = "list", !.stage = Following[agent.stage]]
      BY <2>4 DEF EndStage
    <3>2. agent.stage \in Pipeline BY <1>1, <2>4 DEF EndStage, Agent
    <3>3. Following[agent.stage] \in Pipeline BY <3>2 DEF Following, Pipeline
    <3>4. agent.cur = None /\ agent.todo = {} BY <2>4 DEF EndStage, Desk
    <3> QED BY <1>1, <2>4, <3>1, <3>3, <3>4 DEF EndStage, Agent
  <2> QED BY <2>1, <2>2, <2>3, <2>4 DEF Paces
<1> QED BY <1>2 DEF TypeOK, Desk

(* The operator's transactions, the contract, and retention. *)
Outside(j) == RecordTx(j) \/ RemoteMoves(j) \/ Prune(j)

LEMMA OutsideKeepsTypes ==
    ASSUME TypeOK, NEW j \in Jobs, Outside(j)
    PROVE  /\ TypeOK' /\ UNCHANGED <<files, calls, agent, tool, byHand>>
           /\ \A k \in Jobs \ {j} : job'[k] = job[k]
<1>1. job[j] \in JobState /\ "absent" \in Statuses /\ "submitted" \in Tx /\ job[j].status \in Statuses
  BY DEF TypeOK, Statuses, Tx, JobState
<1>2. CASE RecordTx(j)
  <2>1. \/ job' = [job EXCEPT ![j] = [job[j] EXCEPT !.applyTx = "submitted"]]
        \/ job' = [job EXCEPT ![j] = [job[j] EXCEPT !.completionTx = "submitted"]]
    BY <1>2 DEF RecordTx
  <2>2. /\ [job[j] EXCEPT !.applyTx = "submitted"] \in JobState
        /\ [job[j] EXCEPT !.completionTx = "submitted"] \in JobState
    BY <1>1, NewCells
  <2>3. job' \in [Jobs -> JobState] /\ \A k \in Jobs \ {j} : job'[k] = job[k]
    BY <2>1, <2>2, PutsOne
  <2> QED BY <1>2, <2>3 DEF RecordTx, TypeOK
<1>3. CASE RemoteMoves(j) BY <1>3 DEF RemoteMoves, TypeOK
<1>4. CASE Prune(j)
  <2>1. EmptyJob("absent") \in JobState BY <1>1, NewCells
  <2>2. job' \in [Jobs -> JobState] /\ \A k \in Jobs \ {j} : job'[k] = job[k]
    BY <1>4, <2>1, PutsOne DEF Prune
  <2> QED BY <1>4, <2>2 DEF Prune, TypeOK
<1> QED BY <1>2, <1>3, <1>4 DEF Outside

(* Every step is one of these kinds. *)
LEMMA KindsOfStep ==
    ASSUME [Next]_vars
    PROVE  \/ Paces \/ \E j \in Jobs : WorksOn(j)
           \/ ToolKilled \/ \E j \in byHand : UseTool(j)
           \/ \E j \in Jobs : Outside(j)
           \/ UNCHANGED vars
BY DEF Next, Paces, AgentWorks, WorksOn, Outside

LEMMA TypesKept == ASSUME TypeOK, Desk, [Next]_vars PROVE TypeOK' /\ Desk'
<1>1. CASE Paces BY <1>1, PacesKeepTypes
<1>2. ASSUME NEW j \in Jobs, WorksOn(j) PROVE TypeOK' /\ Desk'
  <2>1. Turn(j) BY <1>2, WorkIsTurn
  <2>2. TypeOK' BY <2>1 DEF Turn, TypeOK, PutDown, TakenUp
  <2>3. Desk' BY <2>1 DEF Turn, Desk, PutDown, TakenUp, Hands
  <2> QED BY <2>2, <2>3
<1>3. CASE ToolKilled
  <2>1. Idle \in Tool BY DEF Idle, Tool
  <2> QED BY <1>3, <2>1, KilledAdds DEF TypeOK, Desk
<1>4. ASSUME NEW j \in byHand, UseTool(j) PROVE TypeOK' /\ Desk'
  <2>1. Handled(j) BY <1>4, ToolHandles DEF TypeOK
  <2> QED BY <2>1 DEF Handled, TypeOK, Desk
<1>5. ASSUME NEW j \in Jobs, Outside(j) PROVE TypeOK' /\ Desk'
  BY <1>5, OutsideKeepsTypes DEF Desk
<1>6. CASE UNCHANGED vars BY <1>6 DEF vars, TypeOK, Desk
<1> QED BY <1>1, <1>2, <1>3, <1>4, <1>5, <1>6, KindsOfStep

LEMMA TypesAtFirst == ASSUME Init PROVE TypeOK /\ Desk
<1>1. PICK seeded \in SUBSET Seeded :
        /\ job = [j \in Jobs |-> EmptyJob(IF j \in seeded THEN "review_pending" ELSE "absent")]
        /\ files = [j \in Jobs |-> IF j \in seeded THEN {"decision"} ELSE {}]
  BY DEF Init
<1>2. job \in [Jobs -> JobState]
  BY <1>1 DEF EmptyJob, JobState, Status, Tx
<1>3. files \in [Jobs -> SUBSET Artifact] BY <1>1 DEF Artifact
<1>4. remote \in [Jobs -> Remote] BY DEF Init, Remote
<1>5. calls \in [Jobs -> 0..MaxCalls] /\ crashes \in 0..MaxCrashes BY BoundsAssumption DEF Init
<1>6. agent \in Agent /\ tool \in Tool BY DEF Init, Down, Idle, Agent, Tool
<1>7. Desk BY DEF Init, Down, Desk
<1> QED BY <1>2, <1>3, <1>4, <1>5, <1>6, <1>7 DEF Init, TypeOK

(* Every state file, artifact list and process state is well formed, for    *)
(* any jobs, deaths and calls (state.js).                                   *)
THEOREM JobsTypeCorrect == Spec => []TypeOK
BY TypesAtFirst, TypesKept, PTL DEF Spec

---------------------------------------------------------------------------
(* Artifacts and receipts, of every job *)

(* What a state file says of its own receipts; recover cannot put a job     *)
(* back to work, because the table lacks the move.                          *)
Receipted(c) ==
    /\ c.status # "working"
    /\ c.status = "assigned" => c.applyTx = "finalized"
    /\ c.status \in {"completion_pending_review", "submitted"} => c.packaged
    /\ c.status = "submitted" => c.completionTx = "finalized"

Delivered(j) == "deliverable" \in files[j] \/ "bundle" \in files[j]

(* Besides the jobs past execution: those a stage or a tool has in hand that *)
(* it found past execution.                                                  *)
SaidDelivered(j) ==
    \/ job[j].status \in PastExecution
    \/ agent.stage = "reconcile" /\ j \in agent.todo
    \/ agent.stage = "submit" /\ agent.at = "record" /\ agent.cur = j
    \/ agent.stage = "validate" /\ agent.at \in {"defer", "accept"} /\ agent.cur = j
    \/ tool.name = "package" /\ tool.job = j

Published(j) ==
    /\ job[j].status = "storage_verified" => "bundle" \in files[j]
    /\ job[j].status = "completion_package_ready" => {"bundle", "bundlePublished", "package"} \subseteq files[j]
    /\ tool.name = "package" /\ tool.job = j => {"bundle", "bundlePublished"} \subseteq files[j]
    /\ tool.name = "stage" /\ tool.job = j => job[j].status # "completion_package_ready"

Evidence ==
    \A j \in Jobs : Receipted(job[j]) /\ (SaidDelivered(j) => Delivered(j)) /\ Published(j)

ToolStatus == {"storage_pending", "storage_verified", "completion_package_ready", "apply_ready"}

(* What the agent's work does to a job's evidence. *)
Proceeds(j) ==
    /\ files[j] \ {"verified", "unheeded"} \subseteq files'[j]
    /\ job'[j].status \in ToolStatus => job'[j].status = job[j].status
    /\ Receipted(job'[j])
    /\ SaidDelivered(j)' => SaidDelivered(j) \/ Delivered(j)'

LEMMA CellOfSet ==
    ASSUME TypeOK, NEW j \in Jobs, NEW new \in JobState, Set(j, new)
    PROVE  (job'[j] = new /\ Admits(j, new.status)) \/ job'[j] = job[j]
BY Sets DEF TypeOK

LEMMA CellOfFail ==
    ASSUME TypeOK, NEW j \in Jobs, Fail(j)
    PROVE  job'[j] = [job[j] EXCEPT !.status = "failed"] \/ job'[j] = job[j]
BY Fails DEF TypeOK

LEMMA CellOfSetOrFail ==
    ASSUME TypeOK, NEW j \in Jobs, NEW new \in JobState, SetOrFail(j, new)
    PROVE  \/ job'[j] = new /\ Admits(j, new.status)
           \/ job'[j] = [job[j] EXCEPT !.status = "failed"]
           \/ job'[j] = job[j]
BY SetsOrFails DEF TypeOK

(* A cell that only changed its status to one nobody has to vouch for.      *)
LEMMA PlainStatus ==
    ASSUME TypeOK, NEW j \in Jobs, Receipted(job[j]),
           NEW s \in {"failed", "scored", "review_pending", "application_pending_review", "assignment_pending"},
           job'[j] = [job[j] EXCEPT !.status = s] \/ job'[j] = job[j]
    PROVE  /\ Receipted(job'[j])
           /\ job'[j].status \in PastExecution => job'[j].status = job[j].status
           /\ job'[j].status \in ToolStatus => job'[j].status = job[j].status
<1>1. job[j] \in JobState BY DEF TypeOK
<1>2. CASE job'[j] = job[j] BY <1>2
<1>3. CASE job'[j] = [job[j] EXCEPT !.status = s]
  <2>1. job'[j].status = s BY <1>1, <1>3 DEF JobState
  <2> QED BY <2>1 DEF Receipted, PastExecution, ToolStatus
<1> QED BY <1>2, <1>3

(* A job put down is said to be delivered by its status alone. *)
LEMMA PutDownSays ==
    ASSUME NEW j \in Jobs, PutDown(j), UNCHANGED tool
    PROVE  SaidDelivered(j)' => job'[j].status \in PastExecution \/ SaidDelivered(j)
BY JobsAssumption DEF PutDown, SaidDelivered

LEMMA TakenUpSays ==
    ASSUME NEW j \in Jobs, NEW place \in Hands, TakenUp(j, place), UNCHANGED tool
    PROVE  SaidDelivered(j)' =>
              \/ job'[j].status \in PastExecution \/ SaidDelivered(j)
              \/ agent.stage = "submit" /\ place = "record"
              \/ agent.stage = "validate" /\ place \in {"defer", "accept"}
BY DEF TakenUp, SaidDelivered

LEMMA WorkProceeds ==
    ASSUME TypeOK, Desk, NEW j \in Jobs, Receipted(job[j]), WorksOn(j)
    PROVE  Proceeds(j)
<1> DEFINE c == job[j]
           d == job'[j]
           Goes == /\ files[j] \ {"verified", "unheeded"} \subseteq files'[j]
                   /\ d.status \in ToolStatus => d.status = c.status
                   /\ Receipted(d)
                   /\ d.status \in PastExecution => SaidDelivered(j) \/ Delivered(j)'
                   /\ \A place \in {"record", "defer", "accept"} : TakenUp(j, place) =>
                         SaidDelivered(j) \/ Delivered(j)'
<1>1. /\ c \in JobState /\ files[j] \in SUBSET Artifact /\ agent \in Agent
      /\ job \in [Jobs -> JobState] /\ files \in [Jobs -> SUBSET Artifact]
  BY DEF TypeOK
<1>2. Turn(j) /\ UNCHANGED tool BY WorkIsTurn DEF Turn
<1>3. SUFFICES Goes
  BY <1>2, PutDownSays, TakenUpSays DEF Proceeds, Turn
<1>4. c.status \in PastExecution => SaidDelivered(j) BY DEF SaidDelivered
<1>5. PutDown(j) => \A place : ~TakenUp(j, place)
  BY JobsAssumption DEF PutDown, TakenUp
<1>6. \A p, q : TakenUp(j, p) /\ TakenUp(j, q) => p = q BY DEF TakenUp
(* What changes only the status, to one that nobody vouches for. *)
<1>7. ASSUME NEW s \in {"failed", "scored", "review_pending", "application_pending_review", "assignment_pending"},
             d = [c EXCEPT !.status = s] \/ d = c,
             files[j] \ {"verified", "unheeded"} \subseteq files'[j],
             PutDown(j)
      PROVE  Goes
  BY <1>4, <1>5, <1>7, PlainStatus
<1>8. CASE Recover(j)
  <2>1. files' = files /\ Set(j, [c EXCEPT !.status = Recovered(j)])
    BY <1>8 DEF Recover
  <2>2. Recovered(j) = c.status \/ (c.status = "deliverable_ready" /\ Recovered(j) = "working")
          \/ (c.status = "completion_pending_review" /\ Recovered(j) = "deliverable_ready")
    BY DEF Recovered, Receipted
  <2>3. [c EXCEPT !.status = Recovered(j)] \in JobState
    BY <1>1, <2>2, NewCells DEF Statuses, Status
  <2>4. [c EXCEPT !.status = Recovered(j)].status = Recovered(j) BY <1>1 DEF JobState
  <2>5. d = c \/ (d = [c EXCEPT !.status = Recovered(j)] /\ Admits(j, Recovered(j)))
    BY <2>1, <2>3, <2>4, CellOfSet
  <2>6. d = c \/ (c.status = "completion_pending_review" /\ d = [c EXCEPT !.status = "deliverable_ready"])
    <3>1. Recovered(j) = c.status => [c EXCEPT !.status = Recovered(j)] = c BY <1>1 DEF JobState
    <3>2. c.status = "deliverable_ready" => ~Admits(j, "working") BY TableFacts DEF Admits
    <3> QED BY <2>2, <2>5, <3>1, <3>2
  <2>7. PutDown(j) BY <2>1, <2>3, Sets
  <2>8. CASE d = c BY <1>4, <1>5, <2>1, <2>7, <2>8
  <2>9. CASE c.status = "completion_pending_review" /\ d = [c EXCEPT !.status = "deliverable_ready"]
    <3>1. d.status = "deliverable_ready" BY <1>1, <2>9 DEF JobState
    <3>2. SaidDelivered(j) BY <2>9 DEF SaidDelivered, PastExecution
    <3> QED BY <1>5, <2>1, <2>7, <3>1, <3>2 DEF Receipted, ToolStatus
  <2> QED BY <2>6, <2>8, <2>9
<1>9. CASE Discover(j)
  <2>1. files' = files BY <1>9 DEF Discover
  <2>2. CASE DiscoverNothing(j) \/ DiscoverAssigned(j)
    <3>1. d = c /\ (DoneWith(j) \/ Aborted)
      BY <2>2, TableFacts DEF DiscoverNothing, DiscoverAssigned, Skip
    <3>2. PutDown(j) BY <1>1, <3>1, PutsDown
    <3> QED BY <1>4, <1>5, <2>1, <3>1, <3>2
  <2>3. CASE DiscoverOpen(j)
    <3>1. d = EmptyJob("queued") /\ GoOn(j, "review") BY <1>1, <2>3 DEF DiscoverOpen
    <3>2. TakenUp(j, "review") BY <1>1, <3>1, TakesUp DEF Hands
    <3>3. d.status = "queued" BY <3>1 DEF EmptyJob
    <3> QED BY <1>6, <2>1, <3>2, <3>3 DEF Receipted, PastExecution, ToolStatus
  <2> QED BY <1>9, <2>2, <2>3 DEF Discover
<1>10. CASE Review(j)
  <2>1. [c EXCEPT !.status = "review_pending"] \in JobState BY <1>1, NewCells DEF Statuses, Status
  <2>2. Set(j, [c EXCEPT !.status = "review_pending"]) BY <1>10 DEF Review
  <2>3. files[j] \ {"verified", "unheeded"} \subseteq files'[j] BY <1>1, <1>10 DEF Review
  <2> QED BY <1>7, <2>1, <2>2, <2>3, CellOfSet, Sets
<1>11. CASE Evaluate(j)
  <2>1. PICK s \in {"scored", "failed"} : Set(j, [c EXCEPT !.status = s]) BY <1>11 DEF Evaluate
  <2>2. [c EXCEPT !.status = s] \in JobState BY <1>1, NewCells DEF Statuses, Status, Terminal
  <2>3. files' = files BY <1>11 DEF Evaluate
  <2> QED BY <1>7, <2>1, <2>2, <2>3, CellOfSet, Sets
<1>12. CASE Apply(j)
  <2>1. d = c \/ d = [c EXCEPT !.status = "application_pending_review"]
    BY <1>1, <1>12 DEF Apply
  <2>2. files[j] \ {"verified", "unheeded"} \subseteq files'[j] BY <1>1, <1>12 DEF Apply
  <2>3. agent'.cur # j
    <3>1. agent.cur = None BY <1>12 DEF Apply, Picks, Desk
    <3> QED BY <1>1, <1>12, <3>1, JobsAssumption, PutsDown DEF Apply, PutDown, Agent
  <2>4. \A place : ~TakenUp(j, place) BY <2>3 DEF TakenUp
  <2>5. /\ Receipted(d) /\ (d.status \in PastExecution => d.status = c.status)
        /\ d.status \in ToolStatus => d.status = c.status
    BY <2>1, PlainStatus
  <2> QED BY <1>4, <2>2, <2>4, <2>5
<1>13. CASE Confirm(j)
  <2>1. files' = files BY <1>13 DEF Confirm
  <2>2. CASE Skip(j) \/ (Aborted /\ job' = job)
    <3>1. d = c /\ PutDown(j) BY <1>1, <2>2, PutsDown DEF Skip
    <3> QED BY <1>4, <1>5, <2>1, <3>1
  <2>3. CASE Set(j, [c EXCEPT !.status = "assignment_pending"])
    <3>1. [c EXCEPT !.status = "assignment_pending"] \in JobState BY <1>1, NewCells DEF Statuses, Status
    <3> QED BY <1>7, <2>1, <2>3, <3>1, CellOfSet, Sets
  <2>4. CASE Set(j, [c EXCEPT !.status = "assigned", !.applyTx = "finalized"])
    <3>1. [c EXCEPT !.status = "assigned", !.applyTx = "finalized"] \in JobState
      BY <1>1, NewCells DEF Statuses, Status, Tx
    <3>2. (d = [c EXCEPT !.status = "assigned", !.applyTx = "finalized"] \/ d = c) /\ PutDown(j)
      BY <2>4, <3>1, CellOfSet, Sets
    <3>3. CASE d = c BY <1>4, <1>5, <2>1, <3>2, <3>3
    <3>4. CASE d = [c EXCEPT !.status = "assigned", !.applyTx = "finalized"]
      <4>1. d.status = "assigned" /\ d.applyTx = "finalized" BY <1>1, <3>4 DEF JobState
      <4> QED BY <1>5, <2>1, <3>2, <4>1 DEF Receipted, PastExecution, ToolStatus
    <3> QED BY <3>2, <3>3, <3>4
  <2>5. CASE Fail(j)
    BY <1>7, <2>1, <2>5, CellOfFail, Fails
  <2> QED BY <1>13, <2>2, <2>3, <2>4, <2>5 DEF Confirm
<1>14. CASE ExecuteClaim(j)
  <2>1. files' = files BY <1>14 DEF ExecuteClaim
  <2>2. CASE Skip(j)
    <3>1. d = c /\ PutDown(j) BY <1>1, <2>2, PutsDown DEF Skip
    <3> QED BY <1>4, <1>5, <2>1, <3>1
  <2>3. CASE job' = [job EXCEPT ![j].executeClaim = "agent"] /\ GoOn(j, "call")
    <3>1. d = [c EXCEPT !.executeClaim = "agent"] /\ TakenUp(j, "call")
      BY <1>1, <2>3, TakesUp DEF Hands
    <3>2. d.status = c.status /\ d.applyTx = c.applyTx /\ d.completionTx = c.completionTx
          /\ d.packaged = c.packaged
      BY <1>1, <3>1 DEF JobState
    <3> QED BY <1>4, <1>6, <2>1, <3>1, <3>2 DEF Receipted
  <2> QED BY <1>14, <2>2, <2>3 DEF ExecuteClaim
<1>15. CASE ExecuteCall(j)
  <2>1. files[j] \ {"verified", "unheeded"} \subseteq files'[j] BY <1>1, <1>15 DEF ExecuteCall
  <2>2. CASE Fail(j) BY <1>7, <2>1, <2>2, CellOfFail, Fails
  <2>3. CASE job' = job /\ GoOn(j, "deliver")
    <3>1. d = c /\ TakenUp(j, "deliver") BY <1>1, <2>3, TakesUp DEF Hands
    <3> QED BY <1>4, <1>6, <2>1, <3>1
  <2> QED BY <1>15, <2>2, <2>3 DEF ExecuteCall
<1>16. CASE ExecuteDeliver(j)
  <2> DEFINE new == [c EXCEPT !.status = "deliverable_ready", !.exec = TRUE]
  <2>1. files[j] \ {"verified", "unheeded"} \subseteq files'[j] /\ Delivered(j)'
    BY <1>1, <1>16 DEF ExecuteDeliver, Delivered
  <2>2. new \in JobState
    <3>1. "deliverable_ready" \in Statuses BY DEF Statuses, Status
    <3> QED BY <1>1, <3>1, NewCells
  <2>3. SetOrFail(j, new) BY <1>16 DEF ExecuteDeliver
  <2>4. PutDown(j) /\ (d = new \/ d = [c EXCEPT !.status = "failed"] \/ d = c)
    BY <2>2, <2>3, CellOfSetOrFail, SetsOrFails
  <2>5. CASE d = new
    <3>1. d.status = "deliverable_ready" BY <1>1, <2>5 DEF JobState
    <3> QED BY <1>5, <2>1, <2>4, <3>1 DEF Receipted, ToolStatus
  <2>6. CASE d = [c EXCEPT !.status = "failed"] \/ d = c BY <1>7, <2>1, <2>4, <2>6
  <2> QED BY <2>4, <2>5, <2>6
<1>17. CASE ValidateClaim(j)
  <2>1. files' = files BY <1>17 DEF ValidateClaim
  <2>2. CASE Skip(j)
    <3>1. d = c /\ PutDown(j) BY <1>1, <2>2, PutsDown DEF Skip
    <3> QED BY <1>4, <1>5, <2>1, <3>1
  <2>3. CASE job' = [job EXCEPT ![j].validateClaim = {KeyOfValidate(j)}] /\ GoOn(j, "call")
    <3>1. d = [c EXCEPT !.validateClaim = {KeyOfValidate(j)}] /\ TakenUp(j, "call")
      BY <1>1, <2>3, TakesUp DEF Hands
    <3>2. d.status = c.status /\ d.applyTx = c.applyTx /\ d.completionTx = c.completionTx
          /\ d.packaged = c.packaged
      BY <1>1, <3>1 DEF JobState
    <3> QED BY <1>4, <1>6, <2>1, <3>1, <3>2 DEF Receipted
  <2> QED BY <1>17, <2>2, <2>3 DEF ValidateClaim
<1>18. CASE ValidateCall(j)
  <2>1. CASE UNCHANGED <<job, files>> /\ GoOn(j, "verify")
    <3>1. d = c /\ TakenUp(j, "verify") BY <1>1, <2>1, TakesUp DEF Hands
    <3> QED BY <1>4, <1>6, <2>1, <3>1
  <2>2. CASE files' = files /\ Fail(j) BY <1>7, <2>2, CellOfFail, Fails
  <2>3. CASE job' = job /\ ReportsAgainst(j) /\ "deliverable" \in files[j] /\ GoOn(j, "defer")
    <3>1. d = c /\ TakenUp(j, "defer") BY <1>1, <2>3, TakesUp DEF Hands
    <3>2. files[j] \ {"verified", "unheeded"} \subseteq files'[j] /\ Delivered(j)'
      BY <1>1, <2>3 DEF ReportsAgainst, Delivered
    <3> QED BY <1>4, <1>6, <3>1, <3>2
  <2>4. CASE /\ files' = files
             /\ job' = [job EXCEPT ![j].published = TRUE] /\ GoOn(j, "verify")
    <3>1. d = [c EXCEPT !.published = TRUE] /\ TakenUp(j, "verify")
      BY <1>1, <2>4, TakesUp DEF Hands
    <3>2. d.status = c.status /\ d.applyTx = c.applyTx /\ d.completionTx = c.completionTx
          /\ d.packaged = c.packaged
      BY <1>1, <3>1 DEF JobState
    <3> QED BY <1>4, <1>6, <2>4, <3>1, <3>2 DEF Receipted
  <2> QED BY <1>18, <2>1, <2>2, <2>3, <2>4 DEF ValidateCall
<1>19. CASE ValidateVerify(j)
  <2>1. files[j] \ {"verified", "unheeded"} \subseteq files'[j]
    BY <1>1, <1>19 DEF ValidateVerify, ReportsAgainst
  <2>2. CASE Fail(j) BY <1>7, <2>1, <2>2, CellOfFail, Fails
  <2>3. CASE job' = job /\ "deliverable" \in files[j] /\ (GoOn(j, "refuse") \/ GoOn(j, "accept"))
    <3>1. d = c /\ (TakenUp(j, "refuse") \/ TakenUp(j, "accept")) BY <1>1, <2>3, TakesUp DEF Hands
    <3>2. Delivered(j)' BY <1>1, <2>1, <2>3 DEF Delivered
    <3> QED BY <1>4, <1>6, <2>1, <3>1, <3>2
  <2> QED BY <1>19, <2>2, <2>3 DEF ValidateVerify
(* The status follows the report. *)
<1>24. ASSUME SaidDelivered(j), files[j] \ {"verified", "unheeded"} \subseteq files'[j],
              NEW s \in {"publication_pending", "deliverable_ready"},
              SetOrFail(j, [c EXCEPT !.status = s, !.reported = TRUE])
       PROVE  Goes
  <2> DEFINE new == [c EXCEPT !.status = s, !.reported = TRUE]
  <2>1. new \in JobState /\ new.status = s
    <3>1. s \in Statuses BY DEF Statuses, Status
    <3>2. new \in JobState BY <1>1, <3>1, NewCells
    <3> QED BY <1>1, <3>2 DEF JobState
  <2>2. PutDown(j) /\ (d = new \/ d = [c EXCEPT !.status = "failed"] \/ d = c)
    BY <1>24, <2>1, CellOfSetOrFail, SetsOrFails
  <2>3. CASE d = new
    BY <1>5, <1>24, <2>1, <2>2, <2>3 DEF Receipted, ToolStatus
  <2>4. CASE d = [c EXCEPT !.status = "failed"] \/ d = c BY <1>7, <1>24, <2>2, <2>4
  <2> QED BY <2>2, <2>3, <2>4
<1>25. CASE ValidateDefer(j)
  <2>1. SaidDelivered(j) BY <1>25 DEF ValidateDefer, At, SaidDelivered
  <2>2. files[j] \ {"verified", "unheeded"} \subseteq files'[j] BY <1>1, <1>25 DEF ValidateDefer
  <2> QED BY <1>24, <1>25, <2>1, <2>2 DEF ValidateDefer
<1>26. CASE ValidateRefuse(j)
  <2> DEFINE new == [c EXCEPT !.status = "failed", !.reported = TRUE]
  <2>1. files[j] \ {"verified", "unheeded"} \subseteq files'[j] /\ Set(j, new)
    BY <1>1, <1>26 DEF ValidateRefuse
  <2>2. new \in JobState /\ new.status = "failed"
    <3>1. "failed" \in Statuses BY DEF Statuses, Status, Terminal
    <3>2. new \in JobState BY <1>1, <3>1, NewCells
    <3> QED BY <1>1, <3>2 DEF JobState
  <2>3. PutDown(j) /\ (d = new \/ d = c) BY <2>1, <2>2, CellOfSet, Sets
  <2>4. CASE d = new
    BY <1>5, <2>1, <2>2, <2>3, <2>4 DEF Receipted, ToolStatus, PastExecution
  <2>5. CASE d = c BY <1>7, <2>1, <2>3, <2>5
  <2> QED BY <2>3, <2>4, <2>5
<1>27. CASE ValidateAccept(j)
  <2>1. SaidDelivered(j) BY <1>27 DEF ValidateAccept, At, SaidDelivered
  <2>2. files' = files BY <1>27 DEF ValidateAccept
  <2> QED BY <1>24, <1>27, <2>1, <2>2 DEF ValidateAccept
<1>20. CASE SubmitClaim(j)
  <2>1. files' = files BY <1>20 DEF SubmitClaim
  <2>2. CASE Skip(j)
    <3>1. d = c /\ PutDown(j) BY <1>1, <2>2, PutsDown DEF Skip
    <3> QED BY <1>4, <1>5, <2>1, <3>1
  <2>3. CASE job' = [job EXCEPT ![j].submitClaim = {KeyOfSubmit(j)}] /\ GoOn(j, "package")
    <3>1. d = [c EXCEPT !.submitClaim = {KeyOfSubmit(j)}] /\ TakenUp(j, "package")
      BY <1>1, <2>3, TakesUp DEF Hands
    <3>2. d.status = c.status /\ d.applyTx = c.applyTx /\ d.completionTx = c.completionTx
          /\ d.packaged = c.packaged
      BY <1>1, <3>1 DEF JobState
    <3> QED BY <1>4, <1>6, <2>1, <3>1, <3>2 DEF Receipted
  <2> QED BY <1>20, <2>2, <2>3 DEF SubmitClaim
<1>21. CASE SubmitPackage(j)
  <2>1. files[j] \ {"verified", "unheeded"} \subseteq files'[j] BY <1>1, <1>21 DEF SubmitPackage
  <2>2. CASE Fail(j) BY <1>7, <2>1, <2>2, CellOfFail, Fails
  <2>3. CASE BundleReady(j) /\ job' = job /\ GoOn(j, "record")
    <3>1. d = c /\ TakenUp(j, "record") BY <1>1, <2>3, TakesUp DEF Hands
    <3>2. Delivered(j)' BY <2>1, <2>3 DEF Delivered, BundleReady
    <3> QED BY <1>4, <2>1, <3>1, <3>2
  <2> QED BY <1>21, <2>2, <2>3 DEF SubmitPackage
<1>22. CASE SubmitRecord(j)
  <2> DEFINE new == [c EXCEPT !.status = "completion_pending_review", !.packaged = TRUE]
  <2>1. files' = files /\ SetOrFail(j, new) BY <1>22 DEF SubmitRecord
  <2>2. SaidDelivered(j) BY <1>22 DEF SubmitRecord, At, SaidDelivered
  <2>3. new \in JobState
    <3>1. "completion_pending_review" \in Statuses BY DEF Statuses, Status
    <3> QED BY <1>1, <3>1, NewCells
  <2>4. PutDown(j) /\ (d = new \/ d = [c EXCEPT !.status = "failed"] \/ d = c)
    BY <2>1, <2>3, CellOfSetOrFail, SetsOrFails
  <2>5. CASE d = new
    <3>1. d.status = "completion_pending_review" /\ d.packaged BY <1>1, <2>5 DEF JobState
    <3> QED BY <1>5, <2>1, <2>2, <2>4, <3>1 DEF Receipted, ToolStatus
  <2>6. CASE d = [c EXCEPT !.status = "failed"] \/ d = c BY <1>7, <2>1, <2>4, <2>6
  <2> QED BY <2>4, <2>5, <2>6
<1>23. CASE Reconcile(j)
  <2>1. files' = files /\ SaidDelivered(j) BY <1>23 DEF Reconcile, Picks, SaidDelivered
  <2>2. CASE Skip(j)
    <3>1. d = c /\ PutDown(j) BY <1>1, <2>2, PutsDown DEF Skip
    <3> QED BY <1>4, <1>5, <2>1, <3>1
  <2>3. CASE Reconciled(j, "failed", c)
    <3>1. PutDown(j) BY <1>1, <2>3, PutsDown DEF Reconciled
    <3>2. d = [c EXCEPT !.status = "failed"] \/ d = [c EXCEPT !.status = c.status]
      BY <1>1, <2>3 DEF Reconciled
    <3>3. [c EXCEPT !.status = c.status] = c BY <1>1 DEF JobState
    <3> QED BY <1>7, <2>1, <3>1, <3>2, <3>3
  <2>4. ASSUME NEW status \in {"submitted", "completed"},
               Reconciled(j, status, [c EXCEPT !.completionTx = "finalized"])
        PROVE  Goes
    <3> DEFINE new == [c EXCEPT !.completionTx = "finalized"]
    <3>1. PutDown(j) BY <1>1, <2>4, PutsDown DEF Reconciled
    <3>2. new \in JobState
      <4>1. "assigned" \in Statuses /\ "finalized" \in Tx BY DEF Statuses, Status, Tx
      <4> QED BY <1>1, <4>1, NewCells
    <3>3. d = [new EXCEPT !.status = IF Admits(j, status) THEN status ELSE new.status]
      BY <1>1, <2>4 DEF Reconciled
    <3>4. /\ d.status = IF Admits(j, status) THEN status ELSE c.status
          /\ d.completionTx = "finalized" /\ d.applyTx = c.applyTx /\ d.packaged = c.packaged
      BY <1>1, <3>3 DEF JobState
    <3>5. d.status = c.status \/ d.status = "completed"
            \/ (d.status = "submitted" /\ c.status = "completion_pending_review")
      BY <3>4, TableFacts DEF Admits
    <3>6. Receipted(d) BY <3>4, <3>5 DEF Receipted
    <3>7. d.status \in ToolStatus => d.status = c.status BY <3>5 DEF ToolStatus
    <3> QED BY <1>5, <2>1, <3>1, <3>6, <3>7
  <2> QED BY <1>23, <2>2, <2>3, <2>4 DEF Reconcile
<1> QED BY <1>8, <1>9, <1>10, <1>11, <1>12, <1>13, <1>14, <1>15, <1>16, <1>17, <1>18, <1>19,
           <1>20, <1>21, <1>22, <1>23, <1>25, <1>26, <1>27 DEF WorksOn

(* What a stage has listed is what its list is for. *)
LEMMA PacesList ==
    ASSUME TypeOK, Desk, Paces
    PROVE  \/ agent'.todo = {}
           \/ /\ agent.stage # "down" /\ agent'.stage = agent.stage
              /\ agent'.todo = Listed(agent.stage)
<1>1. agent \in Agent BY DEF TypeOK
<1>2. CASE Start BY <1>2 DEF Start, Down
<1>3. CASE Crash BY <1>3 DEF Crash, Down
<1>4. CASE List BY <1>1, <1>4 DEF List, Aborted, Down, Agent
<1>5. CASE EndStage BY <1>1, <1>5 DEF EndStage, Agent
<1> QED BY <1>2, <1>3, <1>4, <1>5 DEF Paces

LEMMA PacesKeepEvidence == ASSUME TypeOK, Desk, Evidence, Paces PROVE Evidence'
<1>1. /\ UNCHANGED <<job, files, tool>> /\ agent'.at \in {"list", "pick"}
  BY PacesKeepTypes
<1>2. ASSUME NEW j \in Jobs, agent'.stage = "reconcile", j \in agent'.todo
      PROVE  job[j].status \in PastExecution
  <2>1. agent'.todo = Listed(agent.stage) /\ agent.stage = "reconcile" BY <1>2, PacesList
  <2> QED BY <1>2, <2>1 DEF Listed, Taken, PastExecution
<1>3. \A j \in Jobs : SaidDelivered(j)' => SaidDelivered(j)
  BY <1>1, <1>2 DEF SaidDelivered
<1> QED BY <1>1, <1>3 DEF Evidence, Published, Delivered

LEMMA WorkKeepsEvidence ==
    ASSUME TypeOK, Desk, Evidence, NEW j \in Jobs, WorksOn(j) PROVE Evidence'
<1>1. Turn(j) BY WorkIsTurn
<1>2. Proceeds(j) /\ UNCHANGED tool BY <1>1, WorkProceeds DEF Evidence, Turn
<1>3. ASSUME NEW k \in Jobs, k # j
      PROVE  Receipted(job'[k]) /\ (SaidDelivered(k)' => Delivered(k)') /\ Published(k)'
  <2>1. job'[k] = job[k] /\ files'[k] = files[k] BY <1>1, <1>3 DEF Turn
  <2>2. SaidDelivered(k)' => SaidDelivered(k)
    BY <1>1, <1>2, <1>3, <2>1, JobsAssumption DEF Turn, PutDown, TakenUp, SaidDelivered
  <2> QED BY <1>2, <1>3, <2>1, <2>2 DEF Evidence, Delivered, Published
<1>4. Delivered(j) => Delivered(j)' BY <1>2 DEF Proceeds, Delivered
<1>5. SaidDelivered(j)' => Delivered(j)' BY <1>2, <1>4 DEF Evidence, Proceeds
<1>6. Published(j)' BY <1>2 DEF Evidence, Published, Proceeds, ToolStatus
<1> QED BY <1>2, <1>3, <1>5, <1>6 DEF Evidence, Proceeds

LEMMA ToolsKeepEvidence ==
    ASSUME TypeOK, Desk, Evidence, NEW j \in Jobs, UseTool(j) PROVE Evidence'
<1> DEFINE c == job[j]
           d == job'[j]
<1>1. /\ c \in JobState /\ files[j] \in SUBSET Artifact
      /\ job \in [Jobs -> JobState] /\ files \in [Jobs -> SUBSET Artifact]
  BY DEF TypeOK
<1>2. Handled(j) /\ UNCHANGED agent BY ToolHandles DEF Handled
<1>3. tool' = tool \/ tool'.job = j \/ tool' = Idle
  BY DEF UseTool, Approve, BeginExecute, BeginPackage, BeginStage, EndExecute, EndStageTool,
         EndPackage, Runs, Finishes
<1>4. ASSUME NEW k \in Jobs, k # j
      PROVE  Receipted(job'[k]) /\ (SaidDelivered(k)' => Delivered(k)') /\ Published(k)'
  <2>1. job'[k] = job[k] /\ files'[k] = files[k] BY <1>2, <1>4 DEF Handled
  <2>2. tool'.job = k => tool' = tool
    BY <1>3, <1>4, JobsAssumption DEF Idle
  <2> QED BY <1>2, <1>4, <2>1, <2>2 DEF Evidence, Delivered, SaidDelivered, Published
<1>5. Receipted(c) /\ (SaidDelivered(j) => Delivered(j)) /\ Published(j) BY DEF Evidence
<1>6. SUFFICES Receipted(d) /\ (SaidDelivered(j)' => Delivered(j)') /\ Published(j)'
  BY <1>4 DEF Evidence
<1>7. CASE Approve(j)
  <2>1. d = [c EXCEPT !.status = "apply_ready"] /\ files[j] \subseteq files'[j] /\ tool' = tool
    BY <1>1, <1>7 DEF Approve
  <2>2. d.status = "apply_ready" BY <1>1, <2>1 DEF JobState
  <2> QED BY <1>2, <1>5, <2>1, <2>2
          DEF Receipted, SaidDelivered, Delivered, Published, PastExecution
<1>8. ASSUME d.status = c.status, d.applyTx = c.applyTx, d.completionTx = c.completionTx,
             d.packaged = c.packaged, files' = files, tool'.name # "package",
             tool'.name = "stage" => c.status # "completion_package_ready"
      PROVE  Receipted(d) /\ (SaidDelivered(j)' => Delivered(j)') /\ Published(j)'
  BY <1>2, <1>5, <1>8 DEF Receipted, SaidDelivered, Delivered, Published
<1>9. ASSUME NEW force \in BOOLEAN, BeginExecute(j, force)
      PROVE  Receipted(d) /\ (SaidDelivered(j)' => Delivered(j)') /\ Published(j)'
  <2>1. d = c \/ d = [c EXCEPT !.executeClaim = "tool"] BY <1>1, <1>9 DEF BeginExecute
  <2>2. d.status = c.status /\ d.applyTx = c.applyTx /\ d.completionTx = c.completionTx
        /\ d.packaged = c.packaged
    BY <1>1, <2>1 DEF JobState
  <2>3. tool'.name = "execute" /\ files' = files BY <1>9 DEF BeginExecute, Runs
  <2> QED BY <1>8, <2>2, <2>3
<1>10. ASSUME NEW force \in BOOLEAN, NEW publish \in BOOLEAN, BeginStage(j, force, publish)
       PROVE  Receipted(d) /\ (SaidDelivered(j)' => Delivered(j)') /\ Published(j)'
  <2>1. d = c \/ d = [c EXCEPT !.storageClaim = TRUE] BY <1>1, <1>10 DEF BeginStage
  <2>2. d.status = c.status /\ d.applyTx = c.applyTx /\ d.completionTx = c.completionTx
        /\ d.packaged = c.packaged
    BY <1>1, <2>1 DEF JobState
  <2>3. tool'.name = "stage" /\ files' = files /\ c.status # "completion_package_ready"
    BY <1>10 DEF BeginStage, Runs
  <2> QED BY <1>8, <2>2, <2>3
<1>11. ASSUME NEW force \in BOOLEAN, BeginPackage(j, force)
       PROVE  Receipted(d) /\ (SaidDelivered(j)' => Delivered(j)') /\ Published(j)'
  <2>1. /\ d = c /\ files' = files /\ tool'.name = "package" /\ "bundlePublished" \in files[j]
        /\ c.status \in {"storage_verified", "completion_package_ready"}
    BY <1>11 DEF BeginPackage, Runs
  <2> QED BY <1>2, <1>5, <2>1 DEF SaidDelivered, PastExecution, Delivered, Published
<1>12. CASE EndExecute(j)
  <2>1. files[j] \subseteq files'[j] /\ "bundle" \in files'[j] /\ tool' = Idle
    BY <1>1, <1>12 DEF EndExecute, Finishes
  <2>2. \/ d = [c EXCEPT !.status = "deliverable_ready", !.uri = FALSE]
        \/ d = [c EXCEPT !.status = "failed"] \/ d = c
    BY <1>1, <1>12 DEF EndExecute, ToolSets
  <2>3. d = c \/ d.status \in {"deliverable_ready", "failed"} BY <1>1, <2>2 DEF JobState
  <2> QED BY <1>5, <2>1, <2>3 DEF Receipted, Delivered, Published, Idle
<1>13. CASE EndStageTool(j)
  <2>1. tool' = Idle /\ tool.name = "stage" /\ tool.job = j BY <1>13 DEF EndStageTool, Finishes
  <2>2. c.status # "completion_package_ready" BY <1>5, <2>1 DEF Published
  <2>3. CASE d = c /\ files[j] \ {"bundlePublished"} \subseteq files'[j]
    BY <1>2, <1>5, <2>1, <2>2, <2>3 DEF Receipted, SaidDelivered, Delivered, Published, Idle
  <2>4. CASE /\ "bundle" \in files[j] /\ files[j] \subseteq files'[j]
             /\ d.status \in {"storage_pending", "storage_verified"}
    BY <1>5, <2>1, <2>4 DEF Receipted, Delivered, Published, Idle
  <2>5. CASE UNCHANGED <<job, files>> BY <2>3, <2>5
  <2>6. CASE job' = job /\ files' = [files EXCEPT ![j] = @ \ {"bundlePublished"}]
    BY <1>1, <2>3, <2>6
  <2>7. CASE /\ "bundle" \in files[j] /\ files' = files
             /\ ToolSets(j, [c EXCEPT !.status = "storage_pending", !.uri = FALSE])
    <3>1. d = c \/ d = [c EXCEPT !.status = "storage_pending", !.uri = FALSE]
      BY <1>1, <2>7 DEF ToolSets
    <3>2. d = c \/ d.status = "storage_pending" BY <1>1, <3>1 DEF JobState
    <3> QED BY <2>3, <2>4, <2>7, <3>2
  <2>8. CASE /\ "bundle" \in files[j]
             /\ ToolSets(j, [c EXCEPT !.status = "storage_verified", !.uri = TRUE])
             /\ files' = [files EXCEPT ![j] = @ \cup {"bundlePublished"}]
    <3>1. d = c \/ d = [c EXCEPT !.status = "storage_verified", !.uri = TRUE]
      BY <1>1, <2>8 DEF ToolSets
    <3>2. d = c \/ d.status = "storage_verified" BY <1>1, <3>1 DEF JobState
    <3>3. files[j] \subseteq files'[j] BY <1>1, <2>8
    <3> QED BY <2>3, <2>4, <2>8, <3>2, <3>3
  <2> QED BY <1>13, <2>5, <2>6, <2>7, <2>8 DEF EndStageTool
<1>14. CASE EndPackage(j)
  <2>1. /\ files'[j] = files[j] \cup {"package"} /\ tool' = Idle
        /\ tool.name = "package" /\ tool.job = j
    BY <1>1, <1>14 DEF EndPackage, Finishes
  <2>2. d = c \/ d = [c EXCEPT !.status = "completion_package_ready"]
    BY <1>1, <1>14 DEF EndPackage, ToolSets
  <2>3. d = c \/ d.status = "completion_package_ready" BY <1>1, <2>2 DEF JobState
  <2> QED BY <1>5, <2>1, <2>3 DEF Receipted, SaidDelivered, Delivered, Published, Idle
<1> QED BY <1>7, <1>9, <1>10, <1>11, <1>12, <1>13, <1>14 DEF UseTool

LEMMA KilledKeepsEvidence == ASSUME TypeOK, Desk, Evidence, ToolKilled PROVE Evidence'
BY KilledAdds DEF Evidence, Delivered, SaidDelivered, Published, Idle

LEMMA OutsideKeepsEvidence ==
    ASSUME TypeOK, Desk, Evidence, NEW j \in Jobs, Outside(j) PROVE Evidence'
<1> DEFINE c == job[j]
           d == job'[j]
<1>1. /\ UNCHANGED <<files, agent, tool>> /\ \A k \in Jobs \ {j} : job'[k] = job[k]
  BY OutsideKeepsTypes
<1>2. c \in JobState /\ job \in [Jobs -> JobState] BY DEF TypeOK
<1>3. Receipted(c) /\ (SaidDelivered(j) => Delivered(j)) /\ Published(j) BY DEF Evidence
<1>4. CASE RecordTx(j)
  <2>1. \/ c.applyTx = "none" /\ d = [c EXCEPT !.applyTx = "submitted"]
        \/ c.completionTx = "none" /\ d = [c EXCEPT !.completionTx = "submitted"]
    BY <1>2, <1>4 DEF RecordTx
  <2>2. /\ d.status = c.status /\ d.packaged = c.packaged
        /\ d.applyTx = c.applyTx \/ c.applyTx = "none"
        /\ d.completionTx = c.completionTx \/ c.completionTx = "none"
    BY <1>2, <2>1 DEF JobState
  <2> QED BY <1>1, <1>3, <2>2 DEF Evidence, Receipted, Delivered, SaidDelivered, Published
<1>5. CASE RemoteMoves(j)
  BY <1>1, <1>5 DEF RemoteMoves, Evidence, Delivered, SaidDelivered, Published
<1>6. CASE Prune(j)
  <2>1. d = EmptyJob("absent") BY <1>2, <1>6 DEF Prune
  <2>2. d.status = "absent" BY <2>1 DEF EmptyJob
  <2> QED BY <1>1, <1>3, <2>2
          DEF Evidence, Receipted, Delivered, SaidDelivered, Published, PastExecution
<1> QED BY <1>4, <1>5, <1>6 DEF Outside

LEMMA EvidenceAtFirst == ASSUME Init PROVE Evidence
<1>1. \A j \in Jobs : job[j].status \in {"review_pending", "absent"} BY DEF Init, EmptyJob
<1>2. agent = Down /\ tool = Idle BY DEF Init
<1> QED BY <1>1, <1>2
        DEF Evidence, Receipted, Delivered, SaidDelivered, Published, PastExecution, Down, Idle

LEMMA EvidenceKept == ASSUME TypeOK, Desk, Evidence, [Next]_vars PROVE Evidence'
<1>1. CASE UNCHANGED vars
  BY <1>1 DEF vars, Evidence, Delivered, SaidDelivered, Published
<1> QED BY <1>1, KindsOfStep, PacesKeepEvidence, WorkKeepsEvidence, ToolsKeepEvidence,
           KilledKeepsEvidence, OutsideKeepsEvidence DEF TypeOK

(* A status past execution has something delivered on disk, whether the     *)
(* agent or run_execute_job set it (execute.js, run_execute_job.js).        *)
THEOREM ArtifactTheorem == Spec => []ArtifactFirst
<1>1. Evidence => ArtifactFirst BY DEF Evidence, SaidDelivered, Delivered, ArtifactFirst
<1> QED BY <1>1, TypesAtFirst, TypesKept, EvidenceAtFirst, EvidenceKept, PTL DEF Spec

(* A job counts as assigned, and as submitted, only with a finalized        *)
(* transaction of this operator bound to it (confirm.js,                    *)
(* reconcile-completion.js).                                                *)
THEOREM ReceiptTheorem == Spec => []FromReceipts
<1>1. Evidence => FromReceipts BY DEF Evidence, Receipted, FromReceipts
<1> QED BY <1>1, TypesAtFirst, TypesKept, EvidenceAtFirst, EvidenceKept, PTL DEF Spec

---------------------------------------------------------------------------
(* The jobs that only the agent works on *)

(* A package, and the report behind it. *)
Reported(F) == "verified" \in F \/ "unheeded" \in F

Backed(F) == {"manifest", "unsignedCompletion"} \subseteq F /\ Reported(F)

Waiting == {"completion_pending_review", "submitted", "completed"}

(* What such a job's state file says of its calls, its contract, its report *)
(* and its package.                                                         *)
Vouched(j) ==
    /\ calls[j] <= 1
    /\ calls[j] # 0 => /\ remote[j] # "open"
                       /\ job[j].executeClaim = "agent" \/ job[j].status = "absent"
    /\ job[j].status = "assigned" => remote[j] # "open"
    /\ job[j].reported =>
          job[j].status \in {"deliverable_ready", "publication_pending", "failed"} \cup Waiting
    /\ job[j].status = "deliverable_ready" /\ job[j].reported => Reported(files[j])
    /\ job[j].status \in Waiting => Backed(files[j])

(* The agent has a job in hand in the status in which its stage took it up: *)
(* nothing else moves it meanwhile.                                         *)
InHand(j) ==
    /\ agent.stage = "discover" /\ agent.at = "review" => job[j].status = "queued"
    /\ agent.stage = "execute" /\ agent.at \in {"call", "deliver"} =>
          job[j].status = "assigned" /\ job[j].executeClaim = "agent"
    /\ agent.stage = "execute" /\ agent.at = "call" => calls[j] = 0
    /\ agent.stage = "validate" /\ agent.at \in {"call", "verify", "defer", "refuse", "accept"} =>
          job[j].status \in Taken("validate")
    /\ agent.stage = "validate" /\ agent.at = "accept" => "verified" \in files[j]
    /\ agent.stage = "submit" /\ agent.at \in {"package", "record"} =>
          job[j].status = "deliverable_ready"
    /\ agent.stage = "submit" /\ agent.at = "record" => Backed(files[j])

InPlace(j) ==
    /\ j \in agent.todo /\ agent.cur # j =>
          agent.stage = "discover" \/ job[j].status \in Taken(agent.stage)
    /\ agent.cur = j => InHand(j)

Own == \A j \in Jobs \ byHand : Vouched(j) /\ InPlace(j)

(* No move of a job that has ended. *)
Ends(j) == job[j].status \in Terminal => job'[j].status \in {job[j].status, "absent"}

OwnMove(j) ==
    /\ Vouched(j)' /\ Ends(j)
    /\ \A place \in Hands : TakenUp(j, place) => InHand(j)'

LEMMA OwnWork ==
    ASSUME TypeOK, Desk, NEW j \in Jobs, Receipted(job[j]), Vouched(j), InPlace(j), WorksOn(j)
    PROVE  OwnMove(j)
<1> DEFINE c == job[j]
           d == job'[j]
           F == files'[j]
<1>1. /\ c \in JobState /\ files[j] \in SUBSET Artifact /\ agent \in Agent
      /\ job \in [Jobs -> JobState] /\ files \in [Jobs -> SUBSET Artifact]
      /\ calls \in [Jobs -> 0..MaxCalls]
  BY DEF TypeOK
<1>2. Turn(j) /\ remote' = remote BY WorkIsTurn DEF Turn
<1>3. ASSUME NEW stage \in Pipeline, Picks(stage, j)
      PROVE  stage = "discover" \/ c.status \in Taken(stage)
  <2>1. agent.cur # j BY <1>3, JobsAssumption DEF Picks, Desk
  <2> QED BY <1>3, <2>1 DEF Picks, InPlace
<1>4. PutDown(j) => \A place \in Hands : ~TakenUp(j, place)
  BY JobsAssumption DEF PutDown, TakenUp
<1>5. \A p, q : TakenUp(j, p) /\ TakenUp(j, q) => p = q BY DEF TakenUp
<1>6. ASSUME agent.cur = j PROVE InHand(j) BY <1>6 DEF InPlace
(* A job left as it was, or failed. *)
<1>7. ASSUME d = c, PutDown(j), files[j] \subseteq F, calls' = calls
      PROVE  OwnMove(j)
  BY <1>2, <1>4, <1>7 DEF OwnMove, Vouched, Ends, Backed, Reported
<1>8. ASSUME NEW s \in {"failed", "scored", "review_pending", "application_pending_review",
                        "assignment_pending"},
             d = [c EXCEPT !.status = s], ~PutDown(j) => agent'.cur # j,
             c.status \notin Terminal, s = "failed" \/ ~c.reported,
             calls' = calls, c.status # "absent"
      PROVE  OwnMove(j)
  <2>1. d.status = s /\ d.executeClaim = c.executeClaim /\ d.reported = c.reported
    BY <1>1, <1>8 DEF JobState
  <2>2. \A place \in Hands : ~TakenUp(j, place) BY <1>4, <1>8 DEF TakenUp
  <2> QED BY <1>2, <1>8, <2>1, <2>2 DEF OwnMove, Vouched, Ends, Waiting
<1>9. ASSUME Fail(j), c.status \notin Terminal, c.status # "absent", calls' = calls,
             files[j] \subseteq F \/ Admits(j, "failed")
      PROVE  OwnMove(j)
  <2>1. PutDown(j) /\ (d = [c EXCEPT !.status = "failed"] \/ (d = c /\ ~Admits(j, "failed")))
    BY <1>1, <1>9, Fails
  <2> QED BY <1>7, <1>8, <1>9, <2>1
<1>10. CASE Recover(j)
  <2>1. files' = files /\ calls' = calls /\ Set(j, [c EXCEPT !.status = Recovered(j)])
        /\ c.status \in Taken("recover")
    BY <1>3, <1>10 DEF Recover, Pipeline
  <2>2. Recovered(j) = c.status \/ (c.status = "deliverable_ready" /\ Recovered(j) = "working")
          \/ (c.status = "completion_pending_review" /\ Recovered(j) = "deliverable_ready")
    BY DEF Recovered, Receipted
  <2>3. [c EXCEPT !.status = Recovered(j)] \in JobState
    BY <1>1, <2>2, NewCells DEF Statuses, Status
  <2>4. [c EXCEPT !.status = Recovered(j)].status = Recovered(j) BY <1>1 DEF JobState
  <2>5. d = c \/ (d = [c EXCEPT !.status = Recovered(j)] /\ Admits(j, Recovered(j)))
    BY <2>1, <2>3, <2>4, CellOfSet
  <2>6. d = c \/ (c.status = "completion_pending_review" /\ d = [c EXCEPT !.status = "deliverable_ready"])
    <3>1. Recovered(j) = c.status => [c EXCEPT !.status = Recovered(j)] = c BY <1>1 DEF JobState
    <3>2. c.status = "deliverable_ready" => ~Admits(j, "working") BY TableFacts DEF Admits
    <3> QED BY <2>2, <2>5, <3>1, <3>2
  <2>7. PutDown(j) BY <2>1, <2>3, Sets
  <2>8. CASE d = c BY <1>7, <2>1, <2>7, <2>8
  <2>9. CASE c.status = "completion_pending_review" /\ d = [c EXCEPT !.status = "deliverable_ready"]
    <3>1. d.status = "deliverable_ready" /\ d.reported = c.reported /\ d.executeClaim = c.executeClaim
      BY <1>1, <2>9 DEF JobState
    <3> QED BY <1>2, <1>4, <2>1, <2>7, <2>9, <3>1 DEF OwnMove, Vouched, Ends, Waiting, Backed, Terminal
  <2> QED BY <2>6, <2>8, <2>9
<1>11. CASE Discover(j)
  <2>1. files' = files /\ calls' = calls BY <1>11 DEF Discover
  <2>2. CASE DiscoverNothing(j) \/ DiscoverAssigned(j)
    <3>1. d = c /\ (DoneWith(j) \/ Aborted)
      BY <2>2, TableFacts DEF DiscoverNothing, DiscoverAssigned, Skip
    <3>2. PutDown(j) BY <1>1, <3>1, PutsDown
    <3> QED BY <1>7, <2>1, <3>1, <3>2
  <2>3. CASE DiscoverOpen(j)
    <3>1. d = EmptyJob("queued") /\ GoOn(j, "review") /\ c.status = "absent" /\ remote[j] = "open"
          /\ agent.stage = "discover"
      BY <1>1, <2>3 DEF DiscoverOpen, Picks
    <3>2. TakenUp(j, "review") BY <1>1, <3>1, TakesUp DEF Hands
    <3>3. d.status = "queued" /\ ~d.reported BY <3>1 DEF EmptyJob
    <3>4. calls[j] = 0 BY <3>1 DEF Vouched
    <3>5. InHand(j)' BY <3>1, <3>2, <3>3 DEF InHand, TakenUp
    <3> QED BY <2>1, <3>1, <3>3, <3>4, <3>5 DEF OwnMove, Vouched, Ends, Waiting, Terminal
  <2> QED BY <1>11, <2>2, <2>3 DEF Discover
<1>12. CASE Review(j)
  <2>1. [c EXCEPT !.status = "review_pending"] \in JobState BY <1>1, NewCells DEF Statuses, Status
  <2>2. Set(j, [c EXCEPT !.status = "review_pending"]) /\ calls' = calls BY <1>12 DEF Review
  <2>3. files[j] \subseteq F BY <1>1, <1>12 DEF Review
  <2>4. c.status = "queued" BY <1>6, <1>12 DEF Review, At, InHand
  <2>5. ~c.reported /\ c.status \notin Terminal BY <2>4 DEF Vouched, Waiting, Terminal
  <2>6. PutDown(j) /\ (d = c \/ d = [c EXCEPT !.status = "review_pending"])
    BY <2>1, <2>2, CellOfSet, Sets
  <2> QED BY <1>7, <1>8, <2>2, <2>3, <2>4, <2>5, <2>6
<1>13. CASE Evaluate(j)
  <2>1. PICK s \in {"scored", "failed"} : Set(j, [c EXCEPT !.status = s]) BY <1>13 DEF Evaluate
  <2>2. [c EXCEPT !.status = s] \in JobState BY <1>1, NewCells DEF Statuses, Status, Terminal
  <2>3. files' = files /\ calls' = calls BY <1>13 DEF Evaluate
  <2>4. c.status = "queued" BY <1>3, <1>13 DEF Evaluate, Taken, Pipeline
  <2>5. ~c.reported /\ c.status \notin Terminal BY <2>4 DEF Vouched, Waiting, Terminal
  <2>6. PutDown(j) /\ (d = c \/ d = [c EXCEPT !.status = s]) BY <2>1, <2>2, CellOfSet, Sets
  <2> QED BY <1>7, <1>8, <2>3, <2>4, <2>5, <2>6
<1>14. CASE Apply(j)
  <2>1. c.status = "scored" /\ calls' = calls BY <1>3, <1>14 DEF Apply, Taken, Pipeline
  <2>2. ~c.reported /\ c.status \notin Terminal BY <2>1 DEF Vouched, Waiting, Terminal
  <2>3. agent'.cur # j
    <3>1. agent.cur = None BY <1>14 DEF Apply, Picks, Desk
    <3> QED BY <1>1, <1>14, <3>1, JobsAssumption, PutsDown DEF Apply, PutDown, Agent
  <2>4. CASE Aborted /\ UNCHANGED <<job, files>>
    <3>1. PutDown(j) BY <1>1, <2>4, PutsDown
    <3> QED BY <1>7, <2>1, <2>4, <3>1
  <2>5. CASE job' = [job EXCEPT ![j].status = "application_pending_review"]
    <3>1. d = [c EXCEPT !.status = "application_pending_review"] BY <1>1, <2>5
    <3> QED BY <1>8, <2>1, <2>2, <2>3, <3>1
  <2> QED BY <1>14, <2>4, <2>5 DEF Apply
<1>15. CASE Confirm(j)
  <2>1. files' = files /\ calls' = calls BY <1>15 DEF Confirm
  <2>2. c.status \in {"application_pending_review", "assignment_pending", "applied"}
    BY <1>3, <1>15 DEF Confirm, Taken, Pipeline
  <2>3. ~c.reported /\ c.status \notin Terminal /\ c.status # "absent"
    BY <2>2 DEF Vouched, Waiting, Terminal
  <2>4. CASE Skip(j) \/ (Aborted /\ job' = job)
    <3>1. d = c /\ PutDown(j) BY <1>1, <2>4, PutsDown DEF Skip
    <3> QED BY <1>7, <2>1, <3>1
  <2>5. CASE Set(j, [c EXCEPT !.status = "assignment_pending"])
    <3>1. [c EXCEPT !.status = "assignment_pending"] \in JobState BY <1>1, NewCells DEF Statuses, Status
    <3>2. PutDown(j) /\ (d = c \/ d = [c EXCEPT !.status = "assignment_pending"])
      BY <2>5, <3>1, CellOfSet, Sets
    <3> QED BY <1>7, <1>8, <2>1, <2>3, <3>2
  <2>6. CASE remote[j] = "ours" /\ Set(j, [c EXCEPT !.status = "assigned", !.applyTx = "finalized"])
    <3> DEFINE new == [c EXCEPT !.status = "assigned", !.applyTx = "finalized"]
    <3>1. new \in JobState BY <1>1, NewCells DEF Statuses, Status, Tx
    <3>2. PutDown(j) /\ (d = c \/ d = new) BY <2>6, <3>1, CellOfSet, Sets
    <3>3. CASE d = c BY <1>7, <2>1, <3>2, <3>3
    <3>4. CASE d = new
      <4>1. d.status = "assigned" /\ d.reported = c.reported /\ d.executeClaim = c.executeClaim
        BY <1>1, <3>4 DEF JobState
      <4> QED BY <1>2, <1>4, <2>1, <2>3, <2>6, <3>2, <4>1 DEF OwnMove, Vouched, Ends, Waiting
    <3> QED BY <3>2, <3>3, <3>4
  <2>7. CASE Fail(j) BY <1>9, <2>1, <2>3, <2>7
  <2> QED BY <1>15, <2>4, <2>5, <2>6, <2>7 DEF Confirm
<1>16. CASE ExecuteClaim(j)
  <2>1. files' = files /\ calls' = calls /\ c.status = "assigned" /\ agent.stage = "execute"
    BY <1>3, <1>16 DEF ExecuteClaim, Taken, Pipeline, Picks
  <2>2. CASE Skip(j)
    <3>1. d = c /\ PutDown(j) BY <1>1, <2>2, PutsDown DEF Skip
    <3> QED BY <1>7, <2>1, <3>1
  <2>3. CASE /\ c.executeClaim # "agent"
             /\ job' = [job EXCEPT ![j].executeClaim = "agent"] /\ GoOn(j, "call")
    <3>1. d = [c EXCEPT !.executeClaim = "agent"] /\ TakenUp(j, "call")
      BY <1>1, <2>3, TakesUp DEF Hands
    <3>2. d.status = c.status /\ d.reported = c.reported /\ d.executeClaim = "agent"
      BY <1>1, <3>1 DEF JobState
    <3>3. calls[j] = 0 BY <2>1, <2>3 DEF Vouched
    <3>4. InHand(j)' BY <2>1, <3>1, <3>2, <3>3 DEF InHand, TakenUp
    <3> QED BY <1>2, <2>1, <3>2, <3>3, <3>4 DEF OwnMove, Vouched, Ends, Waiting
  <2> QED BY <1>16, <2>2, <2>3 DEF ExecuteClaim
<1>17. CASE ExecuteCall(j)
  <2>1. /\ files[j] \subseteq F /\ agent.stage = "execute" /\ calls[j] = 0
        /\ c.status = "assigned" /\ c.executeClaim = "agent"
    BY <1>1, <1>6, <1>17 DEF ExecuteCall, At, InHand
  <2>2. calls'[j] = 1 BY <1>1, <1>17, <2>1 DEF ExecuteCall
  <2>3. remote[j] # "open" /\ ~c.reported BY <2>1 DEF Vouched, Waiting
  <2>4. CASE Fail(j)
    <3>1. PutDown(j) /\ (d = [c EXCEPT !.status = "failed"] \/ d = c) BY <1>1, <2>4, Fails, CellOfFail
    <3>2. d.status \in {"failed", "assigned"} /\ d.reported = c.reported /\ d.executeClaim = "agent"
      BY <1>1, <2>1, <3>1 DEF JobState
    <3> QED BY <1>2, <1>4, <2>1, <2>2, <2>3, <3>1, <3>2 DEF OwnMove, Vouched, Ends, Waiting, Terminal
  <2>5. CASE job' = job /\ GoOn(j, "deliver")
    <3>1. d = c /\ TakenUp(j, "deliver") BY <1>1, <2>5, TakesUp DEF Hands
    <3>2. InHand(j)' BY <2>1, <3>1 DEF InHand, TakenUp
    <3> QED BY <1>2, <2>1, <2>2, <2>3, <3>1, <3>2 DEF OwnMove, Vouched, Ends, Waiting
  <2> QED BY <1>17, <2>4, <2>5 DEF ExecuteCall
<1>18. CASE ExecuteDeliver(j)
  <2> DEFINE new == [c EXCEPT !.status = "deliverable_ready", !.exec = TRUE]
  <2>1. files[j] \subseteq F /\ calls' = calls /\ SetOrFail(j, new) BY <1>1, <1>18 DEF ExecuteDeliver
  <2>2. c.status = "assigned" BY <1>6, <1>18 DEF ExecuteDeliver, At, InHand
  <2>3. ~c.reported /\ c.status \notin Terminal BY <2>2 DEF Vouched, Waiting, Terminal
  <2>4. new \in JobState
    <3>1. "deliverable_ready" \in Statuses BY DEF Statuses, Status
    <3> QED BY <1>1, <3>1, NewCells
  <2>5. PutDown(j) /\ (d = new \/ d = [c EXCEPT !.status = "failed"] \/ d = c)
    BY <2>1, <2>4, CellOfSetOrFail, SetsOrFails
  <2>6. CASE d = new
    <3>1. d.status = "deliverable_ready" /\ d.reported = c.reported /\ d.executeClaim = c.executeClaim
      BY <1>1, <2>6 DEF JobState
    <3> QED BY <1>2, <1>4, <2>1, <2>2, <2>3, <2>5, <3>1 DEF OwnMove, Vouched, Ends, Waiting
  <2>7. CASE d = [c EXCEPT !.status = "failed"] \/ d = c BY <1>7, <1>8, <2>1, <2>2, <2>3, <2>5, <2>7
  <2> QED BY <2>5, <2>6, <2>7
<1>19. CASE ValidateClaim(j)
  <2>1. files' = files /\ calls' = calls /\ c.status \in Taken("validate") /\ agent.stage = "validate"
    BY <1>3, <1>19 DEF ValidateClaim, Pipeline, Picks
  <2>2. CASE Skip(j)
    <3>1. d = c /\ PutDown(j) BY <1>1, <2>2, PutsDown DEF Skip
    <3> QED BY <1>7, <2>1, <3>1
  <2>3. CASE job' = [job EXCEPT ![j].validateClaim = {KeyOfValidate(j)}] /\ GoOn(j, "call")
    <3>1. d = [c EXCEPT !.validateClaim = {KeyOfValidate(j)}] /\ TakenUp(j, "call")
      BY <1>1, <2>3, TakesUp DEF Hands
    <3>2. d.status = c.status /\ d.reported = c.reported /\ d.executeClaim = c.executeClaim
      BY <1>1, <3>1 DEF JobState
    <3>3. InHand(j)' BY <2>1, <3>1, <3>2 DEF InHand, TakenUp
    <3> QED BY <1>2, <2>1, <3>2, <3>3 DEF OwnMove, Vouched, Ends
  <2> QED BY <1>19, <2>2, <2>3 DEF ValidateClaim
<1>20. ASSUME agent.stage = "validate",
              agent.at \in {"call", "verify", "defer", "refuse", "accept"}, agent.cur = j
       PROVE  c.status \in Taken("validate") /\ c.status \in {"deliverable_ready", "publication_pending"}
              /\ c.status \notin Terminal /\ Admits(j, "failed")
  <2>1. c.status \in Taken("validate") BY <1>6, <1>20 DEF InHand
  <2>2. c.status \in {"deliverable_ready", "publication_pending"} BY <2>1 DEF Taken
  <2> QED BY <2>1, <2>2, TableFacts DEF Terminal, Admits
<1>21. CASE ValidateCall(j)
  <2>1. /\ calls' = calls /\ agent.stage = "validate" /\ agent.cur = j
        /\ c.status \in Taken("validate") /\ c.status \in {"deliverable_ready", "publication_pending"}
        /\ c.status \notin Terminal /\ Admits(j, "failed")
    BY <1>20, <1>21 DEF ValidateCall, At
  <2>2. CASE UNCHANGED <<job, files>> /\ GoOn(j, "verify")
    <3>1. d = c /\ F = files[j] /\ TakenUp(j, "verify") BY <1>1, <2>2, TakesUp DEF Hands
    <3>2. InHand(j)' BY <2>1, <3>1 DEF InHand, TakenUp
    <3> QED BY <1>2, <2>1, <3>1, <3>2 DEF OwnMove, Vouched, Ends
  <2>3. CASE files' = files /\ Fail(j) BY <1>9, <2>1, <2>3
  <2>4. CASE job' = job /\ ReportsAgainst(j) /\ GoOn(j, "defer")
    <3>1. d = c /\ TakenUp(j, "defer") BY <1>1, <2>4, TakesUp DEF Hands
    <3>2. Reported(F) BY <1>1, <2>4 DEF ReportsAgainst, Reported
    <3>3. InHand(j)' BY <2>1, <3>1 DEF InHand, TakenUp
    <3> QED BY <1>2, <2>1, <3>1, <3>2, <3>3 DEF OwnMove, Vouched, Ends, Waiting
  <2>5. CASE /\ files' = files
             /\ job' = [job EXCEPT ![j].published = TRUE] /\ GoOn(j, "verify")
    <3>1. d = [c EXCEPT !.published = TRUE] /\ TakenUp(j, "verify")
      BY <1>1, <2>5, TakesUp DEF Hands
    <3>2. d.status = c.status /\ d.reported = c.reported /\ d.executeClaim = c.executeClaim
      BY <1>1, <3>1 DEF JobState
    <3>3. InHand(j)' BY <2>1, <3>1, <3>2 DEF InHand, TakenUp
    <3> QED BY <1>2, <2>1, <2>5, <3>2, <3>3 DEF OwnMove, Vouched, Ends
  <2> QED BY <1>21, <2>2, <2>3, <2>4, <2>5 DEF ValidateCall
<1>22. CASE ValidateVerify(j)
  <2>1. /\ calls' = calls /\ agent.stage = "validate" /\ agent.cur = j
        /\ c.status \in Taken("validate") /\ c.status \in {"deliverable_ready", "publication_pending"}
        /\ c.status \notin Terminal /\ Admits(j, "failed")
    BY <1>20, <1>22 DEF ValidateVerify, At
  <2>2. CASE Fail(j) BY <1>9, <2>1, <2>2
  <2>3. CASE job' = job /\ ReportsAgainst(j) /\ GoOn(j, "refuse")
    <3>1. d = c /\ TakenUp(j, "refuse") BY <1>1, <2>3, TakesUp DEF Hands
    <3>2. Reported(F) BY <1>1, <2>3 DEF ReportsAgainst, Reported
    <3>3. InHand(j)' BY <2>1, <3>1 DEF InHand, TakenUp
    <3> QED BY <1>2, <2>1, <3>1, <3>2, <3>3 DEF OwnMove, Vouched, Ends, Waiting
  <2>4. CASE /\ job' = job /\ GoOn(j, "accept")
             /\ files' = [files EXCEPT ![j] = (@ \ {"unheeded"}) \cup {"verified"}]
    <3>1. d = c /\ TakenUp(j, "accept") BY <1>1, <2>4, TakesUp DEF Hands
    <3>2. "verified" \in F BY <1>1, <2>4
    <3>3. InHand(j)' BY <2>1, <3>1, <3>2 DEF InHand, TakenUp
    <3> QED BY <1>2, <2>1, <3>1, <3>2, <3>3 DEF OwnMove, Vouched, Ends, Waiting, Reported
  <2> QED BY <1>22, <2>2, <2>3, <2>4 DEF ValidateVerify
(* The status follows the report. *)
<1>27. ASSUME agent.stage = "validate", agent.at \in {"defer", "refuse", "accept"}, agent.cur = j,
              calls' = calls, NEW s \in {"publication_pending", "failed", "deliverable_ready"},
              s = "deliverable_ready" => Reported(F),
              \/ SetOrFail(j, [c EXCEPT !.status = s, !.reported = TRUE])
              \/ Set(j, [c EXCEPT !.status = s, !.reported = TRUE])
       PROVE  OwnMove(j)
  <2> DEFINE new == [c EXCEPT !.status = s, !.reported = TRUE]
  <2>1. new \in JobState /\ new.status = s /\ new.executeClaim = c.executeClaim
    <3>1. s \in Statuses BY DEF Statuses, Status, Terminal
    <3>2. new \in JobState BY <1>1, <3>1, NewCells
    <3> QED BY <1>1, <3>2 DEF JobState
  <2>2. c.status \in {"deliverable_ready", "publication_pending"} /\ c.status \notin Terminal
    BY <1>20, <1>27
  <2>3. Admits(j, s) BY <2>2, TableFacts DEF Admits
  <2>4. d = new /\ PutDown(j) BY <1>1, <1>27, <2>1, <2>3, Sets, SetsOrFails
  <2> QED BY <1>2, <1>4, <1>27, <2>1, <2>2, <2>4 DEF OwnMove, Vouched, Ends, Waiting
<1>28. CASE ValidateDefer(j) BY <1>27, <1>28 DEF ValidateDefer, At
<1>29. CASE ValidateRefuse(j) BY <1>27, <1>29 DEF ValidateRefuse, At
<1>30. CASE ValidateAccept(j)
  <2>1. Reported(F) BY <1>6, <1>30 DEF ValidateAccept, At, InHand, Reported
  <2> QED BY <1>27, <1>30, <2>1 DEF ValidateAccept, At
<1>23. CASE SubmitClaim(j)
  <2>1. files' = files /\ calls' = calls /\ c.status = "deliverable_ready" /\ agent.stage = "submit"
    BY <1>3, <1>23 DEF SubmitClaim, Taken, Pipeline, Picks
  <2>2. CASE Skip(j)
    <3>1. d = c /\ PutDown(j) BY <1>1, <2>2, PutsDown DEF Skip
    <3> QED BY <1>7, <2>1, <3>1
  <2>3. CASE job' = [job EXCEPT ![j].submitClaim = {KeyOfSubmit(j)}] /\ GoOn(j, "package")
    <3>1. d = [c EXCEPT !.submitClaim = {KeyOfSubmit(j)}] /\ TakenUp(j, "package")
      BY <1>1, <2>3, TakesUp DEF Hands
    <3>2. d.status = c.status /\ d.reported = c.reported /\ d.executeClaim = c.executeClaim
      BY <1>1, <3>1 DEF JobState
    <3>3. InHand(j)' BY <2>1, <3>1, <3>2 DEF InHand, TakenUp
    <3> QED BY <1>2, <2>1, <3>2, <3>3 DEF OwnMove, Vouched, Ends
  <2> QED BY <1>23, <2>2, <2>3 DEF SubmitClaim
<1>24. CASE SubmitPackage(j)
  <2>1. /\ files[j] \subseteq F /\ calls' = calls /\ agent.stage = "submit"
        /\ c.status = "deliverable_ready"
    BY <1>1, <1>6, <1>24 DEF SubmitPackage, At, InHand
  <2>2. CASE Fail(j) BY <1>9, <2>1, <2>2 DEF Terminal
  <2>3. CASE /\ BundleReady(j) /\ files' = [files EXCEPT ![j] = @ \cup SubmitFiles[4]]
             /\ job' = job /\ GoOn(j, "record")
    <3>1. d = c /\ TakenUp(j, "record") BY <1>1, <2>3, TakesUp DEF Hands
    <3>2. Reported(files[j]) BY <2>1, <2>3 DEF BundleReady, Vouched
    <3>3. Backed(F) BY <1>1, <2>3, <3>2 DEF Backed, Reported, SubmitFiles
    <3>4. InHand(j)' BY <2>1, <3>1, <3>3 DEF InHand, TakenUp
    <3> QED BY <1>2, <2>1, <3>1, <3>3, <3>4 DEF OwnMove, Vouched, Ends, Backed
  <2> QED BY <1>24, <2>2, <2>3 DEF SubmitPackage
<1>25. CASE SubmitRecord(j)
  <2> DEFINE new == [c EXCEPT !.status = "completion_pending_review", !.packaged = TRUE]
  <2>1. files' = files /\ calls' = calls /\ SetOrFail(j, new) BY <1>25 DEF SubmitRecord
  <2>2. c.status = "deliverable_ready" /\ Backed(files[j])
    BY <1>6, <1>25 DEF SubmitRecord, At, InHand
  <2>3. new \in JobState
    <3>1. "completion_pending_review" \in Statuses BY DEF Statuses, Status
    <3> QED BY <1>1, <3>1, NewCells
  <2>4. PutDown(j) /\ (d = new \/ d = [c EXCEPT !.status = "failed"] \/ d = c)
    BY <2>1, <2>3, CellOfSetOrFail, SetsOrFails
  <2>5. CASE d = new
    <3>1. d.status = "completion_pending_review" /\ d.executeClaim = c.executeClaim
      BY <1>1, <2>5 DEF JobState
    <3> QED BY <1>2, <1>4, <2>1, <2>2, <2>4, <3>1 DEF OwnMove, Vouched, Ends, Waiting, Terminal
  <2>6. CASE d = [c EXCEPT !.status = "failed"] \/ d = c
    BY <1>7, <1>8, <2>1, <2>2, <2>4, <2>6 DEF Terminal
  <2> QED BY <2>4, <2>5, <2>6
<1>26. CASE Reconcile(j)
  <2>1. files' = files /\ calls' = calls /\ c.status = "completion_pending_review"
    BY <1>3, <1>26 DEF Reconcile, Taken, Pipeline
  <2>2. CASE Skip(j)
    <3>1. d = c /\ PutDown(j) BY <1>1, <2>2, PutsDown DEF Skip
    <3> QED BY <1>7, <2>1, <3>1
  <2>3. ASSUME NEW status \in {"submitted", "completed", "failed"},
               NEW new \in JobState, new.status = c.status, new.reported = c.reported,
               new.executeClaim = c.executeClaim, Reconciled(j, status, new)
        PROVE  OwnMove(j)
    <3>1. PutDown(j) BY <1>1, <2>3, PutsDown DEF Reconciled
    <3>2. d = [new EXCEPT !.status = IF Admits(j, status) THEN status ELSE new.status]
      BY <1>1, <2>3 DEF Reconciled
    <3>3. /\ d.status \in {status, c.status}
          /\ d.reported = c.reported /\ d.executeClaim = c.executeClaim
      BY <2>3, <3>2 DEF JobState
    <3> QED BY <1>2, <1>4, <2>1, <3>1, <3>3 DEF OwnMove, Vouched, Ends, Waiting, Terminal
  <2>4. /\ [c EXCEPT !.completionTx = "finalized"] \in JobState
        /\ [c EXCEPT !.completionTx = "finalized"].status = c.status
        /\ [c EXCEPT !.completionTx = "finalized"].reported = c.reported
        /\ [c EXCEPT !.completionTx = "finalized"].executeClaim = c.executeClaim
    <3>1. "assigned" \in Statuses /\ "finalized" \in Tx BY DEF Statuses, Status, Tx
    <3>2. [c EXCEPT !.completionTx = "finalized"] \in JobState BY <1>1, <3>1, NewCells
    <3> QED BY <1>1, <3>2 DEF JobState
  <2> QED BY <1>1, <1>26, <2>2, <2>3, <2>4 DEF Reconcile
<1> QED BY <1>10, <1>11, <1>12, <1>13, <1>14, <1>15, <1>16, <1>17, <1>18, <1>19, <1>21, <1>22,
           <1>23, <1>24, <1>25, <1>26, <1>28, <1>29, <1>30 DEF WorksOn

LEMMA WorkKeepsOwn ==
    ASSUME TypeOK, Desk, Evidence, Own, NEW j \in Jobs, WorksOn(j)
    PROVE  Own' /\ \A k \in Jobs \ byHand : Ends(k)
<1>1. Turn(j) BY WorkIsTurn
<1>2. ASSUME NEW k \in Jobs \ byHand, k # j PROVE Vouched(k)' /\ InPlace(k)' /\ Ends(k)
  <2>1. job'[k] = job[k] /\ files'[k] = files[k] /\ calls'[k] = calls[k] /\ remote' = remote
    BY <1>1, <1>2 DEF Turn
  <2>2. agent'.cur # k /\ agent.cur # k
    BY <1>1, <1>2, JobsAssumption DEF Turn, Desk, PutDown, TakenUp
  <2>3. k \in agent'.todo => k \in agent.todo /\ agent'.stage = agent.stage
    BY <1>1 DEF Turn, PutDown, TakenUp
  <2>4. Vouched(k) /\ InPlace(k) BY DEF Own
  <2> QED BY <2>1, <2>2, <2>3, <2>4 DEF Vouched, InPlace, Ends
<1>3. ASSUME j \notin byHand PROVE Vouched(j)' /\ InPlace(j)' /\ Ends(j)
  <2>1. OwnMove(j) BY <1>3, OwnWork DEF Own, Evidence
  <2>2. CASE PutDown(j) BY <2>1, <2>2, JobsAssumption DEF OwnMove, PutDown, InPlace
  <2>3. ASSUME NEW place \in Hands, TakenUp(j, place) PROVE Vouched(j)' /\ InPlace(j)' /\ Ends(j)
    BY <2>1, <2>3 DEF OwnMove, TakenUp, InPlace
  <2> QED BY <1>1, <2>2, <2>3 DEF Turn
<1> QED BY <1>1, <1>2, <1>3 DEF Own, Turn

LEMMA OwnKept ==
    ASSUME TypeOK, Desk, Evidence, Own, [Next]_vars
    PROVE  Own' /\ \A k \in Jobs \ byHand : Ends(k)
<1>1. CASE Paces
  <2>1. /\ UNCHANGED <<job, files, remote, calls, byHand>> /\ agent'.cur = None
        /\ \/ agent'.todo = {}
           \/ agent'.stage = agent.stage /\ agent'.todo = Listed(agent.stage)
    BY <1>1, PacesKeepTypes, PacesList
  <2>2. \A k \in Listed(agent.stage) : agent.stage = "discover" \/ job[k].status \in Taken(agent.stage)
    BY DEF Listed
  <2> QED BY <2>1, <2>2, JobsAssumption DEF Own, Vouched, InPlace, Ends
<1>2. ASSUME NEW j \in Jobs, WorksOn(j) PROVE Own' /\ \A k \in Jobs \ byHand : Ends(k)
  BY <1>2, WorkKeepsOwn
<1>3. CASE ToolKilled
  <2>1. /\ \A k \in Jobs : files[k] \subseteq files'[k]
        /\ UNCHANGED <<job, remote, calls, agent, byHand>>
    BY <1>3, KilledAdds
  <2> QED BY <2>1 DEF Own, Vouched, InPlace, InHand, Ends, Backed, Reported
<1>4. ASSUME NEW j \in byHand, UseTool(j) PROVE Own' /\ \A k \in Jobs \ byHand : Ends(k)
  <2>1. Handled(j) BY <1>4, ToolHandles DEF TypeOK
  <2> QED BY <2>1 DEF Handled, Own, Vouched, InPlace, InHand, Ends
<1>5. ASSUME NEW j \in Jobs, Outside(j) PROVE Own' /\ \A k \in Jobs \ byHand : Ends(k)
  <2> DEFINE c == job[j]
             d == job'[j]
  <2>1. /\ UNCHANGED <<files, calls, agent, byHand>> /\ \A k \in Jobs \ {j} : job'[k] = job[k]
    BY <1>5, OutsideKeepsTypes
  <2>2. /\ c \in JobState /\ job \in [Jobs -> JobState] /\ remote \in [Jobs -> Remote]
    BY DEF TypeOK
  <2>3. CASE RecordTx(j)
    <3>1. \/ d = [c EXCEPT !.applyTx = "submitted"] \/ d = [c EXCEPT !.completionTx = "submitted"]
      BY <2>2, <2>3 DEF RecordTx
    <3>2. d.status = c.status /\ d.reported = c.reported /\ d.executeClaim = c.executeClaim
      BY <2>2, <3>1 DEF JobState
    <3>3. remote' = remote BY <2>3 DEF RecordTx
    <3> QED BY <2>1, <3>2, <3>3 DEF Own, Vouched, InPlace, InHand, Ends
  <2>4. CASE RemoteMoves(j)
    <3>1. job' = job /\ \A k \in Jobs : remote[k] # "open" => remote'[k] # "open"
      BY <2>2, <2>4 DEF RemoteMoves
    <3> QED BY <2>1, <3>1 DEF Own, Vouched, InPlace, InHand, Ends
  <2>5. CASE Prune(j)
    <3>1. d = EmptyJob("absent") /\ remote' = remote /\ agent.at = "list" BY <2>2, <2>5 DEF Prune
    <3>2. d.status = "absent" /\ ~d.reported BY <3>1 DEF EmptyJob
    <3>3. agent.todo = {} /\ agent.cur = None BY <3>1 DEF Desk
    <3> QED BY <2>1, <3>1, <3>2, <3>3, JobsAssumption DEF Own, Vouched, InPlace, Ends, Waiting
  <2> QED BY <1>5, <2>3, <2>4, <2>5 DEF Outside
<1>6. CASE UNCHANGED vars BY <1>6 DEF vars, Own, Vouched, InPlace, InHand, Ends
<1> QED BY <1>1, <1>2, <1>3, <1>4, <1>5, <1>6, KindsOfStep

LEMMA OwnAtFirst == ASSUME Init PROVE Own
<1>1. \A j \in Jobs : /\ job[j].status \in {"review_pending", "absent"}
                     /\ ~job[j].reported /\ calls[j] = 0
  BY DEF Init, EmptyJob
<1>2. agent.todo = {} /\ agent.cur = None BY DEF Init, Down
<1> QED BY <1>1, <1>2, JobsAssumption DEF Own, Vouched, InPlace, Waiting

(* The model is called once for a job that run_execute_job does not share,  *)
(* whatever crashes and restarts there are (execute.js).                    *)
THEOREM OneCallTheorem == Spec => []OneCallPerJob
<1>1. Own => OneCallPerJob BY DEF Own, Vouched, OneCallPerJob
<1> QED BY <1>1, TypesAtFirst, TypesKept, EvidenceAtFirst, EvidenceKept, OwnAtFirst, OwnKept, PTL
        DEF Spec

(* PackageIsBacked for every instance and any number of deaths: a job waits  *)
(* for the operator's signature only with its package complete, and with a   *)
(* verified publication behind it unless the agent died between writing that *)
(* the publication does not verify and the status that follows (submit.js,   *)
(* validate.js, build_completion_package.js).                                *)
THEOREM PackageTheorem == Spec => []PackageIsBacked
<1>1. Own /\ Evidence => PackageIsBacked
  BY DEF Own, Vouched, Waiting, Backed, Reported, Evidence, Published, PackageIsBacked
<1> QED BY <1>1, TypesAtFirst, TypesKept, EvidenceAtFirst, EvidenceKept, OwnAtFirst, OwnKept, PTL
        DEF Spec

(* No stage moves a job that has ended; only retention removes its file     *)
(* (state.js, state-retention.js).                                           *)
THEOREM EndsTheorem == Spec => TerminalIsFinal
<1> DEFINE Final == \A j \in Jobs \ byHand : job[j].status \in Terminal =>
                       job'[j].status \in {job[j].status, "absent"}
<1>1. ASSUME TypeOK, Desk, Evidence, Own, [Next]_vars PROVE Final
  BY <1>1, OwnKept DEF Ends
<1> QED BY <1>1, TypesAtFirst, TypesKept, EvidenceAtFirst, EvidenceKept, OwnAtFirst, OwnKept, PTL
        DEF Spec, TerminalIsFinal

---------------------------------------------------------------------------
(* What recover finds *)

Made == {"deliverable_ready", "publication_pending"}

(* What the agent has made of a job is on disk, and its paths in the job's   *)
(* file; the brief is there before the deliverable.                         *)
Executed(j) ==
    /\ job[j].status \in Made => job[j].exec /\ {"brief", "deliverable"} \subseteq files[j]
    /\ agent.stage = "execute" /\ agent.at = "deliver" /\ agent.cur = j => "brief" \in files[j]

AllExecuted == \A j \in Jobs \ byHand : Executed(j)

(* A cell that changed its status, or nothing, to one before execution or    *)
(* after it.                                                                *)
LEMMA NotMade ==
    ASSUME TypeOK, NEW j \in Jobs, NEW new \in JobState, new.status \notin Made,
           job'[j] = new \/ job'[j] = job[j]
    PROVE  job'[j].status \in Made => job[j].status \in Made /\ job'[j].exec = job[j].exec
OBVIOUS

LEMMA FailedIsNotMade ==
    ASSUME TypeOK, NEW j \in Jobs
    PROVE  /\ [job[j] EXCEPT !.status = "failed"] \in JobState
           /\ [job[j] EXCEPT !.status = "failed"].status \notin Made
<1>1. job[j] \in JobState BY DEF TypeOK
<1>2. "failed" \in Statuses BY DEF Statuses, Status, Terminal
<1>3. [job[j] EXCEPT !.status = "failed"].status = "failed" BY <1>1 DEF JobState
<1> QED BY <1>1, <1>2, <1>3, NewCells DEF Made

LEMMA WorkExecutes ==
    ASSUME TypeOK, Desk, NEW j \in Jobs, Receipted(job[j]), Vouched(j), InPlace(j), Executed(j),
           WorksOn(j)
    PROVE  Executed(j)'
<1> DEFINE c == job[j]
           d == job'[j]
           Kept == d.status \in Made => c.status \in Made /\ d.exec = c.exec
           Away == PutDown(j) \/ \E place \in Hands \ {"deliver"} : TakenUp(j, place)
<1>1. /\ c \in JobState /\ files[j] \in SUBSET Artifact /\ agent \in Agent
      /\ job \in [Jobs -> JobState] /\ files \in [Jobs -> SUBSET Artifact]
  BY DEF TypeOK
<1>2. Turn(j) BY WorkIsTurn
<1>3. files[j] \ {"verified", "unheeded"} \subseteq files'[j] BY WorkProceeds DEF Proceeds
<1>4. Away => ~(agent'.at = "deliver" /\ agent'.cur = j)
  BY JobsAssumption DEF PutDown, TakenUp
<1>5. ASSUME Kept, Away PROVE Executed(j)'
  BY <1>3, <1>4, <1>5 DEF Executed
<1>6. ASSUME NEW s \in Statuses \ Made, Set(j, [c EXCEPT !.status = s]) PROVE Kept /\ Away
  <2>1. [c EXCEPT !.status = s] \in JobState BY <1>1, NewCells
  <2>2. [c EXCEPT !.status = s].status = s BY <1>1 DEF JobState
  <2> QED BY <1>6, <2>1, <2>2, Sets, CellOfSet, NotMade
<1>7. Fail(j) => Kept /\ Away
  BY Fails, CellOfFail, FailedIsNotMade, NotMade
<1>8. Skip(j) \/ (job' = job /\ Aborted) => Kept /\ Away
  BY <1>1, PutsDown DEF Skip
<1>9. ASSUME NEW place \in Hands \ {"deliver"}, GoOn(j, place) PROVE Away
  BY <1>1, <1>9, TakesUp
<1>10. CASE Recover(j)
  <2>1. Recovered(j) = c.status
    BY DEF Recovered, Receipted, Vouched, Executed, Made, Waiting, Backed
  <2>2. [c EXCEPT !.status = Recovered(j)] = c BY <1>1, <2>1 DEF JobState
  <2>3. Set(j, c) BY <1>10, <2>2 DEF Recover
  <2>4. d = c /\ PutDown(j) BY <1>1, <2>3, Sets, CellOfSet
  <2> QED BY <1>5, <2>4
<1>11. CASE Discover(j)
  <2>1. CASE DiscoverNothing(j) BY <1>5, <1>8, <2>1 DEF DiscoverNothing
  <2>2. CASE DiscoverAssigned(j) BY <1>5, <1>8, <2>2, TableFacts DEF DiscoverAssigned
  <2>3. CASE DiscoverOpen(j)
    <3>1. d.status = "queued" BY <1>1, <2>3 DEF DiscoverOpen, EmptyJob
    <3>2. Away BY <1>9, <2>3 DEF DiscoverOpen, Hands
    <3> QED BY <1>5, <3>1, <3>2 DEF Made
  <2> QED BY <1>11, <2>1, <2>2, <2>3 DEF Discover
<1>12. CASE Review(j) BY <1>5, <1>6, <1>12 DEF Review, Statuses, Status, Made
<1>13. CASE Evaluate(j)
  <2>1. PICK s \in {"scored", "failed"} : Set(j, [c EXCEPT !.status = s]) BY <1>13 DEF Evaluate
  <2>2. s \in Statuses \ Made BY DEF Statuses, Status, Terminal, Made
  <2> QED BY <1>5, <1>6, <2>1, <2>2
<1>14. CASE Apply(j)
  <2>1. d = c \/ d = [c EXCEPT !.status = "application_pending_review"] BY <1>1, <1>14 DEF Apply
  <2>2. Kept BY <1>1, <2>1 DEF JobState, Made
  <2>3. agent'.cur # j
    <3>1. agent.cur = None BY <1>14 DEF Apply, Picks, Desk
    <3> QED BY <1>1, <1>14, <3>1, JobsAssumption, PutsDown DEF Apply, PutDown, Agent
  <2> QED BY <1>3, <2>2, <2>3 DEF Executed
<1>15. CASE Confirm(j)
  <2>1. CASE Set(j, [c EXCEPT !.status = "assigned", !.applyTx = "finalized"])
    <3> DEFINE new == [c EXCEPT !.status = "assigned", !.applyTx = "finalized"]
    <3>1. new \in JobState BY <1>1, NewCells DEF Statuses, Status, Tx
    <3>2. new.status \notin Made BY <1>1 DEF JobState, Made
    <3> QED BY <1>5, <2>1, <3>1, <3>2, Sets, CellOfSet, NotMade
  <2>2. CASE Set(j, [c EXCEPT !.status = "assignment_pending"])
    BY <1>5, <1>6, <2>2 DEF Statuses, Status, Made
  <2> QED BY <1>5, <1>7, <1>8, <1>15, <2>1, <2>2 DEF Confirm
<1>16. CASE ExecuteClaim(j)
  <2>1. CASE job' = [job EXCEPT ![j].executeClaim = "agent"] /\ GoOn(j, "call")
    <3>1. d = [c EXCEPT !.executeClaim = "agent"] /\ Away BY <1>1, <1>9, <2>1 DEF Hands
    <3>2. Kept BY <1>1, <3>1 DEF JobState
    <3> QED BY <1>5, <3>1, <3>2
  <2> QED BY <1>5, <1>8, <1>16, <2>1 DEF ExecuteClaim
<1>17. CASE ExecuteCall(j)
  <2>1. CASE Fail(j) BY <1>5, <1>7, <2>1
  <2>2. CASE job' = job
    <3>1. "brief" \in files'[j] BY <1>1, <1>17 DEF ExecuteCall
    <3> QED BY <1>3, <2>2, <3>1 DEF Executed
  <2> QED BY <1>17, <2>1, <2>2 DEF ExecuteCall
<1>18. CASE ExecuteDeliver(j)
  <2> DEFINE new == [c EXCEPT !.status = "deliverable_ready", !.exec = TRUE]
  <2>1. "deliverable_ready" \in Statuses BY DEF Statuses, Status
  <2>2. new \in JobState /\ new.exec
    <3>1. new \in JobState BY <1>1, <2>1, NewCells
    <3> QED BY <1>1, <3>1 DEF JobState
  <2>3. PutDown(j) /\ (d = new \/ d = [c EXCEPT !.status = "failed"] \/ d = c)
    BY <1>18, <2>2, CellOfSetOrFail, SetsOrFails DEF ExecuteDeliver
  <2>4. CASE d = new
    <3>1. "brief" \in files[j] BY <1>18 DEF ExecuteDeliver, At, Executed
    <3>2. {"brief", "deliverable"} \subseteq files'[j] BY <1>1, <1>18, <3>1 DEF ExecuteDeliver
    <3> QED BY <1>4, <2>2, <2>3, <2>4, <3>2 DEF Executed
  <2>5. CASE d = [c EXCEPT !.status = "failed"] \/ d = c
    BY <1>5, <2>3, <2>5, FailedIsNotMade, NotMade
  <2> QED BY <2>3, <2>4, <2>5
<1>19. CASE ValidateClaim(j)
  <2>1. CASE job' = [job EXCEPT ![j].validateClaim = {KeyOfValidate(j)}] /\ GoOn(j, "call")
    <3>1. d = [c EXCEPT !.validateClaim = {KeyOfValidate(j)}] /\ Away BY <1>1, <1>9, <2>1 DEF Hands
    <3>2. Kept BY <1>1, <3>1 DEF JobState
    <3> QED BY <1>5, <3>1, <3>2
  <2> QED BY <1>5, <1>8, <1>19, <2>1 DEF ValidateClaim
<1>20. ASSUME agent.stage = "validate",
              agent.at \in {"call", "verify", "defer", "refuse", "accept"}, agent.cur = j
       PROVE  c.status \in Made
  BY <1>20 DEF InPlace, InHand, Taken, Made
<1>21. ASSUME NEW s \in Made, c.status \in Made, SetOrFail(j, [c EXCEPT !.status = s, !.reported = TRUE])
       PROVE  Executed(j)'
  <2> DEFINE new == [c EXCEPT !.status = s, !.reported = TRUE]
  <2>1. s \in Statuses BY DEF Statuses, Status, Made
  <2>2. new \in JobState /\ new.exec = c.exec
    <3>1. new \in JobState BY <1>1, <2>1, NewCells
    <3> QED BY <1>1, <3>1 DEF JobState
  <2>3. PutDown(j) /\ (d = new \/ d = [c EXCEPT !.status = "failed"] \/ d = c)
    BY <1>21, <2>2, CellOfSetOrFail, SetsOrFails
  <2> QED BY <1>5, <1>21, <2>2, <2>3, FailedIsNotMade, NotMade
<1>22. CASE ValidateCall(j)
  <2>1. c.status \in Made BY <1>20, <1>22 DEF ValidateCall, At
  <2>2. CASE (GoOn(j, "verify") \/ GoOn(j, "defer")) /\ (job' = job \/ job' = [job EXCEPT ![j].published = TRUE])
    <3>1. d = c \/ d = [c EXCEPT !.published = TRUE] BY <1>1, <2>2
    <3>2. Away BY <1>9, <2>2 DEF Hands
    <3>3. Kept BY <1>1, <3>1 DEF JobState
    <3> QED BY <1>5, <3>2, <3>3
  <2> QED BY <1>5, <1>7, <1>22, <2>2 DEF ValidateCall
<1>23. CASE ValidateVerify(j)
  <2>1. CASE job' = job /\ (GoOn(j, "refuse") \/ GoOn(j, "accept"))
    <3>1. Away BY <1>9, <2>1 DEF Hands
    <3> QED BY <1>5, <2>1, <3>1
  <2> QED BY <1>5, <1>7, <1>23, <2>1 DEF ValidateVerify
<1>28. CASE ValidateDefer(j)
  <2>1. c.status \in Made BY <1>20, <1>28 DEF ValidateDefer, At
  <2> QED BY <1>21, <1>28, <2>1 DEF ValidateDefer, Made
<1>29. CASE ValidateRefuse(j)
  <2> DEFINE new == [c EXCEPT !.status = "failed", !.reported = TRUE]
  <2>1. new \in JobState /\ new.status \notin Made
    <3>1. "failed" \in Statuses BY DEF Statuses, Status, Terminal
    <3>2. new \in JobState BY <1>1, <3>1, NewCells
    <3> QED BY <1>1, <3>2 DEF JobState, Made
  <2>2. PutDown(j) /\ (d = new \/ d = c) BY <1>29, <2>1, CellOfSet, Sets DEF ValidateRefuse
  <2> QED BY <1>5, <2>1, <2>2, NotMade
<1>30. CASE ValidateAccept(j)
  <2>1. c.status \in Made BY <1>20, <1>30 DEF ValidateAccept, At
  <2> QED BY <1>21, <1>30, <2>1 DEF ValidateAccept, Made
<1>24. CASE SubmitClaim(j)
  <2>1. CASE job' = [job EXCEPT ![j].submitClaim = {KeyOfSubmit(j)}] /\ GoOn(j, "package")
    <3>1. d = [c EXCEPT !.submitClaim = {KeyOfSubmit(j)}] /\ Away BY <1>1, <1>9, <2>1 DEF Hands
    <3>2. Kept BY <1>1, <3>1 DEF JobState
    <3> QED BY <1>5, <3>1, <3>2
  <2> QED BY <1>5, <1>8, <1>24, <2>1 DEF SubmitClaim
<1>25. CASE SubmitPackage(j)
  <2>1. CASE job' = job /\ GoOn(j, "record") BY <1>5, <1>9, <2>1 DEF Hands
  <2> QED BY <1>5, <1>7, <1>25, <2>1 DEF SubmitPackage
<1>26. CASE SubmitRecord(j)
  <2> DEFINE new == [c EXCEPT !.status = "completion_pending_review", !.packaged = TRUE]
  <2>1. "completion_pending_review" \in Statuses BY DEF Statuses, Status
  <2>2. new \in JobState /\ new.status \notin Made
    <3>1. new \in JobState BY <1>1, <2>1, NewCells
    <3> QED BY <1>1, <3>1 DEF JobState, Made
  <2>3. PutDown(j) /\ (d = new \/ d = [c EXCEPT !.status = "failed"] \/ d = c)
    BY <1>26, <2>2, CellOfSetOrFail, SetsOrFails DEF SubmitRecord
  <2> QED BY <1>5, <2>2, <2>3, FailedIsNotMade, NotMade
<1>27. CASE Reconcile(j)
  <2>1. ASSUME NEW status \in {"submitted", "completed", "failed"}, NEW new \in JobState,
               Reconciled(j, status, new), new.status = c.status, new.exec = c.exec
        PROVE  Executed(j)'
    <3>1. Away BY <1>1, <2>1, PutsDown DEF Reconciled
    <3>2. d.status \in {status, c.status} /\ d.exec = c.exec
      BY <1>1, <2>1 DEF Reconciled, JobState
    <3> QED BY <1>5, <3>1, <3>2 DEF Made
  <2>2. /\ [c EXCEPT !.completionTx = "finalized"] \in JobState
        /\ [c EXCEPT !.completionTx = "finalized"].status = c.status
        /\ [c EXCEPT !.completionTx = "finalized"].exec = c.exec
    <3>1. "finalized" \in Tx BY DEF Tx
    <3>2. "assigned" \in Statuses BY DEF Statuses, Status
    <3>3. [c EXCEPT !.completionTx = "finalized"] \in JobState BY <1>1, <3>1, <3>2, NewCells
    <3> QED BY <1>1, <3>3 DEF JobState
  <2> QED BY <1>1, <1>5, <1>8, <1>27, <2>1, <2>2 DEF Reconcile
<1> QED BY <1>10, <1>11, <1>12, <1>13, <1>14, <1>15, <1>16, <1>17, <1>18, <1>19, <1>22, <1>23,
           <1>24, <1>25, <1>26, <1>27, <1>28, <1>29, <1>30 DEF WorksOn

LEMMA ExecutedKept ==
    ASSUME TypeOK, Desk, Evidence, Own, AllExecuted, [Next]_vars PROVE AllExecuted'
<1>1. CASE Paces
  <2>1. UNCHANGED <<job, files, byHand>> /\ agent'.cur = None
    BY <1>1, PacesKeepTypes
  <2> QED BY <2>1, JobsAssumption DEF AllExecuted, Executed
<1>2. ASSUME NEW j \in Jobs, WorksOn(j) PROVE AllExecuted'
  <2>1. Turn(j) BY <1>2, WorkIsTurn
  <2>2. j \notin byHand => Executed(j)' BY <1>2, WorkExecutes DEF Evidence, Own, AllExecuted
  <2>3. ASSUME NEW k \in Jobs \ byHand, k # j PROVE Executed(k)'
    <3>1. job'[k] = job[k] /\ files'[k] = files[k] BY <2>1, <2>3 DEF Turn
    <3>2. agent'.cur # k BY <2>1, <2>3, JobsAssumption DEF Turn, PutDown, TakenUp
    <3> QED BY <3>1, <3>2 DEF AllExecuted, Executed
  <2> QED BY <2>1, <2>2, <2>3 DEF AllExecuted, Turn
<1>3. CASE ToolKilled
  <2>1. /\ \A k \in Jobs : files[k] \subseteq files'[k]
        /\ UNCHANGED <<job, agent, byHand>>
    BY <1>3, KilledAdds
  <2> QED BY <2>1 DEF AllExecuted, Executed
<1>4. ASSUME NEW j \in byHand, UseTool(j) PROVE AllExecuted'
  <2>1. Handled(j) BY <1>4, ToolHandles DEF TypeOK
  <2> QED BY <2>1 DEF Handled, AllExecuted, Executed
<1>5. ASSUME NEW j \in Jobs, Outside(j) PROVE AllExecuted'
  <2> DEFINE c == job[j]
             d == job'[j]
  <2>1. /\ UNCHANGED <<files, agent, byHand>> /\ \A k \in Jobs \ {j} : job'[k] = job[k]
    BY <1>5, OutsideKeepsTypes
  <2>2. c \in JobState /\ job \in [Jobs -> JobState] BY DEF TypeOK
  <2>3. CASE RecordTx(j)
    <3>1. \/ d = [c EXCEPT !.applyTx = "submitted"] \/ d = [c EXCEPT !.completionTx = "submitted"]
      BY <2>2, <2>3 DEF RecordTx
    <3>2. d.status = c.status /\ d.exec = c.exec BY <2>2, <3>1 DEF JobState
    <3> QED BY <2>1, <3>2 DEF AllExecuted, Executed
  <2>4. CASE RemoteMoves(j) BY <2>1, <2>4 DEF RemoteMoves, AllExecuted, Executed
  <2>5. CASE Prune(j)
    <3>1. d.status = "absent" BY <2>2, <2>5 DEF Prune, EmptyJob
    <3> QED BY <2>1, <3>1 DEF AllExecuted, Executed, Made
  <2> QED BY <1>5, <2>3, <2>4, <2>5 DEF Outside
<1>6. CASE UNCHANGED vars BY <1>6 DEF vars, AllExecuted, Executed
<1> QED BY <1>1, <1>2, <1>3, <1>4, <1>5, <1>6, KindsOfStep

LEMMA ExecutedAtFirst == ASSUME Init PROVE AllExecuted
<1>1. \A j \in Jobs : job[j].status \in {"review_pending", "absent"} BY DEF Init, EmptyJob
<1>2. agent.cur = None BY DEF Init, Down
<1> QED BY <1>1, <1>2, JobsAssumption DEF AllExecuted, Executed, Made

(* Recover has nothing to mend of a job that the tools do not touch: every   *)
(* stage writes its files before it moves the status, wherever the process  *)
(* dies (recovery.js, execute.js, submit.js).                               *)
NothingToMend == \A j \in Jobs \ byHand : Recovered(j) = job[j].status

(* So its resets, which the table refuses, come up only for a job that a     *)
(* tool has moved: for the others recover never ends the process.           *)
THEOREM MendTheorem == Spec => [](NothingToMend /\ (byHand = {} => RecoverSurvives))
<1>1. Own /\ Evidence /\ AllExecuted => NothingToMend
  BY DEF Own, Vouched, Waiting, Backed, Evidence, Receipted, AllExecuted, Executed, Made,
         NothingToMend, Recovered
<1>2. NothingToMend => (byHand = {} => RecoverSurvives)
  <2>1. ASSUME NothingToMend, byHand = {} PROVE RecoverSurvives
    BY <2>1 DEF NothingToMend, RecoverSurvives, Admits
  <2> QED BY <2>1
<1> QED BY <1>1, <1>2, TypesAtFirst, TypesKept, EvidenceAtFirst, EvidenceKept, OwnAtFirst, OwnKept,
           ExecutedAtFirst, ExecutedKept, PTL DEF Spec

---------------------------------------------------------------------------
(* What the dry run says *)

(* The dry run passes no job, in whatever status and whatever else it finds: *)
(* the statuses it does not know or takes for too early fail its first step, *)
(* and from each of the three it means to pass, one of the moves it tries    *)
(* skips a status, which the table refuses (contract1-dryrun.js).           *)
NeverPasses == \A j \in Jobs : \A found \in Findings : Verdict(j, found) = "DRY_RUN_FAILED"

LEMMA SomeMoveFails ==
    ASSUME NEW j \in Jobs, job[j].status \in Meaningful PROVE ValidateTransitions(j) # {}
<1>1. /\ job[j].status \in DOMAIN TransitionMap
      /\ "completed" \in TransitionMap[job[j].status]
  BY DEF Meaningful, TransitionMap
<1>2. ~IsValidJobTransition(job[j].status, "completed")
  BY DEF Meaningful, IsValidJobTransition, Allowed, AfterApplication, Terminal
<1> QED BY <1>1, <1>2 DEF ValidateTransitions

(* So the packaged jobs that wait for a signature are refused too, although  *)
(* nothing is wrong with them.                                              *)
THEOREM DryRunTheorem == Spec => []NeverPasses
<1>1. ASSUME NEW j \in Jobs, NEW found \in Findings PROVE FailedChecks(j, found) # {}
  <2>1. CASE ~JobStateUsable(j, found)
    BY <2>1 DEF FailedChecks, ValidateJobState
  <2>2. CASE JobStateUsable(j, found) /\ job[j].status \notin Meaningful
    BY <2>2 DEF FailedChecks, ValidateJobState
  <2>3. CASE JobStateUsable(j, found) /\ job[j].status \in Meaningful
    <3>1. ValidateTransitions(j) # {} BY <2>3, SomeMoveFails
    <3>2. ValidateArtifacts(j, found) \cap Critical # {} => ValidateArtifacts(j, found) # {}
      OBVIOUS
    <3> QED BY <2>3, <3>1, <3>2 DEF FailedChecks, ValidateJobState
  <2> QED BY <2>1, <2>2, <2>3
<1>2. NeverPasses BY <1>1 DEF NeverPasses, Verdict
<1> QED BY <1>2, PTL
=============================================================================
