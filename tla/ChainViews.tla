----------------------------- MODULE ChainViews -----------------------------
(***************************************************************************)
(* What mission control shows of a job of AGIJobManager (mission-control/   *)
(* server.js, lib/contract-first.js): rows of the job list and the          *)
(* operator's view of one job.  Each is put together from several calls to  *)
(* the node, every one of which may fail and then counts for nothing, while *)
(* the contract goes on.                                                    *)
(***************************************************************************)
EXTENDS Naturals, Sequences, FiniteSets

CONSTANTS
    Missing,        \* what a failed call leaves
    MaxValidators,  \* bound: validations cast
    MaxFailedCalls  \* bound: failing calls of one view

Endings == {"Completed", "Disputed", "Expired"}

(* What getJobCore and getJobValidation say of a job.                       *)
Contracts == [assigned : BOOLEAN, requested : BOOLEAN, delisted : BOOLEAN, approvals : Nat,
              ended : {""} \cup Endings]

ASSUME ViewAssumption ==
    /\ MaxValidators \in Nat /\ MaxFailedCalls \in Nat
    /\ Missing \notin Contracts

VARIABLES
    contract,   \* the job, one of Contracts
    reading,    \* [pc, full, events, core, validation] of the request at work
    shown,      \* what the last finished request showed, or Missing
    held,       \* history variable: the statuses the job had since the request began
    failedCalls

viewVars == <<contract, reading, shown, held, failedCalls>>

(* The order in which buildV1OperatorView and buildV2OperatorView ask: the   *)
(* logs of every event, then readV1JobOnchain / readV2JobOnchain.           *)
EventNames == <<"JobApplied", "JobCompletionRequested", "JobValidated", "JobCompleted">>

CoreCall == Len(EventNames) + 1
ValidationCall == CoreCall + 1
Done == ValidationCall + 1

(* deriveJobStatus, with the validation that says "Assigned" first.          *)
DeriveAssignedFirst(core, validation, full) ==
    IF core # Missing /\ core.ended # "" THEN core.ended
    ELSE IF core # Missing /\ core.assigned THEN "Assigned"
    ELSE IF validation # Missing /\ validation.requested THEN "CompletionRequested"
    ELSE "Open"

(* deriveJobStatus of a core and a validation, either of which may be null.  *)
(* There are two: the server's own, of v2 views (full), and that of          *)
(* contract-first.js, of rows and v1 views, which knows of no delisting.    *)
DeriveJobStatus(core, validation, full) ==
    IF core # Missing /\ core.ended # "" THEN core.ended
    ELSE IF validation # Missing /\ validation.requested THEN "CompletionRequested"
    ELSE IF core # Missing /\ core.assigned THEN "Assigned"
    ELSE IF full /\ core # Missing /\ core.delisted THEN "Delisted"
    ELSE "Open"

(* The status the request at work would derive of the job as it is.         *)
TrueStatus == DeriveJobStatus(contract, contract, reading.full)

LogCount(name) ==
    CASE name = "JobApplied" -> IF contract.assigned THEN 1 ELSE 0
      [] name = "JobCompletionRequested" -> IF contract.requested THEN 1 ELSE 0
      [] name = "JobValidated" -> contract.approvals
      [] name = "JobCompleted" -> IF contract.ended = "Completed" THEN 1 ELSE 0

NoView == [pc |-> 0, full |-> FALSE, events |-> [n \in {EventNames[i] : i \in DOMAIN EventNames} |-> 0],
           core |-> Missing, validation |-> Missing]

ViewInit ==
    /\ contract = [assigned |-> FALSE, requested |-> FALSE, delisted |-> FALSE, approvals |-> 0, ended |-> ""]
    /\ reading = NoView /\ shown = Missing /\ failedCalls = 0
    /\ held = {}

Begin(call, full) ==
    /\ reading.pc = 0
    /\ reading' = [NoView EXCEPT !.pc = call, !.full = full]
    /\ held' = {DeriveJobStatus(contract, contract, full)} /\ failedCalls' = 0
    /\ UNCHANGED <<contract, shown>>

(* A request begins; an unreachable node ends it with an empty view.           *)
BeginView == \E full \in BOOLEAN : Begin(1, full)

(* The job list asks for the core and the validation only.                  *)
BeginRow == Begin(CoreCall, FALSE)

Answered(next) == reading' = next /\ UNCHANGED <<contract, shown, held, failedCalls>>

Failed ==
    /\ reading.pc \in 1..ValidationCall /\ failedCalls < MaxFailedCalls
    /\ reading' = [reading EXCEPT !.pc = @ + 1]
    /\ failedCalls' = failedCalls + 1
    /\ UNCHANGED <<contract, shown, held>>

ReadLogs ==
    /\ reading.pc \in DOMAIN EventNames
    /\ LET name == EventNames[reading.pc]
       IN  Answered([reading EXCEPT !.events[name] = LogCount(name), !.pc = @ + 1])

ReadCore ==
    /\ reading.pc = CoreCall
    /\ Answered([reading EXCEPT !.core = contract, !.pc = @ + 1])

ReadValidation ==
    /\ reading.pc = ValidationCall
    /\ Answered([reading EXCEPT !.validation = contract, !.pc = @ + 1])

(* onchainSummary and normalizeV1JobForList: a count that was not read is 0.*)
(* complete, counted and truth remember what the view does not say.         *)
Show ==
    /\ reading.pc = Done
    /\ shown' = [status |-> DeriveJobStatus(reading.core, reading.validation, reading.full),
                 events |-> reading.events,
                 approvals |-> IF reading.validation = Missing THEN 0 ELSE reading.validation.approvals,
                 counted |-> reading.validation # Missing,
                 complete |-> reading.core # Missing /\ reading.validation # Missing,
                 truth |-> held]
    /\ reading' = NoView /\ held' = {} /\ failedCalls' = 0
    /\ UNCHANGED contract

ContractStep ==
    /\ contract.ended = ""
    /\ \/ ~contract.assigned /\ contract' = [contract EXCEPT !.assigned = TRUE]
       \/ ~contract.delisted /\ contract' = [contract EXCEPT !.delisted = TRUE]
       \/ contract.assigned /\ ~contract.requested /\ contract' = [contract EXCEPT !.requested = TRUE]
       \/ contract.requested /\ contract.approvals < MaxValidators
            /\ contract' = [contract EXCEPT !.approvals = @ + 1]
       \/ contract.requested /\ \E e \in Endings : contract' = [contract EXCEPT !.ended = e]
    /\ held' = IF reading.pc = 0 THEN held ELSE held \cup {DeriveJobStatus(contract', contract', reading.full)}
    /\ UNCHANGED <<reading, shown, failedCalls>>

ViewNext ==
    \/ BeginView \/ BeginRow \/ Failed \/ ReadLogs \/ ReadCore \/ ReadValidation \/ Show
    \/ ContractStep

ViewSpec == ViewInit /\ [][ViewNext]_viewVars

---------------------------------------------------------------------------
(* What a view shows was so, as far as its calls were answered.  A status    *)
(* from a core and a validation that both arrived is one the job had at     *)
(* some moment of the request, although the two were read at different      *)
(* times (deriveJobStatus over readV1JobOnchain); and approvals that were   *)
(* read are no fewer than the validations the view lists, though these were *)
(* read before (buildV2OperatorView).  A count that was not read shows as   *)
(* 0, next to whatever validations are listed.                              *)
RowWasTrue ==
    shown # Missing =>
        /\ shown.complete => shown.status \in shown.truth
        /\ shown.counted => shown.events["JobValidated"] <= shown.approvals
=============================================================================
