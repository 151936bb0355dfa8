----------------------- MODULE MissionControl_proofs ------------------------
(***************************************************************************)
(* What mission control promises, part by part: the views of the chain, the *)
(* queue of transactions to sign, the runs handed to outside agents and the *)
(* panels of the browser.  The parts share no variable, and no lemma of one *)
(* is about another.                                                        *)
(***************************************************************************)
EXTENDS ChainViews, OperatorQueue, AgentRuns, BrowserPanels, SequenceTheorems, TLAPS

---------------------------------------------------------------------------
(* The views of the chain (ChainViews): a view shows what was so, for any    *)
(* number of validations, of failing calls and of events of the contract     *)
(* between two calls.  The contract only ever gains: what the later call     *)
(* found includes what the earlier one found, and the moment in between is   *)
(* one of the request's.                                                     *)

EventSet == {EventNames[i] : i \in DOMAIN EventNames}

(* d is c, or c some events later. *)
Before(c, d) ==
    /\ c.assigned => d.assigned
    /\ c.requested => d.requested
    /\ c.approvals <= d.approvals
    /\ c.ended # "" => d.ended = c.ended

ReadingShape ==
    /\ reading.pc \in 0..Done /\ reading.full \in BOOLEAN
    /\ reading.events \in [EventSet -> Nat]
    /\ reading = [pc |-> reading.pc, full |-> reading.full, events |-> reading.events,
                  core |-> reading.core, validation |-> reading.validation]
    /\ reading.core \in Contracts \cup {Missing}
    /\ reading.validation \in Contracts \cup {Missing}

(* The core is from a moment of the request, and if it had no request for   *)
(* completion yet and the contract has one, that moment was one too.        *)
CoreWasHeld ==
    reading.core # Missing =>
        /\ reading.pc > CoreCall
        /\ Before(reading.core, contract)
        /\ DeriveJobStatus(reading.core, reading.core, reading.full) \in held
        /\ reading.core.ended = "" /\ contract.requested => "CompletionRequested" \in held

ValidationIsLater ==
    reading.validation # Missing =>
        /\ reading.pc = Done
        /\ Before(reading.validation, contract)
        /\ reading.core # Missing => Before(reading.core, reading.validation)
        /\ reading.events["JobValidated"] <= reading.validation.approvals

ViewInv ==
    /\ contract \in Contracts
    /\ contract.requested => contract.assigned
    /\ ReadingShape
    /\ reading.pc # 0 => TrueStatus \in held
    /\ CoreWasHeld
    /\ ValidationIsLater
    /\ reading.events["JobValidated"] <= contract.approvals
    /\ RowWasTrue

LEMMA NamesOfEvents ==
    /\ EventSet = {"JobApplied", "JobCompletionRequested", "JobValidated", "JobCompleted"}
    /\ DOMAIN EventNames = 1..4
    /\ \A i \in 1..4 : EventNames[i] \in EventSet
    /\ CoreCall = 5 /\ ValidationCall = 6 /\ Done = 7
BY DEF EventSet, EventNames, CoreCall, ValidationCall, Done

LEMMA NoViewShape ==
    /\ NoView.pc = 0 /\ NoView.full = FALSE /\ NoView.core = Missing /\ NoView.validation = Missing
    /\ NoView.events = [n \in EventSet |-> 0]
BY DEF NoView, EventSet

LEMMA ContractsAreThere == ASSUME NEW c \in Contracts PROVE c # Missing
BY ViewAssumption

LEMMA ViewInvInit == ASSUME ViewInit PROVE ViewInv
<1>0. /\ reading.pc = 0 /\ reading.full = FALSE /\ reading.core = Missing /\ reading.validation = Missing
      /\ reading.events = [n \in EventSet |-> 0]
  <2>1. reading = NoView BY DEF ViewInit
  <2> QED BY <2>1, NoViewShape
<1>1. /\ contract \in Contracts /\ (contract.requested => contract.assigned)
      /\ contract.approvals = 0
  BY DEF ViewInit, Contracts
<1>2. ReadingShape
  <2>1. reading = [pc |-> reading.pc, full |-> reading.full, events |-> reading.events,
                   core |-> reading.core, validation |-> reading.validation]
    BY DEF ViewInit, NoView
  <2>2. reading.events \in [EventSet -> Nat] BY <1>0
  <2>3. reading.pc \in 0..Done
    <3>1. reading.pc = 0 BY <1>0
    <3> QED BY <3>1, NamesOfEvents
  <2>4. reading.full \in BOOLEAN
    <3>1. reading.full = FALSE BY <1>0, Zenon
    <3> QED BY <3>1, Zenon
  <2>5. reading.core \in Contracts \cup {Missing} /\ reading.validation \in Contracts \cup {Missing}
    BY <1>0
  <2> QED BY ONLY <2>1, <2>2, <2>3, <2>4, <2>5 DEF ReadingShape
<1>3. CoreWasHeld /\ ValidationIsLater
  BY <1>0 DEF CoreWasHeld, ValidationIsLater
<1>4. reading.events["JobValidated"] <= contract.approvals
  BY <1>0, <1>1, NamesOfEvents
<1>5. RowWasTrue BY DEF ViewInit, RowWasTrue
<1> QED BY <1>0, <1>1, <1>2, <1>3, <1>4, <1>5 DEF ViewInv

(* Each kind of step, first what it does to the reading.                    *)
LEMMA BeginKeeps == ASSUME ViewInv, BeginView \/ BeginRow PROVE ViewInv'
<1>1. PICK n \in {1, 5}, full \in BOOLEAN : Begin(n, full)
  BY NamesOfEvents DEF BeginView, BeginRow
<1>2. /\ reading' = [NoView EXCEPT !.pc = n, !.full = full]
      /\ reading'.pc \in {1, 5} /\ reading'.full = full
      /\ reading'.core = Missing /\ reading'.validation = Missing
      /\ reading'.events = [m \in EventSet |-> 0]
  BY <1>1 DEF Begin, NoView, EventSet
<1>3. contract' = contract /\ shown' = shown /\ held' = {DeriveJobStatus(contract, contract, full)}
  BY <1>1 DEF Begin
<1>4. ReadingShape'
  <2>1. reading' = [pc |-> reading'.pc, full |-> reading'.full, events |-> reading'.events,
                    core |-> reading'.core, validation |-> reading'.validation]
    BY <1>2 DEF NoView
  <2>2. reading'.events \in [EventSet -> Nat] BY <1>2
  <2> QED BY <1>2, <2>1, <2>2, NamesOfEvents DEF ReadingShape
<1>5. reading'.events["JobValidated"] <= contract'.approvals
  <2>1. contract.approvals \in Nat BY DEF ViewInv, Contracts
  <2>2. reading'.events["JobValidated"] = 0 BY <1>2, NamesOfEvents
  <2> QED BY <1>3, <2>1, <2>2
<1>6. TrueStatus' \in held' BY <1>2, <1>3 DEF TrueStatus
<1>7. RowWasTrue' BY <1>3 DEF ViewInv, RowWasTrue
<1> QED BY <1>2, <1>3, <1>4, <1>5, <1>6, <1>7 DEF ViewInv, CoreWasHeld, ValidationIsLater

LEMMA FailedKeeps == ASSUME ViewInv, Failed PROVE ViewInv'
<1>1. /\ reading' = [reading EXCEPT !.pc = @ + 1] /\ reading.pc \in 1..6
      /\ contract' = contract /\ shown' = shown /\ held' = held
  BY NamesOfEvents DEF Failed
<1>2. /\ reading'.pc = reading.pc + 1 /\ reading'.full = reading.full /\ reading'.core = reading.core
      /\ reading'.validation = reading.validation /\ reading'.events = reading.events
      /\ ReadingShape'
  BY <1>1, NamesOfEvents DEF ViewInv, ReadingShape
<1>3. CoreWasHeld'
  <2>1. CoreWasHeld BY DEF ViewInv
  <2>2. reading.pc > 5 => reading'.pc > 5 BY <1>1, <1>2
  <2>3. /\ reading'.core = reading.core /\ reading'.full = reading.full
        /\ contract' = contract /\ held' = held
    BY <1>1, <1>2
  <2> QED
    <3> SUFFICES ASSUME reading'.core # Missing PROVE CoreWasHeld'
      BY DEF CoreWasHeld
    <3>1. /\ reading.pc > CoreCall /\ Before(reading.core, contract)
          /\ DeriveJobStatus(reading.core, reading.core, reading.full) \in held
          /\ reading.core.ended = "" /\ contract.requested => "CompletionRequested" \in held
      BY <2>1, <2>3 DEF CoreWasHeld
    <3>2. reading'.pc > CoreCall BY <2>2, <3>1, NamesOfEvents
    <3>3. Before(reading'.core, contract') BY <2>3, <3>1
    <3>4. DeriveJobStatus(reading'.core, reading'.core, reading'.full) \in held'
      BY <2>3, <3>1
    <3> QED BY <2>3, <3>1, <3>2, <3>3, <3>4 DEF CoreWasHeld
<1>4. ValidationIsLater' BY <1>1, <1>2, NamesOfEvents DEF ViewInv, ValidationIsLater
<1>5. TrueStatus' \in held'
  <2>1. TrueStatus \in held BY <1>1 DEF ViewInv
  <2>2. TrueStatus' = TrueStatus
    <3>1. reading'.full = reading.full BY <1>1 DEF ViewInv, ReadingShape
    <3> QED BY <1>1, <3>1 DEF TrueStatus
  <2> QED BY <1>1, <2>1, <2>2
<1> QED BY <1>1, <1>2, <1>3, <1>4, <1>5 DEF ViewInv, RowWasTrue

LEMMA ReadLogsKeeps == ASSUME ViewInv, ReadLogs PROVE ViewInv'
<1> DEFINE name == EventNames[reading.pc]
<1>1. /\ reading' = [reading EXCEPT !.events[name] = LogCount(name), !.pc = @ + 1]
      /\ reading.pc \in 1..4 /\ name \in EventSet
      /\ contract' = contract /\ shown' = shown /\ held' = held
  BY NamesOfEvents DEF ReadLogs, Answered
<1>2. LogCount(name) \in Nat /\ (name = "JobValidated" => LogCount(name) = contract.approvals)
  <2>1. contract.approvals \in Nat BY DEF ViewInv, Contracts
  <2> QED BY <1>1, <2>1, NamesOfEvents DEF LogCount
<1>3. ReadingShape BY DEF ViewInv
<1>4. /\ reading'.pc = reading.pc + 1 /\ reading'.full = reading.full /\ reading'.core = reading.core
      /\ reading'.validation = reading.validation
      /\ reading'.events = [reading.events EXCEPT ![name] = LogCount(name)]
      /\ reading' = [pc |-> reading.pc + 1, full |-> reading.full, events |-> [reading.events EXCEPT ![name] = LogCount(name)],
                     core |-> reading.core, validation |-> reading.validation]
  BY <1>1, <1>3 DEF ReadingShape
<1>5. reading'.events \in [EventSet -> Nat] BY <1>1, <1>2, <1>3, <1>4 DEF ReadingShape
<1>6. ReadingShape'
  <2>1. reading'.pc \in 0..Done BY <1>1, <1>4, NamesOfEvents
  <2>2. /\ reading'.core \in Contracts \cup {Missing} /\ reading'.validation \in Contracts \cup {Missing}
        /\ reading'.full \in BOOLEAN
    BY <1>3, <1>4 DEF ReadingShape
  <2>3. reading' = [pc |-> reading'.pc, full |-> reading'.full, events |-> reading'.events,
                    core |-> reading'.core, validation |-> reading'.validation]
    BY <1>4
  <2> QED BY <1>5, <2>1, <2>2, <2>3 DEF ReadingShape
<1>7. reading.core = Missing /\ reading.validation = Missing
  <2>1. CoreWasHeld /\ ValidationIsLater BY DEF ViewInv
  <2>2. ~ reading.pc > CoreCall /\ reading.pc # Done BY <1>1, NamesOfEvents
  <2> QED BY <2>1, <2>2 DEF CoreWasHeld, ValidationIsLater
<1>8. reading'.events["JobValidated"] <= contract'.approvals
  <2>1. contract.approvals \in Nat BY DEF ViewInv, Contracts
  <2>2. reading.events["JobValidated"] <= contract.approvals BY DEF ViewInv
  <2> QED BY <1>1, <1>2, <1>3, <1>4, <2>1, <2>2, NamesOfEvents DEF ReadingShape
<1>9. TrueStatus' \in held'
  <2>1. TrueStatus \in held BY <1>1 DEF ViewInv
  <2>2. TrueStatus' = TrueStatus
    <3>1. reading'.full = reading.full BY <1>1 DEF ViewInv, ReadingShape
    <3> QED BY <1>1, <3>1 DEF TrueStatus
  <2> QED BY <1>1, <2>1, <2>2
<1> QED BY <1>1, <1>4, <1>6, <1>7, <1>8, <1>9
        DEF ViewInv, CoreWasHeld, ValidationIsLater, RowWasTrue

LEMMA BeforeItself == ASSUME NEW c \in Contracts PROVE Before(c, c)
<1>1. c.approvals \in Nat BY DEF Contracts
<1>2. c.approvals <= c.approvals BY <1>1
<1> QED BY <1>2 DEF Before

LEMMA ReadCoreKeeps == ASSUME ViewInv, ReadCore PROVE ViewInv'
<1>1. /\ reading' = [reading EXCEPT !.core = contract, !.pc = @ + 1] /\ reading.pc = 5
      /\ contract' = contract /\ shown' = shown /\ held' = held
  BY NamesOfEvents DEF ReadCore, Answered
<1>2. /\ reading'.pc = 6 /\ reading'.full = reading.full /\ reading'.core = contract /\ reading'.events = reading.events
      /\ reading'.validation = reading.validation /\ ReadingShape'
  <2>1. ReadingShape /\ contract \in Contracts BY DEF ViewInv
  <2>2. reading' = [pc |-> 6, full |-> reading.full, events |-> reading.events, core |-> contract,
                    validation |-> reading.validation]
    <3>1. reading' = [pc |-> reading.pc + 1, full |-> reading.full, events |-> reading.events, core |-> contract,
                      validation |-> reading.validation]
      BY <1>1, <2>1 DEF ReadingShape
    <3>2. reading.pc + 1 = 6 BY <1>1
    <3> QED BY <3>1, <3>2
  <2> QED BY <2>1, <2>2, NamesOfEvents DEF ReadingShape
<1>3. reading.validation = Missing BY <1>1, NamesOfEvents DEF ViewInv, ValidationIsLater
<1>4. contract \in Contracts /\ contract # Missing /\ Before(contract, contract)
  BY ContractsAreThere, BeforeItself DEF ViewInv
<1>5. TrueStatus \in held BY <1>1 DEF ViewInv
<1>6. CoreWasHeld'
  <2>1. DeriveJobStatus(reading'.core, reading'.core, reading'.full) \in held'
    <3>1. TrueStatus = DeriveJobStatus(reading'.core, reading'.core, reading'.full) BY <1>2 DEF TrueStatus
    <3> QED BY <1>1, <1>5, <3>1
  <2>2. ASSUME contract.ended = "", contract.requested PROVE "CompletionRequested" \in held
    BY <1>4, <1>5, <2>2 DEF TrueStatus, DeriveJobStatus
  <2>3. Before(reading'.core, contract') BY <1>1, <1>2, <1>4
  <2>4. reading'.pc > CoreCall BY <1>2, NamesOfEvents
  <2>5. reading'.core.ended = "" /\ contract'.requested => "CompletionRequested" \in held'
    BY <1>1, <1>2, <2>2
  <2> QED BY <2>1, <2>3, <2>4, <2>5 DEF CoreWasHeld
<1>7. TrueStatus' \in held' BY <1>1, <1>2, <1>5 DEF TrueStatus
<1> QED BY <1>1, <1>2, <1>3, <1>6, <1>7 DEF ViewInv, ValidationIsLater, RowWasTrue

LEMMA ReadValidationKeeps == ASSUME ViewInv, ReadValidation PROVE ViewInv'
<1>1. /\ reading' = [reading EXCEPT !.validation = contract, !.pc = @ + 1] /\ reading.pc = 6
      /\ contract' = contract /\ shown' = shown /\ held' = held
  BY NamesOfEvents DEF ReadValidation, Answered
<1>2. /\ reading'.pc = 7 /\ reading'.full = reading.full /\ reading'.core = reading.core /\ reading'.events = reading.events
      /\ reading'.validation = contract /\ ReadingShape'
  <2>1. ReadingShape /\ contract \in Contracts BY DEF ViewInv
  <2>2. reading' = [pc |-> 7, full |-> reading.full, events |-> reading.events, core |-> reading.core,
                    validation |-> contract]
    <3>1. reading' = [pc |-> reading.pc + 1, full |-> reading.full, events |-> reading.events, core |-> reading.core,
                      validation |-> contract]
      BY <1>1, <2>1 DEF ReadingShape
    <3>2. reading.pc + 1 = 7 BY <1>1
    <3> QED BY <3>1, <3>2
  <2> QED BY <2>1, <2>2, NamesOfEvents DEF ReadingShape
<1>3. contract \in Contracts /\ Before(contract, contract) BY BeforeItself DEF ViewInv
<1>4. TrueStatus \in held BY <1>1 DEF ViewInv
<1>5. CoreWasHeld'
  <2>1. CoreWasHeld BY DEF ViewInv
  <2>2. /\ reading'.core = reading.core /\ reading'.full = reading.full
        /\ contract' = contract /\ held' = held
    BY <1>1, <1>2
  <2> QED
    <3> SUFFICES ASSUME reading'.core # Missing PROVE CoreWasHeld'
      BY DEF CoreWasHeld
    <3>1. /\ Before(reading.core, contract)
          /\ DeriveJobStatus(reading.core, reading.core, reading.full) \in held
          /\ reading.core.ended = "" /\ contract.requested => "CompletionRequested" \in held
      BY <2>1, <2>2 DEF CoreWasHeld
    <3>2. reading'.pc > CoreCall BY <1>2, NamesOfEvents
    <3>3. Before(reading'.core, contract') BY <2>2, <3>1
    <3>4. DeriveJobStatus(reading'.core, reading'.core, reading'.full) \in held'
      BY <2>2, <3>1
    <3> QED BY <2>2, <3>1, <3>2, <3>3, <3>4 DEF CoreWasHeld
<1>6. ValidationIsLater'
  <2>1. reading.core # Missing => Before(reading.core, contract) BY DEF ViewInv, CoreWasHeld
  <2>2. reading.events["JobValidated"] <= contract.approvals BY DEF ViewInv
  <2>3. Before(reading'.validation, contract') BY <1>1, <1>2, <1>3
  <2>4. reading'.core # Missing => Before(reading'.core, reading'.validation) BY <1>2, <2>1
  <2>5. reading'.events["JobValidated"] <= reading'.validation.approvals BY <1>2, <2>2
  <2> QED BY <1>2, <2>3, <2>4, <2>5, NamesOfEvents DEF ValidationIsLater
<1>7. TrueStatus' \in held' BY <1>1, <1>2, <1>4 DEF TrueStatus
<1> QED BY <1>1, <1>2, <1>5, <1>6, <1>7 DEF ViewInv, RowWasTrue

LEMMA ShowKeeps == ASSUME ViewInv, Show PROVE ViewInv'
<1>1. /\ reading' = NoView /\ contract' = contract /\ held' = {}
      /\ shown'.status = DeriveJobStatus(reading.core, reading.validation, reading.full)
      /\ shown'.events = reading.events
      /\ shown'.counted => reading.validation # Missing /\ shown'.approvals = reading.validation.approvals
      /\ shown'.complete <=> (reading.core # Missing /\ reading.validation # Missing)
      /\ shown'.truth = held
  BY DEF Show
<1>2. /\ reading'.pc = 0 /\ reading'.full = FALSE /\ reading'.core = Missing /\ reading'.validation = Missing
      /\ reading'.events = [n \in EventSet |-> 0]
  BY <1>1, NoViewShape
<1>3. ReadingShape'
  <2>1. reading' = [pc |-> reading'.pc, full |-> reading'.full, events |-> reading'.events,
                    core |-> reading'.core, validation |-> reading'.validation]
    BY <1>1 DEF NoView
  <2>2. reading'.events \in [EventSet -> Nat] BY <1>2
  <2>3. reading'.pc \in 0..Done
    <3>1. reading'.pc = 0 BY <1>2
    <3> QED BY <3>1, NamesOfEvents
  <2>4. reading'.full \in BOOLEAN
    <3>1. reading'.full = FALSE BY <1>2, Zenon
    <3> QED BY <3>1, Zenon
  <2>5. reading'.core \in Contracts \cup {Missing} /\ reading'.validation \in Contracts \cup {Missing}
    BY <1>2
  <2> QED BY ONLY <2>1, <2>2, <2>3, <2>4, <2>5 DEF ReadingShape
<1>4. reading'.events["JobValidated"] <= contract'.approvals
  <2>1. contract.approvals \in Nat BY DEF ViewInv, Contracts
  <2> QED BY <1>1, <1>2, <2>1, NamesOfEvents
<1>5. CoreWasHeld /\ ValidationIsLater BY DEF ViewInv
<1>6. ASSUME reading.core # Missing, reading.validation # Missing
      PROVE DeriveJobStatus(reading.core, reading.validation, reading.full) \in held
  <2>1. /\ Before(reading.core, reading.validation) /\ Before(reading.validation, contract)
        /\ DeriveJobStatus(reading.core, reading.core, reading.full) \in held
        /\ reading.core.ended = "" /\ contract.requested => "CompletionRequested" \in held
    BY <1>5, <1>6 DEF CoreWasHeld, ValidationIsLater
  <2>2. CASE reading.core.ended # ""
    BY <1>6, <2>1, <2>2 DEF DeriveJobStatus
  <2>3. CASE reading.core.ended = "" /\ reading.validation.requested
    <3>1. DeriveJobStatus(reading.core, reading.validation, reading.full) = "CompletionRequested"
      BY <1>6, <2>3 DEF DeriveJobStatus
    <3> QED BY <2>1, <2>3, <3>1 DEF Before
  <2>4. CASE reading.core.ended = "" /\ ~reading.validation.requested
    <3>1. ~reading.core.requested BY <2>1, <2>4 DEF Before
    <3>2. DeriveJobStatus(reading.core, reading.validation, reading.full) = DeriveJobStatus(reading.core, reading.core, reading.full)
      BY <1>6, <2>4, <3>1 DEF DeriveJobStatus
    <3> QED BY <2>1, <3>2
  <2> QED BY <2>2, <2>3, <2>4
<1>7. ASSUME reading.validation # Missing
      PROVE reading.events["JobValidated"] <= reading.validation.approvals
  BY <1>5, <1>7 DEF ValidationIsLater
<1>8. RowWasTrue'
  <2>1. shown'.complete => shown'.status \in shown'.truth BY <1>1, <1>6
  <2>2. ASSUME shown'.counted
        PROVE shown'.events["JobValidated"] <= shown'.approvals
    BY <1>1, <1>7, <2>2
  <2> QED BY <2>1, <2>2 DEF RowWasTrue
<1>9. (CoreWasHeld /\ ValidationIsLater)'
  BY <1>2 DEF CoreWasHeld, ValidationIsLater
<1> QED BY <1>1, <1>2, <1>3, <1>4, <1>8, <1>9 DEF ViewInv

(* What an event of the contract does.                                      *)
LEMMA ContractGains ==
    ASSUME ViewInv, ContractStep
    PROVE  /\ contract' \in Contracts
           /\ contract'.requested => contract'.assigned
           /\ Before(contract, contract')
           /\ contract'.requested /\ ~contract.requested => contract'.ended = ""
<1>1. /\ contract \in Contracts /\ contract.ended = ""
      /\ contract.requested => contract.assigned
  BY DEF ViewInv, ContractStep
<1>2. contract.assigned \in BOOLEAN /\ contract.requested \in BOOLEAN /\ contract.delisted \in BOOLEAN
  BY <1>1 DEF Contracts
<1>3. contract.approvals \in Nat BY <1>1 DEF Contracts
<1>4. CASE ~contract.assigned /\ contract' = [contract EXCEPT !.assigned = TRUE]
  <2>1. contract' = [assigned |-> TRUE, requested |-> contract.requested,
                     delisted |-> contract.delisted, approvals |-> contract.approvals, ended |-> ""]
    BY <1>1, <1>4 DEF Contracts
  <2>2. contract' \in Contracts BY <1>2, <1>3, <2>1 DEF Contracts, Endings
  <2>3. contract.approvals <= contract'.approvals
    <3>1. contract'.approvals \in {contract.approvals, contract.approvals + 1} BY <2>1
    <3> QED BY <1>3, <3>1
  <2>4. /\ contract'.requested => contract'.assigned
        /\ contract'.requested /\ ~contract.requested => contract'.ended = ""
    BY <1>1, <1>4, <2>1
  <2>5. Before(contract, contract') BY <1>1, <2>1, <2>3 DEF Before
  <2> QED BY <2>2, <2>4, <2>5
<1>5. CASE contract.assigned /\ ~contract.requested /\ contract' = [contract EXCEPT !.requested = TRUE]
  <2>1. contract' = [assigned |-> contract.assigned, requested |-> TRUE,
                     delisted |-> contract.delisted, approvals |-> contract.approvals, ended |-> ""]
    BY <1>1, <1>5 DEF Contracts
  <2>2. contract' \in Contracts BY <1>2, <1>3, <2>1 DEF Contracts, Endings
  <2>3. contract.approvals <= contract'.approvals
    <3>1. contract'.approvals \in {contract.approvals, contract.approvals + 1} BY <2>1
    <3> QED BY <1>3, <3>1
  <2>4. /\ contract'.requested => contract'.assigned
        /\ contract'.requested /\ ~contract.requested => contract'.ended = ""
    BY <1>1, <1>5, <2>1
  <2>5. Before(contract, contract') BY <1>1, <2>1, <2>3 DEF Before
  <2> QED BY <2>2, <2>4, <2>5
<1>6. CASE contract.requested /\ contract' = [contract EXCEPT !.approvals = @ + 1]
  <2>1. contract' = [assigned |-> contract.assigned, requested |-> contract.requested,
                     delisted |-> contract.delisted, approvals |-> contract.approvals + 1, ended |-> ""]
    BY <1>1, <1>6 DEF Contracts
  <2>2. contract' \in Contracts
    <3>1. contract.approvals + 1 \in Nat BY <1>3
    <3> QED BY <1>2, <2>1, <3>1 DEF Contracts, Endings
  <2>3. contract.approvals <= contract'.approvals
    <3>1. contract'.approvals \in {contract.approvals, contract.approvals + 1} BY <2>1
    <3> QED BY <1>3, <3>1
  <2>4. /\ contract'.requested => contract'.assigned
        /\ contract'.requested /\ ~contract.requested => contract'.ended = ""
    BY <1>1, <1>6, <2>1
  <2>5. Before(contract, contract') BY <1>1, <2>1, <2>3 DEF Before
  <2> QED BY <2>2, <2>4, <2>5
<1>7. CASE contract.requested /\ \E e \in Endings : contract' = [contract EXCEPT !.ended = e]
  <2>1. PICK e \in Endings : contract' = [contract EXCEPT !.ended = e] BY <1>7
  <2>2. contract' = [assigned |-> contract.assigned, requested |-> contract.requested,
                     delisted |-> contract.delisted, approvals |-> contract.approvals, ended |-> e]
    BY <1>1, <2>1 DEF Contracts
  <2>3. contract' \in Contracts BY <1>2, <1>3, <2>2 DEF Contracts, Endings
  <2>4. contract.approvals <= contract'.approvals
    <3>1. contract'.approvals \in {contract.approvals, contract.approvals + 1} BY <2>2
    <3> QED BY <1>3, <3>1
  <2>5. /\ contract'.requested => contract'.assigned
        /\ contract'.requested /\ ~contract.requested => contract'.ended = ""
    BY <1>1, <1>7, <2>2
  <2>6. Before(contract, contract') BY <1>1, <2>2, <2>4 DEF Before
  <2> QED BY <2>3, <2>5, <2>6
<1>8. CASE contract' = [contract EXCEPT !.delisted = TRUE]
  <2>1. contract' = [assigned |-> contract.assigned, requested |-> contract.requested,
                     delisted |-> TRUE, approvals |-> contract.approvals, ended |-> ""]
    BY <1>1, <1>8 DEF Contracts
  <2>2. contract' \in Contracts BY <1>2, <1>3, <2>1 DEF Contracts, Endings
  <2>3. contract.approvals <= contract'.approvals
    <3>1. contract'.approvals \in {contract.approvals, contract.approvals + 1} BY <2>1
    <3> QED BY <1>3, <3>1
  <2>4. /\ contract'.requested => contract'.assigned
        /\ contract'.requested /\ ~contract.requested => contract'.ended = ""
    BY <1>1, <1>8, <2>1
  <2>5. Before(contract, contract') BY <1>1, <2>1, <2>3 DEF Before
  <2> QED BY <2>2, <2>4, <2>5
<1> QED BY <1>4, <1>5, <1>6, <1>7, <1>8 DEF ContractStep

LEMMA BeforeIsTransitive ==
    ASSUME NEW c \in Contracts, NEW d \in Contracts, NEW e \in Contracts, Before(c, d), Before(d, e)
    PROVE  Before(c, e)
<1>1. c.approvals \in Nat /\ d.approvals \in Nat /\ e.approvals \in Nat BY DEF Contracts
<1>2. c.approvals <= d.approvals /\ d.approvals <= e.approvals BY DEF Before
<1>3. c.approvals <= e.approvals BY <1>1, <1>2
<1> QED BY <1>3 DEF Before

LEMMA ContractStepKeeps == ASSUME ViewInv, ContractStep PROVE ViewInv'
<1>1. /\ contract \in Contracts /\ ReadingShape /\ CoreWasHeld /\ ValidationIsLater /\ RowWasTrue
      /\ reading.pc # 0 => TrueStatus \in held
      /\ reading.events["JobValidated"] <= contract.approvals
  BY DEF ViewInv
<1>2. /\ reading' = reading /\ shown' = shown
      /\ held' = IF reading.pc = 0 THEN held ELSE held \cup {TrueStatus'}
  BY DEF ContractStep, TrueStatus
<1>3. /\ contract' \in Contracts
      /\ contract'.requested => contract'.assigned
      /\ Before(contract, contract')
      /\ contract'.requested /\ ~contract.requested => contract'.ended = ""
  BY ContractGains
<1>4. CoreWasHeld'
  <2> SUFFICES ASSUME reading.core # Missing PROVE CoreWasHeld'
    BY <1>2 DEF CoreWasHeld
  <2>1. /\ reading.pc > CoreCall /\ Before(reading.core, contract)
        /\ DeriveJobStatus(reading.core, reading.core, reading.full) \in held
        /\ reading.core.ended = "" /\ contract.requested => "CompletionRequested" \in held
    BY <1>1 DEF CoreWasHeld
  <2>2. reading.core \in Contracts BY <1>1 DEF ReadingShape
  <2>3. Before(reading.core, contract') BY <1>1, <1>3, <2>1, <2>2, BeforeIsTransitive
  <2>4. reading.pc # 0
    <3>1. reading.pc \in Nat BY <1>1, NamesOfEvents DEF ReadingShape
    <3>2. reading.pc > 5 BY <2>1, NamesOfEvents
    <3> QED BY <3>1, <3>2
  <2>5. held' = held \cup {TrueStatus'} BY <1>2, <2>4
  <2>6. ASSUME reading.core.ended = "", contract'.requested PROVE "CompletionRequested" \in held'
    <3>1. CASE contract.requested BY <2>1, <2>5, <2>6, <3>1
    <3>2. CASE ~contract.requested
      <4>1. contract' # Missing BY <1>3, ContractsAreThere
      <4>2. TrueStatus' = "CompletionRequested"
        BY <1>3, <2>6, <3>2, <4>1 DEF TrueStatus, DeriveJobStatus
      <4> QED BY <2>5, <4>2
    <3> QED BY <3>1, <3>2
  <2>7. DeriveJobStatus(reading'.core, reading'.core, reading'.full) \in held'
    <3>1. DeriveJobStatus(reading'.core, reading'.core, reading'.full) = DeriveJobStatus(reading.core, reading.core, reading.full)
      BY <1>2
    <3> QED BY <2>1, <2>5, <3>1
  <2> QED BY <1>2, <2>1, <2>3, <2>6, <2>7 DEF CoreWasHeld
<1>5. ValidationIsLater'
  <2> SUFFICES ASSUME reading.validation # Missing PROVE ValidationIsLater'
    BY <1>2 DEF ValidationIsLater
  <2>1. /\ reading.pc = Done /\ Before(reading.validation, contract)
        /\ reading.core # Missing => Before(reading.core, reading.validation)
        /\ reading.events["JobValidated"] <= reading.validation.approvals
    BY <1>1 DEF ValidationIsLater
  <2>2. reading.validation \in Contracts BY <1>1 DEF ReadingShape
  <2>3. Before(reading.validation, contract') BY <1>1, <1>3, <2>1, <2>2, BeforeIsTransitive
  <2> QED BY <1>2, <2>1, <2>3 DEF ValidationIsLater
<1>6. reading'.events["JobValidated"] <= contract'.approvals
  <2>1. contract.approvals \in Nat /\ contract'.approvals \in Nat BY <1>1, <1>3 DEF Contracts
  <2>2. reading.events["JobValidated"] \in Nat BY <1>1, NamesOfEvents DEF ReadingShape
  <2>3. contract.approvals <= contract'.approvals BY <1>3 DEF Before
  <2> QED BY <1>1, <1>2, <2>1, <2>2, <2>3
<1>7. reading'.pc # 0 => TrueStatus' \in held' BY <1>2
<1>8. ReadingShape' /\ RowWasTrue' BY <1>1, <1>2 DEF ReadingShape, RowWasTrue
<1> QED BY <1>3, <1>4, <1>5, <1>6, <1>7, <1>8 DEF ViewInv

(* A row or a view that was put together from a core and a validation shows *)
(* a status the job had while it was being put together, and one whose      *)
(* validation was read no more validations in its list than in its summary  *)
(* (deriveJobStatus over readV1JobOnchain, buildV2OperatorView).            *)
THEOREM ViewIsTrue == ViewSpec => []RowWasTrue
<1>1. ASSUME ViewInv, [ViewNext]_viewVars PROVE ViewInv'
  <2>1. CASE BeginView \/ BeginRow BY <1>1, <2>1, BeginKeeps
  <2>2. CASE Failed BY <1>1, <2>2, FailedKeeps
  <2>3. CASE ReadLogs BY <1>1, <2>3, ReadLogsKeeps
  <2>4. CASE ReadCore BY <1>1, <2>4, ReadCoreKeeps
  <2>5. CASE ReadValidation BY <1>1, <2>5, ReadValidationKeeps
  <2>6. CASE Show BY <1>1, <2>6, ShowKeeps
  <2>7. CASE ContractStep BY <1>1, <2>7, ContractStepKeeps
  <2>8. CASE UNCHANGED viewVars
    BY <1>1, <2>8 DEF viewVars, ViewInv, ReadingShape, CoreWasHeld, ValidationIsLater, RowWasTrue, TrueStatus
  <2> QED BY <1>1, <2>1, <2>2, <2>3, <2>4, <2>5, <2>6, <2>7, <2>8 DEF ViewNext
<1>2. ViewInv => RowWasTrue BY DEF ViewInv
<1> QED BY ViewInvInit, <1>1, <1>2, PTL DEF ViewSpec

---------------------------------------------------------------------------
(* The queue of transactions to sign (OperatorQueue), for any number of      *)
(* requests under way, any moves of the agent and any bounds.                *)

(* The row on the screen carries the kind of its package in its id.          *)
RowNamesKind == row # NoRecord => row.kind = row.id[3]

LEMMA IdNamesKind ==
    ASSUME NEW file, NEW i PROVE ActionId(file, i)[3] = file.pkgs[i].kind
BY DEF ActionId

LEMMA RowInit == ASSUME QueueInit PROVE RowNamesKind
BY DEF QueueInit, RowNamesKind

(* Only opening a row changes it.                                            *)
LEMMA RowStep == ASSUME RowNamesKind, [QueueNext]_queueVars PROVE RowNamesKind'
<1>1. CASE OpenRow
  <2>1. PICK i \in Rows : row' = [id |-> ActionId(job, i), kind |-> job.pkgs[i].kind]
    BY <1>1 DEF OpenRow
  <2> QED BY <2>1, IdNamesKind DEF RowNamesKind
<1>2. CASE UNCHANGED row BY <1>2 DEF RowNamesKind
<1>3. QueueNext => OpenRow \/ UNCHANGED row
  BY DEF QueueNext, MarkSigned, MarkBroadcast, MarkFinalized, Mutate, ValidatorPrepare,
         ValidatorPrepareV2, ChainAssigns, ChainCompletes, PrepareWrite, ReconcileWrite,
         PrepareCheck, ReconcileRead, AgentReads, AgentWrites
<1> QED BY <1>1, <1>2, <1>3 DEF queueVars

(* A mark goes to a package of the kind the operator chose, whatever was      *)
(* prepared anew, reordered or moved on between the click and the row it was  *)
(* aimed at (buildOperatorActionId, findOperatorActionById).                  *)
THEOREM MarksTheorem == QueueSpec => []MarkHitsChosen
<1>1. RowNamesKind => MarkHitsChosen
  BY IdNamesKind DEF RowNamesKind, MarkHitsChosen, FoundAt
<1> QED BY <1>1, RowInit, RowStep, PTL DEF QueueSpec

---------------------------------------------------------------------------
(* Assigned is assigned to us. *)

Ours(chain) == \E lane \in Lanes : chain[lane].agent = "us"

Whole(file) == DOMAIN file = {"lane", "status", "pkgs", "applied", "receipts"}

(* A file that calls the job assigned is right about it.                     *)
Right(file, chain) == file.status = "assigned" => Ours(chain)

ChainTypes == onChain \in [Lanes -> [agent : {"none", "us", "other"}, completion : BOOLEAN]]

FileRight == job # NoRecord => Whole(job) /\ Right(job, onChain)

(* What a request that waits has read: the chain, and for a reconciliation   *)
(* the file it will write back.                                              *)
ReadRight ==
    \A r \in Requests : req[r] # NoRecord =>
        /\ req[r].lane \in Lanes
        /\ req[r].view.agent = "us" => Ours(onChain)
        /\ req[r].op = "reconcile" => Whole(req[r].old) /\ Right(req[r].old, onChain)

(* What an update of the agent's will write.                                 *)
HeldRight ==
    agentHolds # NoRecord =>
        Whole(agentHolds.old) /\ (agentHolds.next = "assigned" => Ours(onChain))

AssignedInv == DOMAIN req = Requests /\ ChainTypes /\ FileRight /\ ReadRight /\ HeldRight

LEMMA AssignedInit == ASSUME QueueInit PROVE AssignedInv
<1>1. ChainTypes /\ DOMAIN req = Requests /\ ReadRight /\ HeldRight
  BY DEF QueueInit, ChainTypes, ReadRight, HeldRight
<1>2. ASSUME job # NoRecord PROVE Whole(job) /\ job.status = "scored"
  BY <1>2 DEF QueueInit, Whole, Fresh
<1>3. FileRight BY <1>2 DEF FileRight, Right
<1> QED BY <1>1, <1>3 DEF AssignedInv

(* What is ours stays ours.                                                  *)
LEMMA OursStays ==
    ASSUME ChainTypes, [QueueNext]_queueVars
    PROVE  ChainTypes' /\ (Ours(onChain) => Ours(onChain'))
<1>1. ASSUME NEW lane \in Lanes, ChainAssigns(lane)
      PROVE  ChainTypes' /\ (Ours(onChain) => Ours(onChain'))
  <2>1. PICK who \in {"us", "other"} : onChain' = [onChain EXCEPT ![lane].agent = who]
    BY <1>1 DEF ChainAssigns
  <2>2. onChain[lane].agent = "none" BY <1>1 DEF ChainAssigns
  <2>3. ChainTypes' BY <2>1 DEF ChainTypes
  <2>4. \A l \in Lanes : onChain[l].agent = "us" => onChain'[l].agent = "us"
    BY <2>1, <2>2 DEF ChainTypes
  <2> QED BY <2>3, <2>4 DEF Ours
<1>2. ASSUME NEW lane \in Lanes, ChainCompletes(lane)
      PROVE  ChainTypes' /\ (Ours(onChain) => Ours(onChain'))
  <2>1. onChain' = [onChain EXCEPT ![lane].completion = TRUE] BY <1>2 DEF ChainCompletes
  <2>2. ChainTypes' BY <2>1 DEF ChainTypes
  <2>3. \A l \in Lanes : onChain'[l].agent = onChain[l].agent BY <2>1 DEF ChainTypes
  <2> QED BY <2>2, <2>3 DEF Ours
<1>3. CASE UNCHANGED onChain BY <1>3 DEF ChainTypes
<1>4. QueueNext => \/ \E lane \in Lanes : ChainAssigns(lane) \/ ChainCompletes(lane)
                   \/ UNCHANGED onChain
  BY DEF QueueNext, OpenRow, MarkSigned, MarkBroadcast, MarkFinalized, Mutate, ValidatorPrepare,
         ValidatorPrepareV2, PrepareWrite, ReconcileWrite, PrepareCheck, ReconcileRead, AgentReads,
         AgentWrites
<1> QED BY <1>1, <1>2, <1>3, <1>4 DEF queueVars

(* Requests come from the chain and the file as they are.                    *)
LEMMA ReadStep ==
    ASSUME AssignedInv, [QueueNext]_queueVars
    PROVE  DOMAIN req' = Requests /\ ReadRight'
<1>1. Ours(onChain) => Ours(onChain') BY OursStays DEF AssignedInv
<1>2. ASSUME \A r \in Requests : req'[r] = req[r] \/ req'[r] = NoRecord PROVE ReadRight'
  BY <1>1, <1>2 DEF AssignedInv, ReadRight, Right
<1>3. ASSUME NEW r \in Requests, NEW lane \in Lanes, PrepareCheck(r, lane)
      PROVE  DOMAIN req' = Requests /\ ReadRight'
  <2> DEFINE q == [op |-> "prepare", lane |-> lane, old |-> NoRecord, view |-> onChain[lane]]
  <2>1. req' = [req EXCEPT ![r] = q] BY <1>3 DEF PrepareCheck
  <2>2. q.lane \in Lanes /\ q.op # "reconcile" /\ (q.view.agent = "us" => Ours(onChain)) BY DEF Ours
  <2> HIDE DEF q
  <2> QED BY <1>1, <2>1, <2>2 DEF AssignedInv, ReadRight, Right
<1>4. ASSUME NEW r \in Requests, NEW lane \in Lanes, ReconcileRead(r, lane)
      PROVE  DOMAIN req' = Requests /\ ReadRight'
  <2> DEFINE q == [op |-> "reconcile", lane |-> lane, old |-> job, view |-> onChain[lane]]
  <2>1. req' = [req EXCEPT ![r] = q] /\ job # NoRecord BY <1>4 DEF ReconcileRead
  <2>2. q.lane \in Lanes /\ q.old = job /\ (q.view.agent = "us" => Ours(onChain)) BY DEF Ours
  <2> HIDE DEF q
  <2> QED BY <1>1, <2>1, <2>2 DEF AssignedInv, FileRight, ReadRight, Right
<1>5. ASSUME NEW r \in Requests, req' = [req EXCEPT ![r] = NoRecord]
      PROVE  DOMAIN req' = Requests /\ ReadRight'
  BY <1>2, <1>5 DEF AssignedInv
<1>6. CASE UNCHANGED req BY <1>2, <1>6 DEF AssignedInv
<1>7. QueueNext =>
        \/ \E r \in Requests :
              \/ req' = [req EXCEPT ![r] = NoRecord]
              \/ \E lane \in Lanes : PrepareCheck(r, lane) \/ ReconcileRead(r, lane)
        \/ UNCHANGED req
  BY DEF QueueNext, OpenRow, MarkSigned, MarkBroadcast, MarkFinalized, Mutate, ValidatorPrepare,
         ValidatorPrepareV2, PrepareWrite, ReconcileWrite, ChainAssigns, ChainCompletes, AgentReads,
         AgentWrites
<1> QED BY <1>3, <1>4, <1>5, <1>6, <1>7 DEF queueVars

(* A mark keeps the status or makes it "applied".                            *)
LEMMA MarkStep ==
    ASSUME AssignedInv, MarkSigned \/ MarkBroadcast \/ MarkFinalized
    PROVE  job' # NoRecord => Whole(job') /\ (job'.status = job.status \/ job'.status = "applied")
<1>1. ASSUME NEW i \in Rows PROVE job # NoRecord /\ Whole(job)
  BY <1>1 DEF Rows, AssignedInv, FileRight
<1>2. CASE MarkSigned BY <1>1, <1>2 DEF MarkSigned, Mutate, FoundAt, Whole
<1>3. CASE MarkBroadcast BY <1>1, <1>3 DEF MarkBroadcast, Mutate, FoundAt, Whole
<1>4. CASE MarkFinalized
  <2>1. PICK f, action : f.status = job.status /\ Whole(f) /\ job' = Booked(f, action)
    BY <1>1, <1>4 DEF MarkFinalized, Mutate, FoundAt, Whole
  <2> QED BY <2>1 DEF Booked, Whole
<1> QED BY <1>2, <1>3, <1>4

LEMMA FileStep ==
    ASSUME AssignedInv, [QueueNext]_queueVars
    PROVE  FileRight'
<1>1. Ours(onChain) => Ours(onChain') BY OursStays DEF AssignedInv
<1>2. ASSUME MarkSigned \/ MarkBroadcast \/ MarkFinalized PROVE FileRight'
  <2>1. job # NoRecord BY <1>2 DEF MarkSigned, MarkBroadcast, MarkFinalized, Mutate, FoundAt, Rows
  <2> QED BY <1>1, <1>2, <2>1, MarkStep DEF AssignedInv, FileRight, Right
<1>3. ASSUME NEW lane \in Lanes PROVE Whole(FileOr(lane)) /\ Right(FileOr(lane), onChain)
  BY DEF AssignedInv, FileRight, FileOr, Fresh, Whole, Right
<1>4. ASSUME NEW lane \in Lanes, job' = UpsertApply(lane) PROVE FileRight'
  <2>1. Whole(job') /\ job'.status = "application_pending_review"
    BY <1>3, <1>4 DEF UpsertApply, Whole
  <2> QED BY <2>1 DEF FileRight, Right
<1>5. ASSUME NEW lane \in Lanes, ValidatorPrepare(lane) PROVE FileRight'
  <2>1. job' = UpsertValidator(lane) BY <1>5 DEF ValidatorPrepare
  <2>2. Whole(job') /\ (job'.status = FileOr(lane).status \/ job'.status = "completion_pending_review")
    BY <1>3, <2>1 DEF UpsertValidator, Whole
  <2> QED BY <1>1, <1>3, <2>2 DEF FileRight, Right
<1>6. ASSUME UNCHANGED job PROVE FileRight'
  BY <1>1, <1>6 DEF AssignedInv, FileRight, Right
<1>7. ASSUME NEW r \in Requests, PrepareWrite(r) PROVE FileRight'
  <2>1. req[r].lane \in Lanes BY <1>7 DEF PrepareWrite, AssignedInv, ReadRight
  <2>2. job' = job \/ job' = UpsertApply(req[r].lane) BY <1>7 DEF PrepareWrite
  <2> QED BY <1>4, <1>6, <2>1, <2>2
<1>8. ASSUME NEW r \in Requests, ReconcileWrite(r) PROVE FileRight'
  <2> DEFINE old == req[r].old
             lane == req[r].lane
  <2>1. PICK view \in Views(r) : job' = [Reconciled(old, view) EXCEPT !.lane = lane]
    BY <1>8 DEF ReconcileWrite
  <2>2. /\ lane \in Lanes /\ Whole(old) /\ Right(old, onChain)
        /\ req[r].view.agent = "us" => Ours(onChain)
    BY <1>8 DEF ReconcileWrite, AssignedInv, ReadRight
  <2>3. view.agent = "us" => Ours(onChain) BY <2>2 DEF Views, Unread, Ours
  <2> HIDE DEF old, lane
  <2>4. Whole(Reconciled(old, view)) /\ Right(Reconciled(old, view), onChain)
    BY <2>2, <2>3 DEF Reconciled, Whole, Right
  <2>5. Whole(job') /\ job'.status = Reconciled(old, view).status BY <2>1, <2>4 DEF Whole
  <2> QED BY <1>1, <2>4, <2>5 DEF FileRight, Right
<1>9. ASSUME AgentWrites PROVE FileRight'
  <2>1. Whole(agentHolds.old) /\ (agentHolds.next = "assigned" => Ours(onChain))
    BY <1>9 DEF AgentWrites, AssignedInv, HeldRight
  <2>2. job' = [agentHolds.old EXCEPT !.status = agentHolds.next] BY <1>9 DEF AgentWrites
  <2>3. Whole(job') /\ job'.status = agentHolds.next BY <2>1, <2>2 DEF Whole
  <2> QED BY <1>1, <2>1, <2>3 DEF FileRight, Right
<1>10. QueueNext =>
        \/ MarkSigned \/ MarkBroadcast \/ MarkFinalized
        \/ \E lane \in Lanes : ValidatorPrepare(lane)
        \/ \E r \in Requests : PrepareWrite(r) \/ ReconcileWrite(r)
        \/ AgentWrites
        \/ UNCHANGED job
  BY DEF QueueNext, OpenRow, ValidatorPrepareV2, ChainAssigns, ChainCompletes, PrepareCheck,
         ReconcileRead, AgentReads, Lanes
<1> QED BY <1>2, <1>5, <1>6, <1>7, <1>8, <1>9, <1>10 DEF queueVars

(* The agent holds the file as it read it, and makes assigned what is ours.  *)
LEMMA AgentStep ==
    ASSUME AssignedInv, [QueueNext]_queueVars
    PROVE  HeldRight'
<1>1. Ours(onChain) => Ours(onChain') BY OursStays DEF AssignedInv
<1>2. ASSUME NEW s \in AgentMoves, AgentReads(s) PROVE HeldRight'
  <2>1. Whole(job) /\ (s = "assigned" => Ours(onChain))
    BY <1>2 DEF AgentReads, AssignedInv, FileRight, Ours, Lanes
  <2>2. agentHolds'.old = job /\ agentHolds'.next = s BY <1>2 DEF AgentReads
  <2> QED BY <1>1, <2>1, <2>2 DEF HeldRight
<1>3. CASE agentHolds' = NoRecord BY <1>3 DEF HeldRight
<1>4. CASE UNCHANGED agentHolds BY <1>1, <1>4 DEF AssignedInv, HeldRight
<1>5. QueueNext =>
        \/ \E s \in AgentMoves : AgentReads(s)
        \/ agentHolds' = NoRecord
        \/ UNCHANGED agentHolds
  BY DEF QueueNext, OpenRow, MarkSigned, MarkBroadcast, MarkFinalized, Mutate, ValidatorPrepare,
         ValidatorPrepareV2, PrepareWrite, ReconcileWrite, PrepareCheck, ReconcileRead,
         ChainAssigns, ChainCompletes, AgentWrites
<1> QED BY <1>2, <1>3, <1>4, <1>5 DEF queueVars

(* The console's file calls a job assigned only once a contract has given it  *)
(* to the applicant's wallet, whatever a reconciliation or an update of the   *)
(* agent's writes back late (reconcileV1ApplyState, setJobState).             *)
THEOREM AssignedTheorem == QueueSpec => []AssignedIsOurs
<1>1. AssignedInv => AssignedIsOurs
  BY DEF AssignedInv, FileRight, Right, Ours, AssignedIsOurs
<1>2. AssignedInv /\ [QueueNext]_queueVars => AssignedInv'
  BY OursStays, ReadStep, FileStep, AgentStep DEF AssignedInv
<1> QED BY <1>1, <1>2, AssignedInit, PTL DEF QueueSpec

---------------------------------------------------------------------------
(* One package of a kind, and what happens to the marks on it. *)

Pkgs == [kind : Kinds, signed : BOOLEAN, sent : BOOLEAN, final : BOOLEAN]

KindsOnce(pkgs) == \A i, j \in DOMAIN pkgs : pkgs[i].kind = pkgs[j].kind => i = j

NoneOf(pkgs, kind) == \A i \in DOMAIN pkgs : pkgs[i].kind # kind

(* What one list of packages has of a kind, the other has too.               *)
KeptIn(old, new, kind) ==
    \A m \in DOMAIN old : old[m].kind = kind => \E j \in DOMAIN new : new[j] = old[m]

LEMMA KeptOn ==
    ASSUME NEW a, NEW b, NEW c, NEW kind, KeptIn(a, b, kind), KeptIn(b, c, kind)
    PROVE  KeptIn(a, c, kind)
BY DEF KeptIn

(* What is left when a package is taken out.                                 *)
LEMMA TakenOut ==
    ASSUME NEW s \in Seq(Pkgs), NEW i \in 1..Len(s), NEW t, t = RemoveAt(s, i)
    PROVE  /\ t \in Seq(Pkgs) /\ Len(t) = Len(s) - 1
           /\ \A j \in 1..(i - 1) : t[j] = s[j]
           /\ \A j \in i..(Len(s) - 1) : t[j] = s[j + 1]
<1> DEFINE n == Len(s)
           a == SubSeq(s, 1, i - 1)
           b == SubSeq(s, i + 1, n)
<1>1. n \in Nat /\ i \in Nat /\ 1 <= i /\ i <= n /\ s \in [1..n -> Pkgs] OBVIOUS
<1>2. a \in Seq(Pkgs) /\ Len(a) = i - 1 /\ \A j \in 1..(i - 1) : a[j] = s[j]
  <2>1. 1 \in Int /\ i - 1 \in Int /\ \A j \in 1..(i - 1) : s[j] \in Pkgs BY <1>1
  <2> QED BY <1>1, <2>1, SubSeqProperties
<1>3. b \in Seq(Pkgs) /\ Len(b) = n - i /\ \A j \in 1..(n - i) : b[j] = s[i + j]
  <2>1. i + 1 \in Int /\ n \in Int /\ \A j \in (i + 1)..n : s[j] \in Pkgs BY <1>1
  <2>2. b \in Seq(Pkgs) /\ Len(b) = n - i BY <1>1, <2>1, SubSeqProperties
  <2>3. ASSUME NEW j \in 1..(n - i) PROVE b[j] = s[i + j]
    <3>1. (i + 1) + j - 1 = i + j /\ j \in 1..(n - (i + 1) + 1) BY <1>1
    <3>2. b[j] = s[(i + 1) + j - 1] BY <2>1, <3>1, SubSeqProperties
    <3> QED BY <3>1, <3>2
  <2> QED BY <2>2, <2>3
<1>4. t = a \o b BY DEF RemoveAt
<1> HIDE DEF a, b, n
<1>5. t \in Seq(Pkgs) /\ Len(t) = n - 1
  BY <1>1, <1>2, <1>3, <1>4
<1>6. ASSUME NEW j \in 1..(i - 1) PROVE t[j] = s[j]
  BY <1>1, <1>2, <1>3, <1>4
<1>7. ASSUME NEW j \in i..(n - 1) PROVE t[j] = s[j + 1]
  <2>1. j \in Nat /\ j - (i - 1) \in 1..(n - i) /\ i + (j - (i - 1)) = j + 1 BY <1>1
  <2>2. t[j] = b[j - (i - 1)] BY <1>1, <1>2, <1>3, <1>4, <2>1
  <2> QED BY <1>3, <2>1, <2>2
<1> QED BY <1>5, <1>6, <1>7 DEF n

LEMMA OneOfKind ==
    ASSUME NEW s \in Seq(Pkgs), KindsOnce(s), NEW i \in DOMAIN s
    PROVE  Without(s, s[i].kind) = RemoveAt(s, i)
<1>1. i \in 1..Len(s) /\ {j \in 1..Len(s) : s[j].kind = s[i].kind} = {i}
  BY DEF KindsOnce
<1>2. SelectInSeq(s, LAMBDA p : p.kind = s[i].kind) = i
  <2>1. Min({i}) = i BY <1>1 DEF Min
  <2> QED BY <1>1, <2>1 DEF SelectInSeq
<1> QED BY <1>1, <1>2 DEF Without, RemoveFirstMatch

LEMMA NoneOfKind ==
    ASSUME NEW s \in Seq(Pkgs), NEW kind, \A i \in DOMAIN s : s[i].kind # kind
    PROVE  Without(s, kind) = s
BY DEF Without, RemoveFirstMatch

(* The filter takes out the package of its kind and leaves the others as     *)
(* they are.                                                                 *)
LEMMA WithoutKind ==
    ASSUME NEW s \in Seq(Pkgs), KindsOnce(s), NEW kind, NEW t, t = Without(s, kind)
    PROVE  /\ t \in Seq(Pkgs) /\ KindsOnce(t)
           /\ NoneOf(t, kind)
           /\ \A other : NoneOf(s, other) => NoneOf(t, other)
           /\ \A other : other # kind => KeptIn(s, t, other)
<1>1. CASE \A m \in DOMAIN s : s[m].kind # kind
  BY <1>1, NoneOfKind DEF NoneOf, KeptIn
<1>2. CASE \E m \in DOMAIN s : s[m].kind = kind
  <2>1. PICK i \in DOMAIN s : s[i].kind = kind BY <1>2
  <2> DEFINE n == Len(s)
  <2>2. n \in Nat /\ DOMAIN s = 1..n /\ i \in 1..n BY <2>1
  <2>3. t = RemoveAt(s, i) BY <2>1, OneOfKind
  <2>4. /\ t \in Seq(Pkgs) /\ Len(t) = n - 1
        /\ \A j \in 1..(i - 1) : t[j] = s[j]
        /\ \A j \in i..(n - 1) : t[j] = s[j + 1]
    BY <2>2, <2>3, TakenOut
  <2>5. DOMAIN t = 1..(n - 1) BY <2>2, <2>4
  <2> HIDE DEF n
  <2> DEFINE at(j) == IF j < i THEN j ELSE j + 1
  <2>6. ASSUME NEW j \in DOMAIN t PROVE at(j) \in DOMAIN s /\ at(j) # i /\ t[j] = s[at(j)]
    <3>1. CASE j < i BY <2>2, <2>4, <2>5, <3>1
    <3>2. CASE ~(j < i) BY <2>2, <2>4, <2>5, <3>2
    <3> QED BY <3>1, <3>2
  <2>7. ASSUME NEW j \in DOMAIN t, NEW l \in DOMAIN t, at(j) = at(l) PROVE j = l
    BY <2>2, <2>5, <2>7
  <2>8. ASSUME NEW m \in DOMAIN s, m # i PROVE \E j \in DOMAIN t : at(j) = m
    <3>1. CASE m < i BY <2>2, <2>5, <3>1
    <3>2. CASE m > i
      <4>1. m - 1 \in DOMAIN t /\ at(m - 1) = m BY <2>2, <2>5, <3>2
      <4> QED BY <4>1
    <3> QED BY <2>2, <2>8, <3>1, <3>2
  <2> HIDE DEF at
  <2>9. KindsOnce(t) BY <2>6, <2>7 DEF KindsOnce
  <2>10. NoneOf(t, kind) BY <2>1, <2>6 DEF KindsOnce, NoneOf
  <2>11. \A other : NoneOf(s, other) => NoneOf(t, other) BY <2>6 DEF NoneOf
  <2>12. \A other : other # kind => KeptIn(s, t, other) BY <2>1, <2>6, <2>8 DEF KeptIn
  <2> QED BY <2>4, <2>9, <2>10, <2>11, <2>12
<1> QED BY <1>1, <1>2

(* A package of a new kind at the end.                                       *)
LEMMA OneMore ==
    ASSUME NEW s \in Seq(Pkgs), KindsOnce(s), NEW p \in Pkgs,
           NEW kind, p.kind = kind, NoneOf(s, kind),
           NEW t, t = Append(s, p)
    PROVE  /\ t \in Seq(Pkgs) /\ KindsOnce(t)
           /\ \A other : KeptIn(s, t, other)
           /\ \A other : other # kind /\ NoneOf(s, other) => NoneOf(t, other)
<1> DEFINE n == Len(s)
<1>1. n \in Nat /\ DOMAIN s = 1..n OBVIOUS
<1>2. t \in Seq(Pkgs) /\ Len(t) = n + 1 /\ DOMAIN t = 1..(n + 1) BY <1>1
<1>3. \A m \in 1..n : t[m] = s[m] BY <1>1
<1>4. t[n + 1] = p BY <1>1
<1> HIDE DEF n
<1>5. \A m \in DOMAIN s : m \in DOMAIN t /\ t[m] = s[m] BY <1>1, <1>2, <1>3
<1>6. \A m \in DOMAIN t : (m \in DOMAIN s /\ t[m] = s[m]) \/ m = n + 1 BY <1>1, <1>2, <1>3
<1>7. KindsOnce(t)
  <2>1. ASSUME NEW j \in DOMAIN t, NEW l \in DOMAIN t, t[j].kind = t[l].kind PROVE j = l
    BY <1>4, <1>6, <2>1 DEF KindsOnce, NoneOf
  <2> QED BY <2>1 DEF KindsOnce
<1> QED BY <1>2, <1>4, <1>5, <1>6, <1>7 DEF KeptIn, NoneOf

(* The queue's packages in a file.                                           *)
WellKept(file) == file.pkgs \in Seq(Pkgs) /\ KindsOnce(file.pkgs)

KindsInv ==
    /\ AssignedInv
    /\ job # NoRecord => WellKept(job)
    /\ \A r \in Requests : req[r] # NoRecord /\ req[r].op = "reconcile" => WellKept(req[r].old)
    /\ agentHolds # NoRecord => WellKept(agentHolds.old)

LEMMA NewPackage == ASSUME NEW kind \in Kinds PROVE Package(kind) \in Pkgs /\ Package(kind).kind = kind
BY DEF Package, Pkgs

LEMMA FileOrKept ==
    ASSUME KindsInv, NEW lane
    PROVE  WellKept(FileOr(lane)) /\ Whole(FileOr(lane)) /\ (job # NoRecord => FileOr(lane) = job)
<1>1. Fresh(lane).pkgs = <<>> /\ Whole(Fresh(lane)) BY DEF Fresh, Whole
<1>2. <<>> \in Seq(Pkgs) /\ KindsOnce(<<>>) BY DEF KindsOnce
<1> QED BY <1>1, <1>2 DEF KindsInv, AssignedInv, FileRight, FileOr, WellKept

(* Preparing an application leaves the other packages as they are.           *)
LEMMA ApplyKeeps ==
    ASSUME KindsInv, NEW lane
    PROVE  /\ WellKept(UpsertApply(lane))
           /\ job # NoRecord =>
                \A kind \in {"validate", "dispute"} : KeptIn(job.pkgs, UpsertApply(lane).pkgs, kind)
<1> DEFINE s == FileOr(lane).pkgs
<1>0. PICK p : p = Package("apply") OBVIOUS
<1>1. s \in Seq(Pkgs) /\ KindsOnce(s) BY FileOrKept DEF WellKept
<1>2. PICK t : t = Without(s, "apply") OBVIOUS
<1>3. PICK u : u = Append(t, p) OBVIOUS
<1>4. UpsertApply(lane).pkgs = u BY <1>0, <1>2, <1>3, FileOrKept DEF UpsertApply, Whole
<1>5. p \in Pkgs /\ p.kind = "apply" BY <1>0, NewPackage DEF Kinds
<1>6. job # NoRecord => job.pkgs = s BY FileOrKept
<1> HIDE DEF s
<1>7. /\ t \in Seq(Pkgs) /\ KindsOnce(t) /\ NoneOf(t, "apply")
      /\ \A other : other # "apply" => KeptIn(s, t, other)
  BY <1>1, <1>2, WithoutKind
<1>8. u \in Seq(Pkgs) /\ KindsOnce(u) /\ \A other : KeptIn(t, u, other)
  BY <1>3, <1>5, <1>7, OneMore
<1>9. \A kind \in {"validate", "dispute"} : KeptIn(s, u, kind) BY <1>7, <1>8, KeptOn
<1> QED BY <1>4, <1>6, <1>8, <1>9 DEF WellKept

(* Preparing the validator's two packages leaves the application's.          *)
LEMMA ValidatorKeeps ==
    ASSUME KindsInv, NEW lane
    PROVE  /\ WellKept(UpsertValidator(lane))
           /\ job # NoRecord => KeptIn(job.pkgs, UpsertValidator(lane).pkgs, "apply")
<1> DEFINE s == FileOr(lane).pkgs
<1>0. PICK p, d : p = Package("validate") /\ d = Package("dispute") OBVIOUS
<1>1. s \in Seq(Pkgs) /\ KindsOnce(s) BY FileOrKept DEF WellKept
<1>2. PICK t : t = Without(s, "validate") OBVIOUS
<1>3. PICK u : u = Without(t, "dispute") OBVIOUS
<1>4. PICK x : x = Append(u, p) OBVIOUS
<1>5. PICK y : y = Append(x, d) OBVIOUS
<1>6. UpsertValidator(lane).pkgs = u \o <<p, d>>
  BY <1>0, <1>2, <1>3, FileOrKept DEF UpsertValidator, Whole
<1>7. p \in Pkgs /\ p.kind = "validate" /\ d \in Pkgs /\ d.kind = "dispute" BY <1>0, NewPackage DEF Kinds
<1>8. job # NoRecord => job.pkgs = s BY FileOrKept
<1> HIDE DEF s
<1>9. /\ t \in Seq(Pkgs) /\ KindsOnce(t) /\ NoneOf(t, "validate")
      /\ KeptIn(s, t, "apply")
  BY <1>1, <1>2, WithoutKind
<1>10. /\ u \in Seq(Pkgs) /\ KindsOnce(u) /\ NoneOf(u, "dispute") /\ NoneOf(u, "validate")
       /\ KeptIn(t, u, "apply")
  BY <1>3, <1>9, WithoutKind
<1>11. /\ x \in Seq(Pkgs) /\ KindsOnce(x) /\ NoneOf(x, "dispute")
       /\ KeptIn(u, x, "apply")
  BY <1>4, <1>7, <1>10, OneMore
<1>12. y \in Seq(Pkgs) /\ KindsOnce(y) /\ KeptIn(x, y, "apply")
  BY <1>5, <1>7, <1>11, OneMore
<1>13. KeptIn(s, y, "apply") BY <1>9, <1>10, <1>11, <1>12, KeptOn
<1>14. y = u \o <<p, d>> BY <1>4, <1>5, <1>7, <1>10, <1>11
<1> QED BY <1>6, <1>8, <1>12, <1>13, <1>14 DEF WellKept

LEMMA ProgressMade ==
    ASSUME NEW p \in Pkgs
    PROVE  Progress(p) > 0 <=> p.signed \/ p.sent \/ p.final
BY DEF Progress, Pkgs

(* One package changed, its kind kept and nothing taken back.                *)
LEMMA ChangedOne ==
    ASSUME NEW s \in Seq(Pkgs), KindsOnce(s), NEW i \in DOMAIN s, NEW c \in Pkgs,
           c.kind = s[i].kind, Progress(s[i]) > 0 => Progress(c) > 0,
           NEW t, t = [s EXCEPT ![i] = c]
    PROVE  /\ t \in Seq(Pkgs) /\ KindsOnce(t) /\ DOMAIN t = DOMAIN s
           /\ \A m \in DOMAIN s : t[m].kind = s[m].kind /\ (Progress(s[m]) > 0 => Progress(t[m]) > 0)
<1>1. t \in Seq(Pkgs) /\ DOMAIN t = DOMAIN s OBVIOUS
<1>2. \A m \in DOMAIN s : t[m] = IF m = i THEN c ELSE s[m] OBVIOUS
<1>3. \A m \in DOMAIN s : t[m].kind = s[m].kind BY <1>2
<1>4. \A m \in DOMAIN s : Progress(s[m]) > 0 => Progress(t[m]) > 0 BY <1>2
<1>5. KindsOnce(t) BY <1>1, <1>3 DEF KindsOnce
<1> QED BY <1>1, <1>3, <1>4, <1>5

LEMMA BookedKeeps ==
    ASSUME NEW file, Whole(file), NEW action
    PROVE  Whole(Booked(file, action)) /\ Booked(file, action).pkgs = file.pkgs
BY DEF Booked, Whole

(* A mark is one such change.                                                *)
LEMMA MarkChanges ==
    ASSUME KindsInv, MarkSigned \/ MarkBroadcast \/ MarkFinalized
    PROVE  /\ job # NoRecord
           /\ \E i \in DOMAIN job.pkgs, c \in Pkgs :
                /\ c.kind = job.pkgs[i].kind
                /\ Progress(job.pkgs[i]) > 0 => Progress(c) > 0
                /\ job'.pkgs = [job.pkgs EXCEPT ![i] = c]
<1>1. ASSUME NEW i \in Rows
      PROVE  job # NoRecord /\ Whole(job) /\ i \in DOMAIN job.pkgs /\ job.pkgs[i] \in Pkgs
  <2>1. job # NoRecord /\ i \in DOMAIN job.pkgs BY <1>1 DEF Rows
  <2>2. Whole(job) /\ job.pkgs \in Seq(Pkgs) BY <2>1 DEF KindsInv, AssignedInv, FileRight, WellKept
  <2> QED BY <2>1, <2>2
<1>2. CASE MarkSigned
  <2>1. PICK i \in Rows : job' = [job EXCEPT !.pkgs[i] = [@ EXCEPT !.signed = TRUE]]
    BY <1>2 DEF MarkSigned, Mutate, FoundAt
  <2>2. PICK c : c = [job.pkgs[i] EXCEPT !.signed = TRUE] OBVIOUS
  <2>3. c \in Pkgs /\ c.kind = job.pkgs[i].kind /\ c.signed BY <1>1, <2>2 DEF Pkgs
  <2>4. job'.pkgs = [job.pkgs EXCEPT ![i] = c] BY <1>1, <2>1, <2>2 DEF Whole
  <2>5. Progress(c) > 0 BY <2>3, ProgressMade
  <2> QED BY <1>1, <2>3, <2>4, <2>5
<1>3. CASE MarkBroadcast
  <2>1. PICK i \in Rows :
          job' = [[job EXCEPT !.pkgs[i] = [@ EXCEPT !.signed = TRUE, !.sent = TRUE]]
                    EXCEPT !.receipts[NormalizedAction(job.pkgs[i].kind, job.status)]
                             = "broadcast_pending"]
    BY <1>3 DEF MarkBroadcast, Mutate, FoundAt
  <2>2. PICK c : c = [job.pkgs[i] EXCEPT !.signed = TRUE, !.sent = TRUE] OBVIOUS
  <2>3. c \in Pkgs /\ c.kind = job.pkgs[i].kind /\ c.signed BY <1>1, <2>2 DEF Pkgs
  <2>4. job'.pkgs = [job.pkgs EXCEPT ![i] = c] BY <1>1, <2>1, <2>2 DEF Whole
  <2>5. Progress(c) > 0 BY <2>3, ProgressMade
  <2> QED BY <1>1, <2>3, <2>4, <2>5
<1>4. CASE MarkFinalized
  <2>1. PICK hash \in BOOLEAN, i \in Rows :
          job' = Booked([job EXCEPT !.pkgs[i] = Finalized(@, hash)],
                        NormalizedAction(job.pkgs[i].kind, job.status))
    BY <1>4 DEF MarkFinalized, Mutate, FoundAt
  <2>2. PICK c : c = Finalized(job.pkgs[i], hash) OBVIOUS
  <2>3. c \in Pkgs /\ c.kind = job.pkgs[i].kind /\ c.signed BY <1>1, <2>2 DEF Pkgs, Finalized
  <2>4. PICK f : f = [job EXCEPT !.pkgs[i] = c] OBVIOUS
  <2>5. f.pkgs = [job.pkgs EXCEPT ![i] = c] /\ Whole(f) BY <1>1, <2>4 DEF Whole
  <2>6. job' = Booked(f, NormalizedAction(job.pkgs[i].kind, job.status))
    BY <2>1, <2>2, <2>4
  <2>7. job'.pkgs = [job.pkgs EXCEPT ![i] = c] BY <2>5, <2>6, BookedKeeps
  <2>8. Progress(c) > 0 BY <2>3, ProgressMade
  <2> QED BY <1>1, <2>3, <2>7, <2>8
<1> QED BY <1>2, <1>3, <1>4

LEMMA MarkKeeps ==
    ASSUME KindsInv, MarkSigned \/ MarkBroadcast \/ MarkFinalized
    PROVE  WellKept(job') /\ \A kind \in Kinds : Marked(job, kind) => Marked(job', kind)
<1>1. PICK i \in DOMAIN job.pkgs, c \in Pkgs :
        /\ c.kind = job.pkgs[i].kind
        /\ Progress(job.pkgs[i]) > 0 => Progress(c) > 0
        /\ job'.pkgs = [job.pkgs EXCEPT ![i] = c]
  BY MarkChanges
<1>2. WellKept(job) BY MarkChanges DEF KindsInv
<1>3. /\ job'.pkgs \in Seq(Pkgs) /\ KindsOnce(job'.pkgs) /\ DOMAIN job'.pkgs = DOMAIN job.pkgs
      /\ \A m \in DOMAIN job.pkgs :
            /\ job'.pkgs[m].kind = job.pkgs[m].kind
            /\ Progress(job.pkgs[m]) > 0 => Progress(job'.pkgs[m]) > 0
  BY <1>1, <1>2, ChangedOne DEF WellKept
<1> QED BY <1>3 DEF WellKept, Marked

LEMMA KeptMarked ==
    ASSUME NEW old, NEW new, NEW kind, KeptIn(old.pkgs, new.pkgs, kind), Marked(old, kind)
    PROVE  Marked(new, kind)
BY DEF KeptIn, Marked

LEMMA KindsInit == ASSUME QueueInit PROVE KindsInv
<1>1. ASSUME job # NoRecord PROVE WellKept(job)
  <2>1. job.pkgs = <<>> BY <1>1 DEF QueueInit, Fresh
  <2>2. <<>> \in Seq(Pkgs) /\ KindsOnce(<<>>) BY DEF KindsOnce
  <2> QED BY <2>1, <2>2 DEF WellKept
<1>2. agentHolds = NoRecord /\ \A r \in Requests : req[r] = NoRecord BY DEF QueueInit
<1> QED BY <1>1, <1>2, AssignedInit DEF KindsInv

(* A late reconciliation writes the packages as it read them.                *)
LEMMA ReconcileKeeps ==
    ASSUME KindsInv, NEW r \in Requests, ReconcileWrite(r)
    PROVE  job'.pkgs = req[r].old.pkgs /\ WellKept(req[r].old)
<1> DEFINE old == req[r].old
           lane == req[r].lane
<1>1. PICK view \in Views(r) : job' = [Reconciled(old, view) EXCEPT !.lane = lane]
  BY DEF ReconcileWrite
<1>2. Whole(old) /\ WellKept(old) BY DEF ReconcileWrite, KindsInv, AssignedInv, ReadRight
<1> HIDE DEF old, lane
<1>3. Whole(Reconciled(old, view)) /\ Reconciled(old, view).pkgs = old.pkgs
  BY <1>2 DEF Reconciled, Whole
<1>4. job'.pkgs = old.pkgs BY <1>1, <1>3 DEF Whole
<1> QED BY <1>2, <1>4 DEF old

(* What one step does to the packages in the file.                           *)
LEMMA PackagesStep ==
    ASSUME KindsInv, [QueueNext]_queueVars
    PROVE  /\ job' # NoRecord => WellKept(job')
           /\ job # NoRecord =>
                \A kind \in Kinds : Marked(job, kind) =>
                    \/ Marked(job', kind)
                    \/ kind = "apply" /\ \E r \in Requests : PrepareWrite(r)
                    \/ kind # "apply" /\ \E lane \in Lanes : ValidatorPrepare(lane)
                    \/ \E r \in Requests : ReconcileWrite(r) /\ ~Marked(req[r].old, kind)
                    \/ AgentWrites /\ ~Marked(agentHolds.old, kind)
<1> DEFINE Lost(kind) ==
             \/ kind = "apply" /\ \E r \in Requests : PrepareWrite(r)
             \/ kind # "apply" /\ \E lane \in Lanes : ValidatorPrepare(lane)
             \/ \E r \in Requests : ReconcileWrite(r) /\ ~Marked(req[r].old, kind)
             \/ AgentWrites /\ ~Marked(agentHolds.old, kind)
           Fine ==
             /\ job' # NoRecord => WellKept(job')
             /\ job # NoRecord =>
                  \A kind \in Kinds : Marked(job, kind) => Marked(job', kind) \/ Lost(kind)
<1>1. ASSUME MarkSigned \/ MarkBroadcast \/ MarkFinalized PROVE Fine
  BY <1>1, MarkKeeps
<1>2. ASSUME job' = job PROVE Fine
  BY <1>2 DEF KindsInv, WellKept, Marked
<1>3. ASSUME NEW lane \in Lanes, ValidatorPrepare(lane) PROVE Fine
  <2>1. job' = UpsertValidator(lane) BY <1>3 DEF ValidatorPrepare
  <2>2. WellKept(job') BY <2>1, ValidatorKeeps
  <2>3. ASSUME job # NoRecord, Marked(job, "apply") PROVE Marked(job', "apply")
    BY <2>1, <2>3, ValidatorKeeps, KeptMarked
  <2>4. \A kind \in Kinds : kind # "apply" => Lost(kind) BY <1>3
  <2> HIDE DEF Lost
  <2> QED BY <2>2, <2>3, <2>4
<1>4. ASSUME NEW r \in Requests, PrepareWrite(r) PROVE Fine
  <2>1. job' = job \/ job' = UpsertApply(req[r].lane) BY <1>4 DEF PrepareWrite
  <2>2. Lost("apply") BY <1>4
  <2> HIDE DEF Lost
  <2>3. CASE job' = UpsertApply(req[r].lane)
    <3>1. WellKept(job') BY <2>3, ApplyKeeps
    <3>2. ASSUME job # NoRecord, NEW kind \in {"validate", "dispute"}, Marked(job, kind)
          PROVE  Marked(job', kind)
      <4>1. KeptIn(job.pkgs, job'.pkgs, kind) BY <2>3, <3>2, ApplyKeeps
      <4> QED BY <3>2, <4>1, KeptMarked
    <3> QED BY <2>2, <3>1, <3>2 DEF Kinds
  <2> QED BY <1>2, <2>1, <2>3
<1>5. ASSUME NEW r \in Requests, ReconcileWrite(r) PROVE Fine
  <2>1. job'.pkgs = req[r].old.pkgs /\ WellKept(req[r].old) BY <1>5, ReconcileKeeps
  <2>2. WellKept(job') BY <2>1 DEF WellKept
  <2>3. \A kind \in Kinds : Marked(req[r].old, kind) => Marked(job', kind)
    BY <2>1 DEF Marked
  <2>4. \A kind \in Kinds : Marked(req[r].old, kind) \/ Lost(kind) BY <1>5
  <2> HIDE DEF Lost
  <2> QED BY <2>2, <2>3, <2>4
<1>6. ASSUME AgentWrites PROVE Fine
  <2>1. Whole(agentHolds.old) /\ WellKept(agentHolds.old)
    BY <1>6 DEF AgentWrites, KindsInv, AssignedInv, HeldRight
  <2>2. job'.pkgs = agentHolds.old.pkgs BY <1>6, <2>1 DEF AgentWrites, Whole
  <2>3. WellKept(job') BY <2>1, <2>2 DEF WellKept
  <2>4. \A kind \in Kinds : Marked(agentHolds.old, kind) => Marked(job', kind)
    BY <2>2 DEF Marked
  <2>5. \A kind \in Kinds : Marked(agentHolds.old, kind) \/ Lost(kind) BY <1>6
  <2> HIDE DEF Lost
  <2> QED BY <2>3, <2>4, <2>5
<1>7. QueueNext =>
        \/ MarkSigned \/ MarkBroadcast \/ MarkFinalized
        \/ \E lane \in Lanes : ValidatorPrepare(lane)
        \/ \E r \in Requests : PrepareWrite(r) \/ ReconcileWrite(r)
        \/ AgentWrites
        \/ job' = job
  BY DEF QueueNext, OpenRow, ValidatorPrepareV2, ChainAssigns, ChainCompletes, PrepareCheck,
         ReconcileRead, AgentReads, Lanes
<1>8. Fine
  <2> HIDE DEF Fine
  <2>1. QueueNext => Fine BY <1>1, <1>2, <1>3, <1>4, <1>5, <1>6, <1>7
  <2>2. UNCHANGED queueVars => job' = job BY DEF queueVars
  <2> QED BY <1>2, <2>1, <2>2
<1> QED BY <1>8

(* A request that waits holds the file it read.                              *)
LEMMA HeldStep ==
    ASSUME KindsInv, [QueueNext]_queueVars
    PROVE  \A r \in Requests :
             req'[r] # NoRecord /\ req'[r].op = "reconcile" => WellKept(req'[r].old)
<1> DEFINE Held(q) == q # NoRecord /\ q.op = "reconcile" => WellKept(q.old)
<1>1. DOMAIN req = Requests /\ \A r \in Requests : Held(req[r]) BY DEF KindsInv, AssignedInv
<1>2. Held(NoRecord) OBVIOUS
<1>3. ASSUME NEW r \in Requests, NEW lane \in Lanes, PrepareCheck(r, lane)
      PROVE  \E q : Held(q) /\ req' = [req EXCEPT ![r] = q]
  <2>1. PICK q : q = [op |-> "prepare", lane |-> lane, old |-> NoRecord, view |-> onChain[lane]]
    OBVIOUS
  <2>2. Held(q) BY <2>1
  <2> QED BY <1>3, <2>1, <2>2 DEF PrepareCheck
<1>4. ASSUME NEW r \in Requests, NEW lane \in Lanes, ReconcileRead(r, lane)
      PROVE  \E q : Held(q) /\ req' = [req EXCEPT ![r] = q]
  <2>1. PICK q : q = [op |-> "reconcile", lane |-> lane, old |-> job, view |-> onChain[lane]]
    OBVIOUS
  <2>2. WellKept(job) BY <1>4 DEF ReconcileRead, KindsInv
  <2>3. Held(q) BY <2>1, <2>2
  <2> QED BY <1>4, <2>1, <2>3 DEF ReconcileRead
<1> HIDE DEF Held
<1>5. ASSUME NEW r \in Requests, NEW q, Held(q), req' = [req EXCEPT ![r] = q]
      PROVE  \A x \in Requests : Held(req'[x])
  BY <1>1, <1>5
<1>6. QueueNext =>
        \/ \E r \in Requests :
              \/ req' = [req EXCEPT ![r] = NoRecord]
              \/ \E lane \in Lanes : PrepareCheck(r, lane) \/ ReconcileRead(r, lane)
        \/ req' = req
  BY DEF QueueNext, OpenRow, MarkSigned, MarkBroadcast, MarkFinalized, Mutate, ValidatorPrepare,
         ValidatorPrepareV2, PrepareWrite, ReconcileWrite, ChainAssigns, ChainCompletes, AgentReads,
         AgentWrites
<1>7. UNCHANGED queueVars => req' = req BY DEF queueVars
<1>8. \A r \in Requests : Held(req'[r])
  BY <1>1, <1>2, <1>3, <1>4, <1>5, <1>6, <1>7
<1> QED BY <1>8 DEF Held

(* So does an update of the agent's.                                         *)
LEMMA AgentHolds ==
    ASSUME KindsInv, [QueueNext]_queueVars
    PROVE  agentHolds' # NoRecord => WellKept(agentHolds'.old)
<1>1. ASSUME NEW s \in AgentMoves, AgentReads(s)
      PROVE  agentHolds' # NoRecord => WellKept(agentHolds'.old)
  <2>1. agentHolds'.old = job /\ WellKept(job) BY <1>1 DEF AgentReads, KindsInv
  <2> QED BY <2>1
<1>2. QueueNext =>
        \/ \E s \in AgentMoves : AgentReads(s)
        \/ agentHolds' = NoRecord
        \/ UNCHANGED agentHolds
  BY DEF QueueNext, OpenRow, MarkSigned, MarkBroadcast, MarkFinalized, Mutate, ValidatorPrepare,
         ValidatorPrepareV2, PrepareWrite, ReconcileWrite, PrepareCheck, ReconcileRead,
         ChainAssigns, ChainCompletes, AgentWrites
<1> QED BY <1>1, <1>2 DEF queueVars, KindsInv

LEMMA KindsStep == ASSUME KindsInv, [QueueNext]_queueVars PROVE KindsInv'
<1>1. AssignedInv' BY OursStays, ReadStep, FileStep, AgentStep DEF KindsInv, AssignedInv
<1>2. (job # NoRecord => WellKept(job))' BY PackagesStep DEF WellKept, KindsOnce
<1>3. (\A r \in Requests : req[r] # NoRecord /\ req[r].op = "reconcile" => WellKept(req[r].old))'
  BY HeldStep DEF WellKept, KindsOnce
<1>4. (agentHolds # NoRecord => WellKept(agentHolds.old))'
  BY AgentHolds DEF WellKept, KindsOnce
<1> QED BY <1>1, <1>2, <1>3, <1>4 DEF KindsInv

(* Of each kind the file has one package at most, so a filter by kind takes   *)
(* out one package (upsertV1ApplyTxPackage, upsertExternalValidatorState).    *)
THEOREM KindsTheorem == QueueSpec => [](job # NoRecord => KindsOnce(job.pkgs))
<1>1. KindsInv => (job # NoRecord => KindsOnce(job.pkgs)) BY DEF KindsInv, WellKept
<1> QED BY <1>1, KindsInit, KindsStep, PTL DEF QueueSpec

(* Whatever the operator has marked on a package stays marked, but for a      *)
(* package prepared anew and a reconciliation or an update of the agent's     *)
(* that read the file before the mark (mutateOperatorActionState,             *)
(* reconcileV1ApplyState, setJobState).                                       *)
THEOREM MarksKeptTheorem == QueueSpec => MarksKept
<1>1. KindsInv /\ [QueueNext]_queueVars =>
        [job # NoRecord =>
            \A kind \in Kinds : Marked(job, kind) =>
                \/ Marked(job', kind)
                \/ kind = "apply" /\ \E r \in Requests : PrepareWrite(r)
                \/ kind # "apply" /\ \E lane \in Lanes : ValidatorPrepare(lane)
                \/ \E r \in Requests : ReconcileWrite(r) /\ ~Marked(req[r].old, kind)
                \/ AgentWrites /\ ~Marked(agentHolds.old, kind)]_queueVars
  BY PackagesStep
<1> QED BY <1>1, KindsInit, KindsStep, PTL DEF QueueSpec, MarksKept

---------------------------------------------------------------------------
(* The runs handed to outside agents (AgentRuns): for any packets, results,  *)
(* statuses and requests under way, what was reported stays on record.       *)

---------------------------------------------------------------------------
(* The runs of outside agents. *)

RunFields == {"id", "packet", "ext", "status", "result", "report"}

(* The report a record holds is about the result it holds. *)
RunInv ==
    /\ \E n \in Nat : DOMAIN runs = 1..n
    /\ \A i \in DOMAIN runs :
          /\ DOMAIN runs[i] = RunFields
          /\ runs[i].report # Absent => runs[i].report.of = runs[i].result
    /\ DOMAIN inFlight = Requesters
    /\ \A c \in Requesters : inFlight[c] # Absent =>
          /\ DOMAIN inFlight[c] = {"op", "packet", "run", "result"}
          /\ inFlight[c].result \in Results \cup {Absent}

KeepsReports ==
    \A i \in DOMAIN runs : runs[i].report # Absent =>
          /\ runs'[i].report # Absent
          /\ runs'[i].report.of = runs'[i].result

(* A patch of the status, or of a result together with the report on it.     *)
LEMMA PatchKeeps ==
    ASSUME RunInv, NEW snapshot, NEW patch, UpdateRun(snapshot, patch),
           \/ DOMAIN patch = {"status"}
           \/ /\ DOMAIN patch = {"status", "result", "report"}
              /\ patch.report # Absent /\ patch.report.of = patch.result
    PROVE  /\ DOMAIN runs' = DOMAIN runs /\ KeepsReports
           /\ \A i \in DOMAIN runs :
                 /\ DOMAIN runs'[i] = RunFields
                 /\ runs'[i].report # Absent => runs'[i].report.of = runs'[i].result
<1> DEFINE first == FirstOf(snapshot.id)
<1>1. runs' = [runs EXCEPT ![first] = Merged(runs[first], patch)] BY DEF UpdateRun
<1> HIDE DEF first
<1>2. ASSUME NEW i \in DOMAIN runs, i # first PROVE runs'[i] = runs[i] BY <1>1, <1>2
<1>3. ASSUME first \in DOMAIN runs
      PROVE  /\ DOMAIN runs'[first] = RunFields
             /\ runs'[first].report # Absent => runs'[first].report.of = runs'[first].result
             /\ runs[first].report # Absent => runs'[first].report # Absent
  <2> DEFINE old == runs[first]
             new == Merged(old, patch)
  <2>1. runs'[first] = new BY <1>1, <1>3
  <2>2. DOMAIN old = RunFields /\ (old.report # Absent => old.report.of = old.result) BY <1>3 DEF RunInv
  <2> HIDE DEF old
  <2>3. /\ DOMAIN new = DOMAIN old
        /\ \A x \in DOMAIN old : new[x] = IF x \in DOMAIN patch THEN patch[x] ELSE old[x]
    BY DEF Merged
  <2> HIDE DEF new
  <2>4. /\ new.report = IF "report" \in DOMAIN patch THEN patch.report ELSE old.report
        /\ new.result = IF "result" \in DOMAIN patch THEN patch.result ELSE old.result
    BY <2>2, <2>3 DEF RunFields
  <2>5. DOMAIN new = RunFields BY <2>2, <2>3 DEF RunFields
  <2>6. runs[first].report = old.report BY DEF old
  <2> QED BY <2>1, <2>2, <2>4, <2>5, <2>6
<1>4. DOMAIN runs' = DOMAIN runs BY <1>1
<1> QED BY <1>2, <1>3, <1>4 DEF RunInv, KeepsReports

LEMMA RunStep ==
    ASSUME RunInv, [RunNext]_runVars
    PROVE  RunInv' /\ (KeepsReports \/ UNCHANGED runVars)
<1>1. CASE UNCHANGED runVars BY <1>1 DEF runVars, RunInv
<1>2. ASSUME UNCHANGED runs PROVE KeepsReports BY <1>2 DEF KeepsReports, RunInv
<1>3. CASE ConnectionChanges \/ \E p \in Packets : PreparePacket(p)
  BY <1>2, <1>3 DEF ConnectionChanges, PreparePacket, RunInv
<1>4. ASSUME NEW c \in Requesters, NEW request, Waits(c, request),
             DOMAIN request = {"op", "packet", "run", "result"},
             request.result \in Results \cup {Absent}
      PROVE  RunInv' /\ KeepsReports
  <2>1. UNCHANGED runs /\ inFlight' = [inFlight EXCEPT ![c] = request] BY <1>4 DEF Waits
  <2> QED BY <1>2, <1>4, <2>1 DEF RunInv
<1>5. ASSUME NEW c \in Requesters, StartRequest(c) \/ PollRequest(c) \/ IngestRequest(c) \/ CancelRequest(c)
      PROVE  RunInv' /\ KeepsReports
  BY <1>4, <1>5 DEF StartRequest, PollRequest, IngestRequest, CancelRequest
<1>6. ASSUME NEW c \in Requesters, NEW snapshot, NEW patch, UpdateRun(snapshot, patch),
             inFlight' = [inFlight EXCEPT ![c] = Absent],
             \/ DOMAIN patch = {"status"}
             \/ /\ DOMAIN patch = {"status", "result", "report"}
                /\ patch.report # Absent /\ patch.report.of = patch.result
      PROVE  RunInv' /\ KeepsReports
  BY <1>6, PatchKeeps DEF RunInv
<1>7. ASSUME NEW c \in Requesters, Polled(c) \/ Cancelled(c) PROVE RunInv' /\ KeepsReports
  BY <1>6, <1>7 DEF Polled, Cancelled
<1>8. ASSUME NEW c \in Requesters, Ingested(c) PROVE RunInv' /\ KeepsReports
  <2> DEFINE report == ValidationReport(inFlight[c].packet, inFlight[c].result)
             patch == [status |-> IF report.ok THEN "ingested" ELSE "ingest_failed",
                       result |-> inFlight[c].result, report |-> report]
  <2>1. UpdateRun(inFlight[c].run, patch) /\ inFlight' = [inFlight EXCEPT ![c] = Absent]
    BY <1>8 DEF Ingested
  <2>2. inFlight[c].result \in Results BY <1>8 DEF Ingested, RunInv
  <2>3. report.of = inFlight[c].result /\ report # Absent
    BY <2>2, RunAssumption DEF ValidationReport
  <2> HIDE DEF report
  <2>4. DOMAIN patch = {"status", "result", "report"} /\ patch.report = report /\ patch.result = inFlight[c].result
    OBVIOUS
  <2> HIDE DEF patch
  <2> QED BY <1>6, <2>1, <2>3, <2>4
<1>9. ASSUME NEW c \in Requesters, Fetched(c) \/ CallFails(c) PROVE RunInv' /\ KeepsReports
  <2>1. UNCHANGED runs /\ inFlight[c] # Absent BY <1>9 DEF Fetched, CallFails
  <2>2. CASE CallFails(c) BY <1>2, <2>1, <2>2 DEF CallFails, RunInv
  <2>3. CASE Fetched(c)
    <3>1. PICK r \in Results : inFlight' = [inFlight EXCEPT ![c].result = r] BY <2>3 DEF Fetched
    <3> DEFINE next == [inFlight[c] EXCEPT !.result = r]
    <3>2. DOMAIN next = {"op", "packet", "run", "result"} /\ next.result = r BY <2>1 DEF RunInv
    <3>3. inFlight' = [inFlight EXCEPT ![c] = next] BY <3>1 DEF RunInv
    <3> HIDE DEF next
    <3> QED BY <1>2, <2>1, <3>2, <3>3 DEF RunInv
  <2> QED BY <1>9, <2>2, <2>3
<1>10. ASSUME NEW c \in Requesters, Started(c) PROVE RunInv' /\ KeepsReports
  <2>1. PICK rec : runs' = runs \o <<rec, rec>> /\ DOMAIN rec = RunFields /\ rec.report = Absent
    <3> DEFINE record(ext, status, result) ==
                  [id |-> runNo + 1, packet |-> inFlight[c].packet, ext |-> ext, status |-> status,
                   result |-> result, report |-> Absent]
    <3>1. PICK rec \in {record(TRUE, "submitted", Absent)}
                          \cup {record(FALSE, "completed", r) : r \in Results} :
             runs' = runs \o <<rec, rec>>
      BY <1>10 DEF Started
    <3>2. \A ext, status, result : /\ DOMAIN record(ext, status, result) = RunFields
                                   /\ record(ext, status, result).report = Absent
      BY DEF RunFields
    <3>3. \E ext, status, result : rec = record(ext, status, result) BY <3>1
    <3> HIDE DEF record
    <3> QED BY <3>1, <3>2, <3>3
  <2>2. PICK n \in Nat : DOMAIN runs = 1..n BY DEF RunInv
  <2>3. Len(runs) = n /\ Len(<<rec, rec>>) = 2 BY <2>2
  <2>4. /\ DOMAIN runs' = 1..(n + 2)
        /\ \A i \in 1..(n + 2) : runs'[i] = IF i <= n THEN runs[i] ELSE rec
    BY <2>1, <2>2, <2>3
  <2>5. inFlight' = [inFlight EXCEPT ![c] = Absent] BY <1>10 DEF Started
  <2>6. \A i \in DOMAIN runs : runs'[i] = runs[i] BY <2>2, <2>4
  <2>7. KeepsReports BY <2>6 DEF KeepsReports, RunInv
  <2>8. RunInv' BY <2>1, <2>2, <2>4, <2>5, <2>6 DEF RunInv
  <2> QED BY <2>7, <2>8
<1> QED BY <1>1, <1>3, <1>5, <1>7, <1>8, <1>9, <1>10 DEF RunNext

(* Whatever requests overlap, the record of a run keeps a report on the      *)
(* result it holds (updateRun of lib/agent-runs.js merges with the record of *)
(* the moment; ingest writes result and report at once).                     *)
THEOREM ReportTheorem == RunSpec => ReportKept
<1>1. RunInit => RunInv
  <2>1. DOMAIN <<>> = 1..0 /\ 1..0 = {} OBVIOUS
  <2> QED BY <2>1 DEF RunInit, RunInv
<1>2. RunInv /\ [RunNext]_runVars => RunInv' /\ [KeepsReports]_runVars BY RunStep
<1> QED BY <1>1, <1>2, PTL DEF RunSpec, ReportKept, KeepsReports

---------------------------------------------------------------------------
(* The operator's browser (BrowserPanels), for any jobs, accounts, answers   *)
(* that come late and number of clicks.                                      *)

---------------------------------------------------------------------------
(* The browser: the detail of a job. *)

DetailRequests == [into : Effects, job : DOMAIN JobKinds, live : BOOLEAN]

DetailTypes ==
    /\ DOMAIN panelOf = Panels
    /\ requests \subseteq DetailRequests

(* A request that is not cancelled is for the selected job; so is a handler, *)
(* and all that has been emptied or filled since, if nobody was hasty.       *)
DetailInv ==
    /\ DetailTypes
    /\ \A r \in requests : r.live => r.job = selected
    /\ \A p \in {"operatorView", "procArtifacts"} \ busy : panelOf[p] \in {Nobody, selected}
    /\ ~hasty =>
          /\ \A c \in clicked : c.job = selected
          /\ \A p \in Emptied : panelOf[p] \in {Nobody, selected}
          /\ opened.of = opened.at

DetailSettled ==
    /\ \A p \in {"operatorView", "procArtifacts"} \ busy : panelOf[p] \in {Nobody, selected}
    /\ ~hasty => /\ \A p \in Panels \ busy : panelOf[p] \in {Nobody, selected}
                 /\ opened.of = opened.at

LEMMA DetailSettles == ASSUME DetailInv PROVE DetailSettled
<1>1. Panels = Emptied \cup {"operatorView", "procArtifacts"}
  BY DEF Panels, Effects, EffectKinds, Emptied
<1> QED BY <1>1 DEF DetailInv, DetailSettled

LEMMA DetailInvInit == ASSUME DetailInit PROVE DetailInv
<1>1. Emptied \subseteq Panels /\ {"operatorView", "procArtifacts"} \subseteq Panels
  BY DEF Panels, Effects, EffectKinds, Emptied
<1> QED BY <1>1 DEF DetailInit, DetailInv, DetailTypes

(* A selection: what it does not ask for anew is emptied.                    *)
LEMMA DisplayKeeps ==
    ASSUME DetailInv, NEW j \in DOMAIN JobKinds \cup {Nobody}, j # Nobody, Display(j), UNCHANGED <<clicked, opened>>
    PROVE  DetailInv'
<1> DEFINE asked == {p \in Effects : KindOf(j) \in EffectKinds[p]}
           old == {[r EXCEPT !.live = FALSE] : r \in requests}
           new == {[into |-> p, job |-> j, live |-> TRUE] : p \in asked}
<1>1. /\ panelOf' = [p \in Panels |-> IF p \in Emptied \cup (Effects \ asked) THEN Nobody ELSE panelOf[p]]
      /\ selected' = j /\ busy' = asked /\ requests' = old \cup new
      /\ hasty' = (hasty \/ clicked # {})
  BY DEF Display
<1>2. Emptied \subseteq Panels /\ {"operatorView", "procArtifacts"} \subseteq Panels \cap Effects
  BY DEF Panels, Effects, EffectKinds, Emptied
<1>3. \A r \in old : r \in DetailRequests /\ ~r.live BY DEF DetailInv, DetailTypes, DetailRequests
<1>4. \A r \in new : r \in DetailRequests /\ r.job = j
  <2>1. asked \subseteq Effects /\ j \in DOMAIN JobKinds OBVIOUS
  <2>2. ASSUME NEW p \in Effects PROVE [into |-> p, job |-> j, live |-> TRUE] \in DetailRequests
    BY <2>1 DEF DetailRequests
  <2>3. ASSUME NEW r \in new PROVE r \in DetailRequests /\ r.job = j
    <3>1. PICK p \in asked : r = [into |-> p, job |-> j, live |-> TRUE] OBVIOUS
    <3>2. p \in Effects BY <2>1
    <3>3. r.job = j BY <3>1
    <3> QED BY <3>1, <3>2, <3>3, <2>2
  <2> QED BY <2>3
<1>5. DetailTypes' BY <1>1, <1>3, <1>4 DEF DetailTypes
<1>6. \A r \in requests' : r.live => r.job = selected' BY <1>1, <1>3, <1>4
<1> HIDE DEF asked, old, new
<1>7. \A p \in {"operatorView", "procArtifacts"} \ busy' : panelOf'[p] \in {Nobody, selected'}
  BY <1>1, <1>2
<1>8. \A p \in Emptied : panelOf'[p] = Nobody BY <1>1, <1>2
<1> QED BY <1>1, <1>5, <1>6, <1>7, <1>8 DEF DetailInv

(* The answer to an effect: nothing is shown of a request that is cancelled. *)
LEMMA AnswerKeeps ==
    ASSUME DetailInv, NEW r \in requests, NEW ok \in BOOLEAN, Answer(r, ok)
    PROVE  DetailInv'
<1>1. r \in DetailRequests /\ r.into \in Effects BY DEF DetailInv, DetailTypes, DetailRequests
<1>2. /\ requests' = requests \ {r} /\ UNCHANGED <<selected, clicked, opened, hasty>>
      /\ r.live => panelOf' = [panelOf EXCEPT ![r.into] = IF ok THEN r.job ELSE Nobody]
                   /\ busy' = busy \ {r.into}
      /\ ~r.live => UNCHANGED <<panelOf, busy>>
  BY DEF Answer
<1>3. CASE ~r.live BY <1>2, <1>3 DEF DetailInv, DetailTypes
<1>4. CASE r.live
  <2>1. r.job = selected BY <1>4 DEF DetailInv
  <2>2. panelOf' = [panelOf EXCEPT ![r.into] = IF ok THEN selected ELSE Nobody] /\ busy' = busy \ {r.into}
    BY <1>2, <1>4, <2>1
  <2>3. {"operatorView", "procArtifacts"} \cup Emptied \subseteq Panels
    BY DEF Panels, Effects, EffectKinds, Emptied
  <2>4. \A p \in Panels : panelOf'[p] \in {Nobody, selected} \/ (panelOf'[p] = panelOf[p] /\ p # r.into)
    BY <2>2 DEF DetailInv, DetailTypes
  <2>5. DOMAIN panelOf' = Panels BY <2>2 DEF DetailInv, DetailTypes
  <2> QED BY <1>2, <2>2, <2>3, <2>4, <2>5 DEF DetailInv, DetailTypes
<1> QED BY <1>3, <1>4

(* The buttons fill and clear what a selection empties, and nothing else.    *)
LEMMA ButtonsFillEmptied ==
    ASSUME NEW h \in DOMAIN Handler
    PROVE  /\ {"operatorView", "procArtifacts"} \cap Handler[h].loads = {}
           /\ Handler[h].clears \subseteq Emptied
BY DEF Handler, Button, Emptied, Panels, Effects, EffectKinds

LEMMA ClickKeeps ==
    ASSUME DetailInv, NEW h \in DOMAIN Handler, Click(h)
    PROVE  DetailInv'
<1>1. UNCHANGED <<selected, panelOf, requests, hasty>> BY DEF Click
<1>2. "validatorPrepare" \in Emptied BY DEF Emptied, Panels, Effects, EffectKinds
<1>3. CASE h = "decide" /\ panelOf["validatorPrepare"] # Nobody
  <2>1. UNCHANGED <<clicked, busy>> /\ opened' = [of |-> panelOf["validatorPrepare"], at |-> selected]
    BY <1>3 DEF Click, Open
  <2>2. ~hasty => opened'.of = opened'.at BY <1>2, <1>3, <2>1 DEF DetailInv
  <2> QED BY <1>1, <2>1, <2>2 DEF DetailInv, DetailTypes
<1>4. CASE ~(h = "decide" /\ panelOf["validatorPrepare"] # Nobody)
  <2> DEFINE new == [handler |-> h, job |-> selected, todo |-> Handler[h].fills]
  <2>1. /\ clicked' = clicked \cup {new} /\ UNCHANGED opened
        /\ busy' = busy \cup Loading(h, Handler[h].fills)
    BY <1>4 DEF Click
  <2>2. new.job = selected OBVIOUS
  <2> HIDE DEF new
  <2>3. ~hasty => \A c \in clicked' : c.job = selected' BY <1>1, <2>1, <2>2 DEF DetailInv
  <2>4. busy \subseteq busy' BY <2>1
  <2> QED BY <1>1, <2>1, <2>3, <2>4 DEF DetailInv, DetailTypes
<1> QED BY <1>3, <1>4

(* Who is under way, and what a handler still has to fill.                   *)
DetailHands ==
    /\ selected \in DOMAIN JobKinds \cup {Nobody}
    /\ following \in DOMAIN JobKinds \cup {Nobody}
    /\ \A c \in clicked :
          /\ c \in [handler : DOMAIN Handler, job : DOMAIN JobKinds, todo : Seq(Emptied)]
          /\ c.todo # <<>>

LEMMA FillsEmptied ==
    ASSUME NEW h \in DOMAIN Handler
    PROVE  Handler[h].fills \in Seq(Emptied) /\ Handler[h].fills # <<>>
<1>1. {"validation", "applyPrepare", "applyStatus", "validatorPrepare", "primeAction", "primeTimeline"}
        \subseteq Emptied
  BY DEF Emptied, Panels, Effects, EffectKinds
<1>2. Handler[h].fills \in {<<"validation">>, <<"applyPrepare", "applyStatus">>, <<"applyStatus">>,
                           <<"validatorPrepare">>, <<"primeAction", "primeTimeline">>}
  BY DEF Handler, Button
<1>3. ASSUME NEW a \in Emptied, NEW b \in Emptied
      PROVE  /\ <<a>> \in Seq(Emptied) /\ <<a, b>> \in Seq(Emptied)
             /\ <<a>> # <<>> /\ <<a, b>> # <<>>
  OBVIOUS
<1> HIDE DEF Emptied
<1> DEFINE f == Handler[h].fills
<1> HIDE DEF f
<1>4. f \in {<<"validation">>, <<"applyPrepare", "applyStatus">>, <<"applyStatus">>,
             <<"validatorPrepare">>, <<"primeAction", "primeTimeline">>}
  BY <1>2 DEF f
<1>5. CASE f = <<"validation">> BY <1>1, <1>3, <1>5 DEF f
<1>6. CASE f = <<"applyPrepare", "applyStatus">> BY <1>1, <1>3, <1>6 DEF f
<1>7. CASE f = <<"applyStatus">> BY <1>1, <1>3, <1>7 DEF f
<1>8. CASE f = <<"validatorPrepare">> BY <1>1, <1>3, <1>8 DEF f
<1>9. CASE f = <<"primeAction", "primeTimeline">> BY <1>1, <1>3, <1>9 DEF f
<1> QED BY <1>4, <1>5, <1>6, <1>7, <1>8, <1>9

LEMMA DetailHandsInit == ASSUME DetailInit PROVE DetailHands
BY DEF DetailInit, DetailHands

LEMMA DetailHandsStep == ASSUME DetailHands, [DetailNext]_detailVars PROVE DetailHands'
<1>1. CASE UNCHANGED detailVars BY <1>1 DEF detailVars, DetailHands
<1>2. ASSUME NEW j \in DOMAIN JobKinds, Select(j) \/ Mark(j) PROVE DetailHands'
  BY <1>2 DEF Select, Mark, Display, DetailHands
<1>3. ASSUME NEW r \in requests, NEW ok \in BOOLEAN, Answer(r, ok) PROVE DetailHands'
  BY <1>3 DEF Answer, DetailHands
<1>4. ASSUME NEW c \in clicked, NEW ok \in BOOLEAN, Handled(c, ok) PROVE DetailHands'
  <2> DEFINE left == IF ok THEN Tail(c.todo) ELSE <<>>
  <2>1. /\ c.handler \in DOMAIN Handler /\ c.job \in DOMAIN JobKinds
        /\ c \in [handler : DOMAIN Handler, job : DOMAIN JobKinds, todo : Seq(Emptied)]
        /\ c.todo \in Seq(Emptied) /\ c.todo # <<>>
    BY DEF DetailHands
  <2>2. left \in Seq(Emptied) BY <2>1
  <2>3. clicked' = (clicked \ {c}) \cup (IF left = <<>> THEN {} ELSE {[c EXCEPT !.todo = left]})
    BY <1>4 DEF Handled
  <2> HIDE DEF left
  <2> DEFINE d == [c EXCEPT !.todo = left]
  <2>4. d \in [handler : DOMAIN Handler, job : DOMAIN JobKinds, todo : Seq(Emptied)] /\ d.todo = left
    BY <2>1, <2>2
  <2> HIDE DEF d
  <2>5. clicked' = (clicked \ {c}) \cup (IF left = <<>> THEN {} ELSE {d}) BY <2>3 DEF d
  <2>6. UNCHANGED <<selected, following>> BY <1>4 DEF Handled
  <2> QED BY <2>4, <2>5, <2>6 DEF DetailHands
<1>5. ASSUME NEW h \in DOMAIN Handler, Click(h) PROVE DetailHands'
  <2> DEFINE new == [handler |-> h, job |-> selected, todo |-> Handler[h].fills]
  <2>1. /\ selected # Nobody /\ UNCHANGED <<selected, following>>
        /\ clicked' = clicked \/ clicked' = clicked \cup {new}
    BY <1>5 DEF Click
  <2>2. /\ new \in [handler : DOMAIN Handler, job : DOMAIN JobKinds, todo : Seq(Emptied)]
        /\ new.todo # <<>>
    BY <2>1, FillsEmptied DEF DetailHands
  <2> HIDE DEF new
  <2> QED BY <2>1, <2>2 DEF DetailHands
<1>6. CASE Follow BY <1>6 DEF Follow, Display, DetailHands
<1> QED BY <1>1, <1>2, <1>3, <1>4, <1>5, <1>6 DEF DetailNext

LEMMA HandledKeeps ==
    ASSUME DetailInv, DetailHands, NEW c \in clicked, NEW ok \in BOOLEAN, Handled(c, ok)
    PROVE  DetailInv'
<1> DEFINE left == IF ok THEN Tail(c.todo) ELSE <<>>
           renewed == {Head(c.todo)} \cup
               (IF c.handler = "reconcileApply" /\ panelOf["applyPrepare"] # Nobody
                THEN {"applyPrepare"} ELSE {})
<1>1. c.handler \in DOMAIN Handler /\ Head(c.todo) \in Emptied BY DEF DetailHands
<1>2. renewed \subseteq Emptied /\ {"operatorView", "procArtifacts"} \cap Emptied = {}
      /\ Emptied \subseteq Panels /\ {"operatorView", "procArtifacts"} \subseteq Panels
  BY <1>1 DEF Emptied, Panels, Effects, EffectKinds
<1>3. /\ UNCHANGED <<selected, requests, hasty>>
      /\ opened' = [of |-> c.job, at |-> selected] \/ opened' = opened
      /\ busy' = (busy \ Loading(c.handler, c.todo)) \cup Loading(c.handler, left)
      /\ clicked' = (clicked \ {c}) \cup (IF left = <<>> THEN {} ELSE {[c EXCEPT !.todo = left]})
      /\ DOMAIN panelOf' = Panels
      /\ \A p \in Panels : \/ (panelOf'[p] = c.job /\ p \in renewed)
                          \/ (panelOf'[p] = Nobody /\ p \in Handler[c.handler].clears)
                          \/ panelOf'[p] = panelOf[p]
  <2> DEFINE step == Len(Handler[c.handler].fills) - Len(c.todo) + 1
  <2>1. /\ UNCHANGED <<selected, requests, hasty>>
        /\ busy' = (busy \ Loading(c.handler, c.todo)) \cup Loading(c.handler, left)
        /\ clicked' = (clicked \ {c}) \cup (IF left = <<>> THEN {} ELSE {[c EXCEPT !.todo = left]})
    BY DEF Handled
  <2>2. opened' = [of |-> c.job, at |-> selected] \/ opened' = opened BY DEF Handled, Open
  <2>3. panelOf' = [p \in Panels |->
             IF ok /\ p \in renewed THEN c.job
             ELSE IF ~ok /\ step = 1 /\ p \in Handler[c.handler].clears THEN Nobody
             ELSE panelOf[p]]
    BY DEF Handled
  <2> HIDE DEF renewed, left, step
  <2> QED BY <2>1, <2>2, <2>3
<1> HIDE DEF renewed
<1>5. \A p \in {"operatorView", "procArtifacts"} : (p \in busy' <=> p \in busy) /\ panelOf'[p] = panelOf[p]
  BY <1>1, <1>2, <1>3, ButtonsFillEmptied DEF Loading
<1>6. ASSUME ~hasty PROVE /\ \A d \in clicked' : d.job = selected
                          /\ \A p \in Emptied : panelOf'[p] \in {Nobody, selected}
                          /\ opened'.of = opened'.at
  <2>1. c.job = selected BY <1>6 DEF DetailInv
  <2>2. left # <<>> => [c EXCEPT !.todo = left].job = selected BY <2>1 DEF DetailHands
  <2>3. \A d \in clicked' : d.job = selected BY <1>3, <1>6, <2>2 DEF DetailInv
  <2>4. \A p \in Emptied : panelOf'[p] \in {Nobody, selected} BY <1>2, <1>3, <1>6, <2>1 DEF DetailInv
  <2> QED BY <1>3, <1>6, <2>1, <2>3, <2>4 DEF DetailInv
<1> QED BY <1>3, <1>5, <1>6 DEF DetailInv, DetailTypes

LEMMA DetailStep ==
    ASSUME DetailInv, DetailHands, [DetailNext]_detailVars PROVE DetailInv'
<1>1. CASE UNCHANGED detailVars BY <1>1 DEF detailVars, DetailInv, DetailTypes
<1>2. ASSUME NEW j \in DOMAIN JobKinds, Select(j) PROVE DetailInv'
  BY <1>2, DisplayKeeps, BrowserAssumption DEF Select
<1>3. ASSUME NEW j \in DOMAIN JobKinds, Mark(j) PROVE DetailInv'
  BY <1>3 DEF Mark, DetailInv, DetailTypes
<1>4. CASE Follow
  <2>1. CASE Display(following) BY <1>4, <2>1, DisplayKeeps DEF Follow, DetailHands
  <2>2. CASE UNCHANGED <<selected, panelOf, busy, requests, hasty, selections>>
    BY <1>4, <2>2 DEF Follow, DetailInv, DetailTypes
  <2> QED BY <1>4, <2>1, <2>2 DEF Follow
<1> QED BY <1>1, <1>2, <1>3, <1>4, AnswerKeeps, HandledKeeps, ClickKeeps DEF DetailNext

---------------------------------------------------------------------------
(* The wallet.                                                               *)

(* Unless the account was changed while a request for it was on its way,     *)
(* every request is about the account chosen last.                           *)
WalletInv ==
    /\ DOMAIN figures = Figures
    /\ ~swapped =>
          /\ accountAsks \subseteq {chosen}
          /\ accountAsks = {} \/ figureReads # {} => account = chosen
          /\ \A r \in figureReads : r.of = chosen
          /\ \A f \in Figures \ {"balances"} :
                (\A r \in figureReads : r.figure # f) => figures[f] \in {Nobody, account}

WalletSettled ==
    ~swapped /\ accountAsks = {} =>
          /\ account = chosen
          /\ \A f \in Figures \ {"balances"} :
                (\A r \in figureReads : r.figure # f) => figures[f] \in {Nobody, account}

LEMMA WalletInvInit == ASSUME WalletInit PROVE WalletInv
BY DEF WalletInit, WalletInv

LEMMA WalletStep == ASSUME WalletInv, [WalletNext]_walletVars PROVE WalletInv'
<1>1. CASE UNCHANGED walletVars BY <1>1 DEF walletVars, WalletInv
<1>2. ASSUME NEW a \in Accounts \cup {Nobody}, AskAccount(a) PROVE WalletInv'
  <2>1. /\ UNCHANGED <<account, figures, figureReads>>
        /\ chosen' = a /\ accountAsks' = accountAsks \cup {a}
        /\ ~swapped' => ~swapped /\ (a = chosen \/ (figureReads = {} /\ accountAsks = {}))
    BY <1>2 DEF AskAccount
  <2> QED BY <2>1 DEF WalletInv
<1>3. ASSUME NEW a \in Accounts \cup {Nobody}, TakeAccount(a) PROVE WalletInv'
  <2> DEFINE new == {[figure |-> f, of |-> a] : f \in Figures}
  <2>1. /\ UNCHANGED <<chosen, swapped>> /\ a \in accountAsks /\ account' = a
        /\ figures' = [f \in Figures |-> IF f = "ensName" \/ a = Nobody THEN Nobody ELSE figures[f]]
        /\ figureReads' = figureReads \cup (IF a = Nobody THEN {} ELSE new)
        /\ accountAsks' = accountAsks \ {a}
    BY <1>3 DEF TakeAccount
  <2>2. (\A r \in new : r.of = a) /\ (\A f \in Figures : \E r \in new : r.figure = f)
    <3>1. \A f \in Figures : [figure |-> f, of |-> a] \in new OBVIOUS
    <3>2. \A f \in Figures : [figure |-> f, of |-> a].figure = f OBVIOUS
    <3>3. ASSUME NEW r \in new PROVE r.of = a OBVIOUS
    <3> HIDE DEF new
    <3> QED BY <3>1, <3>2, <3>3
  <2> HIDE DEF new
  <2>3. ASSUME ~swapped PROVE a = chosen BY <2>1, <2>3 DEF WalletInv
  <2>4. ASSUME a = Nobody PROVE \A f \in Figures : figures'[f] = Nobody BY <2>1, <2>4
  <2>5. ASSUME a # Nobody PROVE \A f \in Figures : \E r \in figureReads' : r.figure = f
    BY <2>1, <2>2, <2>5
  <2> QED BY <2>1, <2>2, <2>3, <2>4, <2>5 DEF WalletInv
<1>4. ASSUME NEW r \in figureReads, NEW ok \in BOOLEAN, TakeFigure(r, ok) PROVE WalletInv'
  <2>1. /\ UNCHANGED <<chosen, account, accountAsks, swapped>> /\ figureReads' = figureReads \ {r}
        /\ figures' = [figures EXCEPT ![r.figure] = IF ok THEN r.of
                            ELSE IF r.figure = "balances" THEN figures[r.figure] ELSE Nobody]
    BY <1>4 DEF TakeFigure
  <2>2. ASSUME ~swapped PROVE r.of = account BY <2>2 DEF WalletInv
  <2> QED BY <2>1, <2>2 DEF WalletInv
<1> QED BY <1>1, <1>2, <1>3, <1>4 DEF WalletNext

(* What the operator looks at is about the job, and the account, that are    *)
(* selected, for any number of jobs, handlers and answers in any order       *)
(* (JobDetail.jsx, useWallet.js).                                            *)
THEOREM SettledTheorem == BrowserSpec => []SettledIsSelected
<1>1. BrowserInit => DetailInv /\ DetailHands /\ WalletInv
  BY DetailInvInit, DetailHandsInit, WalletInvInit DEF BrowserInit
<1>2. [BrowserNext]_browserVars => [DetailNext]_detailVars /\ [WalletNext]_walletVars
  BY DEF BrowserNext, browserVars
<1>3. DetailInv /\ DetailHands /\ WalletInv /\ [BrowserNext]_browserVars
        => DetailInv' /\ DetailHands' /\ WalletInv'
  BY <1>2, DetailStep, DetailHandsStep, WalletStep
<1>4. DetailInv /\ WalletInv => SettledIsSelected
  <2>1. WalletInv => WalletSettled BY DEF WalletInv, WalletSettled
  <2> QED BY <2>1, DetailSettles DEF DetailSettled, WalletSettled, SettledIsSelected
<1> QED BY <1>1, <1>3, <1>4, PTL DEF BrowserSpec

---------------------------------------------------------------------------
(* The list of actions. *)

ListInv ==
    /\ filter \in Filters
    /\ polls \subseteq [filter : Filters, answer : SUBSET Ids]
    /\ DismissedStaysGone

LEMMA ListStep == ASSUME ListInv, [ListNext]_listVars PROVE ListInv'
<1>1. CASE UNCHANGED listVars BY <1>1 DEF listVars, ListInv, DismissedStaysGone
<1>2. CASE BeginPoll \/ \E by \in Filters : SetFilter(by)
  BY <1>2 DEF BeginPoll, SetFilter, Ask, ListInv, DismissedStaysGone
<1>3. CASE DismissAll BY <1>3 DEF DismissAll, ListInv, DismissedStaysGone
<1>4. ASSUME NEW poll \in polls, TakePoll(poll) PROVE ListInv'
  <2>1. poll.filter \in Filters BY DEF ListInv
  <2>2. \A s, by : by \in Filters => Visible(s, by) \subseteq s BY DEF Visible, Filters
  <2>3. listed' \subseteq poll.answer \ dismissed BY <1>4, <2>1, <2>2 DEF TakePoll
  <2> QED BY <1>4, <2>3 DEF TakePoll, ListInv, DismissedStaysGone
<1>5. ASSUME NEW id \in Ids, Dismiss(id) \/ Swept(id) \/ (\E ok \in BOOLEAN : Dismissed(id, ok))
      PROVE  ListInv'
  BY <1>5 DEF Dismiss, Swept, Dismissed, ListInv, DismissedStaysGone
<1> QED BY <1>1, <1>2, <1>3, <1>4, <1>5 DEF ListNext

(* A dismissed action stays gone, for any number of actions, polls and       *)
(* dismissals on their way (useActions.js).                                  *)
THEOREM DismissedTheorem == BrowserSpec => []DismissedStaysGone
<1>1. BrowserInit => ListInv BY DEF BrowserInit, ListInit, ListInv, Filters, DismissedStaysGone
<1>2. [BrowserNext]_browserVars => [ListNext]_listVars BY DEF BrowserNext, browserVars
<1>3. ListInv /\ [BrowserNext]_browserVars => ListInv' BY <1>2, ListStep
<1>4. ListInv => DismissedStaysGone BY DEF ListInv
<1> QED BY <1>1, <1>3, <1>4, PTL DEF BrowserSpec
=============================================================================
