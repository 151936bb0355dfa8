--------------------------- MODULE RuntimeDaemon ---------------------------
(***************************************************************************)
(* The processes that run the pipelines: the daemon of app/daemon.js, under *)
(* the lock of AgentLock, and app/cli.js, under none.  A run reads the      *)
(* item's state file, then goes through the stages with the copy it holds,  *)
(* writing each new status back.  It may die at any await.                  *)
(***************************************************************************)
EXTENDS AgentLock, RuntimePipeline

CONSTANTS
    Cli,        \* the operator's command line
    Deadlines,  \* the deadlines the command line is given
    Times,      \* the times at which it is called
    InitialStatuses  \* InitialStatuses[i]: the initialStatus values it is given for i

ASSUME RunnerAssumption == Cli \notin Procs \cup {NoProc}

Runners == Procs \cup {Cli}

Items == {"runtime", "job", "proc"}

NoItem == [status |-> "NONE", retrieval |-> FALSE]

VARIABLES
    item,   \* the state file of each item
    arts,   \* the artifacts of each item
    at,     \* where a runner's pipeline is: rest, stage, write
    view,   \* the item as the runner holds it
    owed,   \* the transitions its stage still has to make
    stops,  \* whether the pipeline stops after them
    call,   \* what the command line was last called with
    died    \* history variable: a command line died in mid-run

itemVars == <<item, arts, at, view, owed, stops, call, died>>
vars == <<lockVars, itemVars>>

(* What a runner hands to routeProtocol: the daemon the version hint of the *)
(* runtime item, which no stage ever sets.                                  *)
DaemonInput == [protocol |-> "", versions |-> <<"", "", "", "">>, procurement |-> FALSE]

CliInput(i) == [protocol |-> "", versions |-> <<IF i = "job" THEN "v2" ELSE "">>,
                procurement |-> i = "proc"]

ItemOf(r) == IF r = Cli THEN call.item ELSE "runtime"

ProtocolOf(r) == DetectProtocol(IF r = Cli THEN CliInput(call.item) ELSE DaemonInput)

Calls == UNION {[item : {i}, now : Times, isFinalist : BOOLEAN, winner : BOOLEAN,
                 deadlines : {Deadlines}, initial : InitialStatuses[i]] : i \in {"job", "proc"}}

DaemonTypeOK ==
    /\ LockTypeOK
    /\ \A i \in Items : item[i] \in [status : {"NONE"} \cup DOMAIN V1Transitions \cup DOMAIN PrimeTransitions,
                                     retrieval : BOOLEAN]
    /\ arts \in [Items -> SUBSET Artifact]
    /\ at \in [Runners -> {"rest", "stage", "write"}]

Init ==
    /\ LockInit
    /\ item = [i \in Items |-> NoItem]
    /\ arts = [i \in Items |-> {}]
    /\ at = [r \in Runners |-> "rest"]
    /\ view = [r \in Runners |-> NoItem]
    /\ owed = [r \in Runners |-> <<>>]
    /\ stops = [r \in Runners |-> FALSE]
    /\ call \in Calls
    /\ died = FALSE

---------------------------------------------------------------------------
(* runPipeline. *)

(* getOrCreate. *)
Begin(r, fresh) ==
    LET i == ItemOf(r)
        read == IF item[i] = NoItem THEN [status |-> fresh, retrieval |-> FALSE] ELSE item[i] IN
    /\ at[r] = "rest"
    /\ item' = [item EXCEPT ![i] = read]
    /\ view' = [view EXCEPT ![r] = read]
    /\ at' = [at EXCEPT ![r] = "stage"]

(* The stage whose "when" names the status, up to its artifacts; none ends  *)
(* the run.                                                                 *)
RunStage(r) ==
    LET i == ItemOf(r)
        s == StageOf(ProtocolOf(r), view[r], arts[i], call) IN
    /\ at[r] = "stage"
    /\ arts' = [arts EXCEPT ![i] = @ \cup s.arts]
    /\ owed' = [owed EXCEPT ![r] = s.moves]
    /\ stops' = [stops EXCEPT ![r] = s.stop]
    /\ at' = [at EXCEPT ![r] = IF s.moves = <<>> THEN "rest" ELSE "write"]
    /\ view' = [view EXCEPT ![r] = IF s.moves = <<>> THEN NoItem ELSE @]
    /\ UNCHANGED <<item, call, died>>

(* transition: the table decides, then the runner's copy is written.        *)
Legal(r) == CanTransition(ProtocolOf(r), view[r].status, Head(owed[r]))

(* Only the discover stage sets retrievalComplete.                          *)
Moved(r) == [status |-> Head(owed[r]), retrieval |-> view[r].retrieval \/ view[r].status = "DISCOVERED"]

After(r) == IF Len(owed[r]) > 1 THEN "write" ELSE IF stops[r] THEN "rest" ELSE "stage"

(* Mutant: the first of a stage's two transitions is the only one made.     *)
TransitionOnce(r) ==
    /\ view' = [view EXCEPT ![r] = Moved(r)]
    /\ item' = [item EXCEPT ![ItemOf(r)] = Moved(r)]
    /\ owed' = [owed EXCEPT ![r] = <<>>]
    /\ at' = [at EXCEPT ![r] = IF stops[r] THEN "rest" ELSE "stage"]

Transition(r) ==
    /\ view' = [view EXCEPT ![r] = IF After(r) = "rest" THEN NoItem ELSE Moved(r)]
    /\ item' = [item EXCEPT ![ItemOf(r)] = Moved(r)]
    /\ owed' = [owed EXCEPT ![r] = Tail(@)]
    /\ at' = [at EXCEPT ![r] = After(r)]

Write(r) == at[r] = "write" /\ Legal(r) /\ Transition(r) /\ UNCHANGED <<arts, stops, call, died>>

(* A run that ends in the middle takes its memory with it.                  *)
Drop(r) ==
    /\ at' = [at EXCEPT ![r] = "rest"]
    /\ view' = [view EXCEPT ![r] = NoItem]
    /\ owed' = [owed EXCEPT ![r] = <<>>]
    /\ stops' = [stops EXCEPT ![r] = FALSE]

(* An IllegalTransitionError ends the run; the daemon exits on it, past its *)
(* clean-up handlers.                                                       *)
Throw(r) == at[r] = "write" /\ ~Legal(r) /\ Drop(r) /\ UNCHANGED <<item, arts, call, died>>

---------------------------------------------------------------------------
(* The daemon: one run after another while its process lives.               *)

DaemonStep(p) ==
    /\ pc[p] \in Looping
    /\ \/ Begin(p, "DISCOVERED") /\ UNCHANGED <<arts, owed, stops, call, died, lockVars>>
       \/ RunStage(p) /\ UNCHANGED lockVars
       \/ Write(p) /\ UNCHANGED lockVars
       \/ Throw(p) /\ Go(p, "killed") /\ UNCHANGED <<lock, filled, seen, reused>>

(* The command line: called with any input, it runs once and exits.         *)
CliStart(i) ==
    /\ at[Cli] = "rest"
    /\ \E c \in {d \in Calls : d.item = i} :
          LET read == IF item[i] = NoItem THEN [status |-> c.initial, retrieval |-> FALSE] ELSE item[i] IN
          /\ call' = c
          /\ item' = [item EXCEPT ![i] = read]
          /\ view' = [view EXCEPT ![Cli] = read]
    /\ at' = [at EXCEPT ![Cli] = "stage"]
    /\ UNCHANGED <<arts, owed, stops, died, lockVars>>

CliStep == (RunStage(Cli) \/ Write(Cli) \/ Throw(Cli)) /\ UNCHANGED lockVars

CliDies ==
    /\ at[Cli] # "rest" /\ ~died
    /\ died' = TRUE
    /\ Drop(Cli)
    /\ UNCHANGED <<item, arts, call, lockVars>>

(* Whoever produces the rest of the canonical bundle puts it there.         *)
Emit(i) ==
    /\ arts' = [arts EXCEPT ![i] = @ \cup {"rest"}]
    /\ UNCHANGED <<item, at, view, owed, stops, call, died, lockVars>>

DaemonNext ==
    \/ \E p \in Procs :
          \/ LockStep(p) /\ pc'[p] \notin Gone /\ UNCHANGED itemVars
          \/ LockStep(p) /\ pc'[p] \in Gone /\ Drop(p) /\ UNCHANGED <<item, arts, call, died>>
          \/ Kill(p) /\ Drop(p) /\ UNCHANGED <<item, arts, call, died>>
          \/ ReusePid(p) /\ UNCHANGED itemVars
          \/ DaemonStep(p)
    \/ Emit("runtime")

CliNext(i) == CliStart(i) \/ CliStep \/ CliDies \/ Emit(i)

Next == DaemonNext \/ \E i \in {"job", "proc"} : CliNext(i)

Spec == Init /\ [][Next]_vars

---------------------------------------------------------------------------
(* Properties. *)

(* A status moves along the table of its protocol and never back: not when  *)
(* a daemon dies and another resumes the item, and not because two loops    *)
(* write one item from two copies, which the lock is there to prevent.      *)
StatusFollowsTable ==
    [][\A i \in Items :
          item[i] # NoItem /\ item'[i].status # item[i].status =>
              CanTransition(IF i = "proc" THEN "prime" ELSE "v1", item[i].status, item'[i].status)]_vars

(* No v1 item is past its submission without the whole canonical bundle.    *)
BundleBehindSubmission ==
    \A i \in {"runtime", "job"} :
        item[i].status \in {"SUBMITTED_UNSIGNED", "RECONCILING", "DONE"} => RequireCanonical(arts[i])

Resting == {"DONE", "FAILED", "BLOCKED_DEADLINE", "BLOCKED_RETRIEVAL_REQUIRED"}

(* A procurement the command line began comes to DONE or to a blocked       *)
(* status, unless a call died between the two writes of one stage: no stage *)
(* takes up COMMITTED_UNSIGNED, REVEALED_UNSIGNED or                        *)
(* FINALIST_ACCEPTED_UNSIGNED.                                              *)
Settles == (item["proc"] # NoItem) ~> (item["proc"].status \in Resting \/ died)

=============================================================================
