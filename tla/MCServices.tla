---------------------------- MODULE MCServices ----------------------------
(***************************************************************************)
(* One instance of the parts that share no file with each other: a daemon   *)
(* or the command line on an item of its own (RuntimeDaemon), the scans for *)
(* notifications (NotificationFeed), the execution tiers (ExecutionTier), a *)
(* validator's review (ValidatorReview) and the operator's scripts on a     *)
(* procurement or a job (OperatorScripts).  part says which one a behaviour *)
(* is about; the others rest in one initial state.                          *)
(***************************************************************************)
EXTENDS RuntimeDaemon, NotificationFeed, ExecutionTier, ValidatorReview, OperatorScripts

CONSTANTS p1, p2, p3

VARIABLE part

servicesVars == <<vars, feedVars, tierVars, reviewVars, scriptVars, part>>

Parts == Items \cup {"feed", "tier", "review", "desk", "bench"}

---------------------------------------------------------------------------
(* Values of the constants. *)

ThreeProcs == {p1, p2, p3}
TickDeadlines == [commit |-> 1, reveal |-> 2, accept |-> 3, trial |-> 4, scoreCommit |-> 5, scoreReveal |-> 6]
EarlyLateTimes == 0..6
Starts == [job |-> {"DISCOVERED", "EXECUTION_READY"}, proc |-> {"DISCOVERED"}]

(* A full deliverable published in time, and a thin one. *)
TwoTrials ==
    {DOMAIN Points["spec"] \cup DOMAIN Points["quality"] \cup DOMAIN Points["public"]
        \cup {"scorePhase", "beforeScoreCommit"},
     {"headings", "cid", "uri", "words"}}

---------------------------------------------------------------------------
(* Processes are interchangeable: they are started in this order. *)
InOrder ==
    /\ pc'[p1] = "unborn" => pc'[p2] = "unborn"
    /\ pc'[p2] = "unborn" => pc'[p3] = "unborn"

MCInit ==
    /\ Init /\ FeedInit /\ TierInit /\ ReviewInit /\ ScriptsInit
    /\ part \in Parts
    /\ call = CHOOSE c \in Calls : c.item = (IF part \in {"job", "proc"} THEN part ELSE "proc")
    /\ part # "feed" => entity = [e \in Entities |-> CHOOSE s \in EntityStatuses : s \notin Attention]
    /\ part # "desk" => procState = NoFile
    /\ part # "bench" => jobBundle = AllChecks

MCNext ==
    /\ UNCHANGED part
    /\ \/ /\ part \in Items
          /\ IF part = "runtime" THEN DaemonNext /\ InOrder ELSE CliNext(part)
          /\ UNCHANGED <<feedVars, tierVars, reviewVars, scriptVars>>
       \/ /\ part = "feed" /\ FeedNext
          /\ UNCHANGED <<vars, tierVars, reviewVars, scriptVars>>
       \/ /\ part = "tier" /\ TierNext
          /\ UNCHANGED <<vars, feedVars, reviewVars, scriptVars>>
       \/ /\ part = "review" /\ ReviewNext
          /\ UNCHANGED <<vars, feedVars, tierVars, scriptVars>>
       \/ /\ \/ part = "desk" /\ PrimeScriptsNext
             \/ part = "bench" /\ JobScriptsNext
          /\ UNCHANGED <<vars, feedVars, tierVars, reviewVars>>

OutsideRuntime == <<feedVars, tierVars, reviewVars, scriptVars, part>>
OutsideFeed == <<vars, tierVars, reviewVars, scriptVars, part>>
OutsideScripts == <<vars, feedVars, tierVars, reviewVars, part>>

(* An operator keeps calling the command line, and a call that began ends;  *)
(* FeedFairness; a script that began goes on unless it dies, and an operator *)
(* comes back to one that died.                                             *)
MCSpec ==
    /\ MCInit /\ [][MCNext]_servicesVars
    /\ WF_servicesVars(part \in Items /\ CliStep /\ UNCHANGED OutsideRuntime)
    /\ WF_servicesVars(part = "proc" /\ CliStart("proc") /\ UNCHANGED OutsideRuntime)
    /\ \A s \in Scans :
          /\ WF_servicesVars(part = "feed" /\ BeginScan(s) /\ UNCHANGED OutsideFeed)
          /\ WF_servicesVars(part = "feed" /\ Tell(s) /\ UNCHANGED OutsideFeed)
          /\ WF_servicesVars(part = "feed" /\ SaveScan(s) /\ UNCHANGED OutsideFeed)
    /\ WF_servicesVars(part \in {"desk", "bench"} /\ ScriptStep /\ UNCHANGED OutsideScripts)
    /\ SF_servicesVars(part \in {"desk", "bench"} /\ ResumeScript /\ UNCHANGED OutsideScripts)
=============================================================================
