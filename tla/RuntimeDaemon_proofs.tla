------------------------ MODULE RuntimeDaemon_proofs ------------------------
(***************************************************************************)
(* Daemons under the lock and the command line beside them.  With starts    *)
(* that do not overlap, for any number of daemons, deaths at any moment,    *)
(* pids that are used again, deadlines and calls of the command line.       *)
(***************************************************************************)
EXTENDS RuntimeDaemon, TLAPS

---------------------------------------------------------------------------
(* The lock (AgentLock): at most one process is past it, and a start is      *)
(* refused only while another process lives.                                 *)

OneStarts ==
    \A p, q \in Procs : pc[p] \in Starting /\ pc[q] \in Starting => p = q

(* Who runs owns the file, and the file says so. *)
RunnerOwns == \A p \in Procs : pc[p] \in Looping => lock = p /\ p \in filled

FillerOwns == \A p \in Procs : pc[p] = "fill" => lock = p

(* What a starting process found is still so. *)
StaleBroken ==
    /\ \A p \in Procs : pc[p] = "recreate" => lock = NoProc
    /\ \A p, q \in Procs : pc[p] = "break" => pc[q] \notin Looping

SeenIsRunner == \A p, q \in Procs : pc[p] = "probe" /\ pc[q] \in Looping => seen[p] = q

(* A process that has not created the file is not the one it names. *)
NotOwnLock ==
    \A p \in Procs : /\ pc[p] \in {"unborn", "create", "inspect", "probe"} => lock # p
                     /\ pc[p] = "probe" => seen[p] # p

LockInv ==
    /\ LockTypeOK /\ OneStarts /\ RunnerOwns /\ FillerOwns /\ StaleBroken
    /\ SeenIsRunner /\ NotOwnLock

LEMMA LockInvInit == ASSUME LockInit PROVE LockInv
BY LockAssumption
   DEF LockInit, LockInv, LockTypeOK, OneStarts, RunnerOwns, FillerOwns, StaleBroken,
       SeenIsRunner, NotOwnLock, Starting, Looping

(* Every step leaves the types alone, with or without overlapping starts. *)
LEMMA LockTypeStep == ASSUME LockTypeOK, [LockNext]_lockVars PROVE LockTypeOK'
<1> USE LockAssumption DEF LockTypeOK, Starting, Looping, Gone
<1>1. CASE UNCHANGED lockVars
  BY <1>1 DEF lockVars
<1>2. ASSUME NEW p \in Procs, LockStep(p) PROVE LockTypeOK'
  <2>1. CASE Spawn(p) BY <2>1 DEF Spawn, Go
  <2>2. CASE Create(p) BY <2>2 DEF Create, Go
  <2>3. CASE Fill(p) BY <2>3 DEF Fill, Go
  <2>4. CASE Inspect(p) BY <2>4 DEF Inspect, Go
  <2>5. CASE Probe(p) BY <2>5 DEF Probe, Go
  <2>6. CASE Break(p) BY <2>6 DEF Break, Go
  <2>7. CASE Recreate(p) BY <2>7 DEF Recreate, Go
  <2>8. CASE Cleanup(p) BY <2>8 DEF Cleanup, Go
  <2>9. CASE Unlock(p) BY <2>9 DEF Unlock, Go
  <2> QED BY <1>2, <2>1, <2>2, <2>3, <2>4, <2>5, <2>6, <2>7, <2>8, <2>9 DEF LockStep
<1>3. ASSUME NEW p \in Procs, Kill(p) PROVE LockTypeOK'
  BY <1>3 DEF Kill, Go
<1>4. ASSUME NEW p \in Procs, ReusePid(p) PROVE LockTypeOK'
  BY <1>4 DEF ReusePid
<1> QED BY <1>1, <1>2, <1>3, <1>4 DEF LockNext

(* The variables of the lock have their types, also when starts overlap.    *)
THEOREM LockTypeCorrect == LockSpec => []LockTypeOK
<1>1. LockInit => LockTypeOK BY LockInvInit DEF LockInv
<1>2. LockTypeOK /\ [LockNext]_lockVars => LockTypeOK' BY LockTypeStep
<1> QED BY <1>1, <1>2, PTL DEF LockSpec

LEMMA LockInvStep ==
    ASSUME ~Overlapping, LockInv, [LockNext]_lockVars
    PROVE  LockInv'
<1> DEFINE Rest == OneStarts /\ RunnerOwns /\ FillerOwns /\ StaleBroken /\ SeenIsRunner /\ NotOwnLock
<1>t. LockTypeOK /\ LockTypeOK' BY LockTypeStep DEF LockInv
<1> USE LockAssumption, <1>t
    DEF LockInv, LockTypeOK, OneStarts, RunnerOwns, FillerOwns, StaleBroken, SeenIsRunner,
        NotOwnLock, Starting, Looping, Gone
<1>1. CASE UNCHANGED lockVars
  BY <1>1 DEF lockVars
<1>2. ASSUME NEW p \in Procs, LockStep(p) PROVE Rest'
  <2>1. CASE Spawn(p) BY <2>1 DEF Spawn, Go
  <2>2. CASE Create(p) BY <2>2 DEF Create, Go
  <2>3. CASE Fill(p) BY <2>3 DEF Fill, Go
  <2>4. CASE Inspect(p) BY <2>4 DEF Inspect, Go
  <2>5. CASE Probe(p) BY <2>5 DEF Probe, Go, ProcessExists
  <2>6. CASE Break(p) BY <2>6 DEF Break, Go
  <2>7. CASE Recreate(p) BY <2>7 DEF Recreate, Go
  <2>8. CASE Cleanup(p) BY <2>8 DEF Cleanup, Go
  <2>9. CASE Unlock(p) BY <2>9 DEF Unlock, Go
  <2> QED BY <1>2, <2>1, <2>2, <2>3, <2>4, <2>5, <2>6, <2>7, <2>8, <2>9 DEF LockStep
<1>3. ASSUME NEW p \in Procs, Kill(p) PROVE Rest'
  BY <1>3 DEF Kill, Go
<1>4. ASSUME NEW p \in Procs, ReusePid(p) PROVE Rest'
  BY <1>4 DEF ReusePid
<1> QED BY <1>1, <1>2, <1>3, <1>4 DEF LockNext

(* With starts that do not overlap no two processes are ever past the lock: *)
(* acquireLock keeps two agent loops apart whatever dies when.              *)
THEOREM LockKeepsOneLoop == ASSUME ~Overlapping PROVE LockSpec => []OneLoop
<1>1. LockInit => LockInv BY LockInvInit
<1>2. LockInv /\ [LockNext]_lockVars => LockInv' BY LockInvStep
<1>3. LockInv => OneLoop BY DEF LockInv, RunnerOwns, OneLoop
<1> QED BY <1>1, <1>2, <1>3, PTL DEF LockSpec

LEMMA RefusalStep ==
    ASSUME ~Overlapping, LockInv, LockNext,
           NEW p \in Procs, pc[p] # "refused", pc'[p] = "refused"
    PROVE  \E q \in Procs \ {p} : ProcessExists(q)
<1> USE LockAssumption DEF LockInv, LockTypeOK, Starting, Looping
<1>1. PICK r \in Procs : LockStep(r) \/ Kill(r) \/ ReusePid(r) BY DEF LockNext
<1>2. Probe(p) /\ ProcessExists(seen[p])
  <2>1. CASE ReusePid(r) BY <2>1 DEF ReusePid
  <2>2. CASE Kill(r) BY <2>2 DEF Kill, Go
  <2>3. CASE Spawn(r) \/ Create(r) \/ Fill(r) \/ Inspect(r)
    BY <2>3 DEF Spawn, Create, Fill, Inspect, Go
  <2>4. CASE Break(r) \/ Cleanup(r) \/ Unlock(r) BY <2>4 DEF Break, Cleanup, Unlock, Go
  <2>5. CASE Recreate(r) BY <2>5 DEF Recreate, Go, StaleBroken
  <2>6. CASE Probe(r) BY <2>6 DEF Probe, Go
  <2> QED BY <1>1, <2>1, <2>2, <2>3, <2>4, <2>5, <2>6 DEF LockStep
<1>3. seen[p] \in Procs \ {p} BY <1>2 DEF Probe, ProcessExists, NotOwnLock
<1> QED BY <1>2, <1>3

(* With starts that do not overlap a start is refused only while another    *)
(* process lives under a pid: no death leaves a lock that keeps every later *)
(* start out (the probe of acquireLock, and its second try).                *)
THEOREM LockRefusesForCause == ASSUME ~Overlapping PROVE LockSpec => RefusedForCause
<1>1. LockInit => LockInv BY LockInvInit
<1>2. LockInv /\ [LockNext]_lockVars => LockInv' BY LockInvStep
<1>3. LockInv /\ [LockNext]_lockVars =>
        [\A p \in Procs : pc[p] # "refused" /\ pc'[p] = "refused" =>
             \E q \in Procs \ {p} : ProcessExists(q)]_lockVars
  BY RefusalStep
<1> QED BY <1>1, <1>2, <1>3, PTL DEF LockSpec, RefusedForCause

---------------------------------------------------------------------------
(* The runs under it (RuntimeDaemon): what the lock's theorem is for.        *)

LEMMA NoneGiven == ASSUME NEW h, \A i \in DOMAIN h : h[i] = "" PROVE FirstGiven(h) = ""
BY DEF FirstGiven

(* The daemon's input is a v1 item, the command line's a v2 or a Prime one. *)
LEMMA Protocols ==
    /\ DetectProtocol(DaemonInput) = "v1"
    /\ DetectProtocol(CliInput("job")) = "v2"
    /\ DetectProtocol(CliInput("proc")) = "prime"
<1>1. FirstGiven(<<"", "", "", "">>) = ""
  <2> DEFINE h == <<"", "", "", "">>
  <2>1. DOMAIN h = {1, 2, 3, 4} /\ h[1] = "" /\ h[2] = "" /\ h[3] = "" /\ h[4] = "" OBVIOUS
  <2> HIDE DEF h
  <2>2. \A i \in DOMAIN h : h[i] = "" BY <2>1
  <2>3. FirstGiven(h) = "" BY <2>2, NoneGiven
  <2> QED BY <2>3 DEF h
<1>2. FirstGiven(<<"">>) = ""
  <2> DEFINE h == <<"">>
  <2>1. DOMAIN h = {1} /\ h[1] = "" OBVIOUS
  <2> HIDE DEF h
  <2>2. \A i \in DOMAIN h : h[i] = "" BY <2>1
  <2>3. FirstGiven(h) = "" BY <2>2, NoneGiven
  <2> QED BY <2>3 DEF h
<1>3. FirstGiven(<<"v2">>) = "v2"
  <2> DEFINE h == <<"v2">>
  <2>1. DOMAIN h = {1} /\ h[1] = "v2" OBVIOUS
  <2> HIDE DEF h
  <2>2. {i \in DOMAIN h : h[i] # ""} = {1} BY <2>1
  <2>3. FirstGiven(h) = h[Min({1})] BY <2>2 DEF FirstGiven
  <2>4. Min({1}) = 1 BY DEF Min
  <2>5. FirstGiven(h) = "v2" BY <2>1, <2>3, <2>4
  <2> QED BY <2>5 DEF h
<1>4. DetectProtocol(DaemonInput) = "v1" BY <1>1 DEF DetectProtocol, DaemonInput
<1>5. DetectProtocol(CliInput("job")) = "v2" BY <1>3 DEF DetectProtocol, CliInput, Supported
<1>6. DetectProtocol(CliInput("proc")) = "prime" BY <1>2 DEF DetectProtocol, CliInput
<1> QED BY <1>4, <1>5, <1>6

(* A runner in mid-run is past the lock, and holds its item as it is on     *)
(* disk.                                                                    *)
RunTypes ==
    /\ DOMAIN item = Items
    /\ arts \in [Items -> SUBSET Artifact]
    /\ at \in [Runners -> {"rest", "stage", "write"}]
    /\ DOMAIN view = Runners /\ DOMAIN owed = Runners
    /\ call.item \in {"job", "proc"}

RunUnderLock == \A p \in Procs : at[p] # "rest" => pc[p] \in Looping

HoldsItem == \A r \in Runners : at[r] # "rest" => view[r] = item[ItemOf(r)]

RunInv == LockInv /\ RunTypes /\ RunUnderLock /\ HoldsItem

LEMMA ItemOfRunner ==
    ASSUME NEW r \in Runners, call.item \in {"job", "proc"}
    PROVE  /\ ItemOf(r) \in Items
           /\ r \in Procs => ItemOf(r) = "runtime" /\ ProtocolOf(r) = "v1"
           /\ r = Cli => ItemOf(r) = call.item
                         /\ ProtocolOf(r) = IF call.item = "job" THEN "v2" ELSE "prime"
BY RunnerAssumption, Protocols DEF ItemOf, Items, ProtocolOf, Runners

---------------------------------------------------------------------------
(* The lock's part of a step is a step of the lock.                         *)
LEMMA LockPart == ASSUME [Next]_vars PROVE [LockNext]_lockVars
<1>1. ASSUME NEW p \in Procs, DaemonStep(p) PROVE [LockNext]_lockVars
  <2>1. UNCHANGED lockVars \/ Kill(p)
    BY <1>1 DEF DaemonStep, Kill, Looping
  <2> QED BY <2>1 DEF LockNext
<1> QED BY <1>1 DEF Next, vars, DaemonNext, CliNext, CliStart, CliStep, CliDies, Emit, LockNext

(* A runner alone at its item.                                              *)
LEMMA AloneAtItem ==
    ASSUME RunInv, NEW r \in Runners, NEW q \in Runners \ {r},
           at[q] # "rest", r \in Procs => pc[r] \in Looping
    PROVE  ItemOf(q) # ItemOf(r)
<1>1. OneLoop BY DEF RunInv, LockInv, RunnerOwns, OneLoop
<1> QED BY <1>1, ItemOfRunner, RunnerAssumption DEF RunInv, RunTypes, RunUnderLock, OneLoop, Runners

(* What a runner does with its item changes nothing of another one's.       *)
LEMMA OneRunnerMoves ==
    ASSUME RunInv, LockInv', NEW r \in Runners, r \in Procs => pc[r] \in Looping,
           RunTypes', UNCHANGED call,
           \A q \in Runners \ {r} : at'[q] = at[q] /\ view'[q] = view[q],
           \A i \in Items \ {ItemOf(r)} : item'[i] = item[i],
           \A p \in Procs : pc'[p] = pc[p] \/ (p = r /\ at'[r] = "rest"),
           at'[r] # "rest" => view'[r] = item'[ItemOf(r)]
    PROVE  RunInv'
<1>1. \A q \in Runners : ItemOf(q)' = ItemOf(q) BY DEF ItemOf
<1>2. HoldsItem'
  <2> SUFFICES ASSUME NEW q \in Runners, at'[q] # "rest" PROVE view'[q] = item'[ItemOf(q)]
    BY <1>1 DEF HoldsItem
  <2>1. CASE q = r BY <2>1
  <2>2. CASE q # r
    <3>1. at[q] # "rest" /\ view'[q] = view[q] BY <2>2
    <3>2. ItemOf(q) # ItemOf(r) /\ ItemOf(q) \in Items
      BY <2>2, <3>1, AloneAtItem, ItemOfRunner DEF RunInv, RunTypes
    <3> QED BY <3>1, <3>2 DEF RunInv, HoldsItem
  <2> QED BY <2>1, <2>2
<1>3. RunUnderLock'
  BY DEF RunInv, RunUnderLock, Runners
<1> QED BY <1>2, <1>3 DEF RunInv

LEMMA RunnerSteps ==
    ASSUME RunInv, LockInv', NEW r \in Runners, r \in Procs => pc[r] \in Looping,
           \/ /\ r \in Procs /\ Begin(r, "DISCOVERED")
              /\ UNCHANGED <<arts, owed, stops, call, died, lockVars>>
           \/ (RunStage(r) \/ Write(r)) /\ UNCHANGED lockVars
           \/ Throw(r) /\ (UNCHANGED pc \/ Go(r, "killed"))
    PROVE  RunInv'
<1> DEFINE i == ItemOf(r)
<1>1. /\ i \in Items /\ DOMAIN item = Items /\ arts \in [Items -> SUBSET Artifact]
      /\ at \in [Runners -> {"rest", "stage", "write"}]
      /\ DOMAIN view = Runners /\ DOMAIN owed = Runners
      /\ at[r] # "rest" => view[r] = item[i]
      /\ call.item \in {"job", "proc"} /\ pc \in [Procs -> {"unborn"} \cup Starting \cup Looping \cup Gone]
  BY ItemOfRunner DEF RunInv, RunTypes, HoldsItem, LockInv, LockTypeOK
<1>2. CASE r \in Procs /\ Begin(r, "DISCOVERED") /\ UNCHANGED <<arts, owed, stops, call, died, lockVars>>
  <2>1. PICK read : item' = [item EXCEPT ![i] = read] /\ view' = [view EXCEPT ![r] = read]
                    /\ at' = [at EXCEPT ![r] = "stage"]
    BY <1>2 DEF Begin
  <2>2. UNCHANGED <<arts, owed, call, pc>> BY <1>2 DEF lockVars
  <2>3. RunTypes' BY <1>1, <2>1, <2>2 DEF RunTypes
  <2> QED BY <1>1, <2>1, <2>2, <2>3, OneRunnerMoves
<1>3. CASE RunStage(r) /\ UNCHANGED lockVars
  <2> DEFINE s == StageOf(ProtocolOf(r), view[r], arts[i], call)
  <2>1. /\ at[r] = "stage" /\ item' = item /\ UNCHANGED <<call, pc>>
        /\ at' = [at EXCEPT ![r] = IF s.moves = <<>> THEN "rest" ELSE "write"]
        /\ view' = [view EXCEPT ![r] = IF s.moves = <<>> THEN NoItem ELSE view[r]]
        /\ owed' = [owed EXCEPT ![r] = s.moves]
    BY <1>3 DEF RunStage, lockVars
  <2>2. arts' \in [Items -> SUBSET Artifact]
    <3>1. s.arts \subseteq Artifact
      BY DEF StageOf, PrimeStage, V1Stage, Stage, Blocked, NoStage, If, ExecuteStage, SubmitStage, Artifact
    <3>2. arts' = [arts EXCEPT ![i] = arts[i] \cup s.arts] BY <1>3 DEF RunStage
    <3> QED BY <1>1, <3>1, <3>2
  <2>3. RunTypes' BY <1>1, <2>1, <2>2 DEF RunTypes
  <2>4. at'[r] # "rest" => view'[r] = item'[i] BY <1>1, <2>1
  <2> QED BY <1>1, <2>1, <2>3, <2>4, OneRunnerMoves
<1>4. CASE Write(r) /\ UNCHANGED lockVars
  <2>1. /\ UNCHANGED <<arts, call, pc>>
        /\ view' = [view EXCEPT ![r] = IF After(r) = "rest" THEN NoItem ELSE Moved(r)]
        /\ item' = [item EXCEPT ![i] = Moved(r)]
        /\ owed' = [owed EXCEPT ![r] = Tail(owed[r])]
        /\ at' = [at EXCEPT ![r] = After(r)]
    BY <1>4 DEF Write, Transition, lockVars
  <2>2. RunTypes' BY <1>1, <2>1 DEF RunTypes, After
  <2>3. at'[r] # "rest" => view'[r] = item'[i] BY <1>1, <2>1
  <2> QED BY <1>1, <2>1, <2>2, <2>3, OneRunnerMoves
<1>5. CASE Throw(r) /\ (UNCHANGED pc \/ Go(r, "killed"))
  <2>1. /\ UNCHANGED <<item, arts, call>>
        /\ at' = [at EXCEPT ![r] = "rest"] /\ view' = [view EXCEPT ![r] = NoItem]
        /\ owed' = [owed EXCEPT ![r] = <<>>]
    BY <1>5 DEF Throw, Drop
  <2>2. RunTypes' BY <1>1, <2>1 DEF RunTypes
  <2>3. \A p \in Procs : pc'[p] = pc[p] \/ p = r BY <1>1, <1>5 DEF Go
  <2> QED BY <1>1, <2>1, <2>2, <2>3, OneRunnerMoves
<1> QED BY <1>2, <1>3, <1>4, <1>5

LEMMA LockMovesOne ==
    ASSUME LockTypeOK, NEW p \in Procs, LockStep(p) \/ Kill(p) \/ ReusePid(p)
    PROVE  /\ \A q \in Procs \ {p} : pc'[q] = pc[q]
           /\ pc[p] \in Looping => pc'[p] \in Looping \cup Gone
BY DEF LockTypeOK, LockStep, Spawn, Create, Fill, Inspect, Probe, Break, Recreate, Cleanup, Unlock,
       Kill, ReusePid, Go, Starting, Looping, Gone

LEMMA RunInvStep == ASSUME ~Overlapping, RunInv, [Next]_vars PROVE RunInv'
<1>1. LockInv' BY LockPart, LockInvStep DEF RunInv
<1>2. /\ LockTypeOK /\ DOMAIN item = Items /\ arts \in [Items -> SUBSET Artifact]
      /\ at \in [Runners -> {"rest", "stage", "write"}]
      /\ DOMAIN view = Runners /\ DOMAIN owed = Runners
      /\ call.item \in {"job", "proc"}
  BY DEF RunInv, RunTypes, LockInv
<1>3. Cli \in Runners /\ Cli \notin Procs /\ Procs \subseteq Runners
  BY RunnerAssumption DEF Runners
<1>4. CASE UNCHANGED vars
  <2>1. \A q \in Runners : ItemOf(q)' = ItemOf(q) BY <1>4 DEF ItemOf, vars, itemVars
  <2> QED BY <1>1, <1>4, <2>1 DEF vars, lockVars, itemVars, RunInv, RunTypes, RunUnderLock, HoldsItem
(* A daemon starts, stops, or dies. *)
<1>5. ASSUME NEW p \in Procs, LockStep(p) \/ Kill(p) \/ ReusePid(p),
             UNCHANGED <<item, arts, call>>,
             \/ UNCHANGED itemVars /\ (pc[p] \in Looping => pc'[p] \in Looping)
             \/ Drop(p)
      PROVE  RunInv'
  <2>1. /\ \A q \in Procs \ {p} : pc'[q] = pc[q] BY <1>2, <1>5, LockMovesOne
  <2>2. \A q \in Runners : ItemOf(q)' = ItemOf(q) BY <1>5 DEF ItemOf
  <2>3. CASE UNCHANGED itemVars /\ (pc[p] \in Looping => pc'[p] \in Looping)
    <3>1. UNCHANGED <<item, arts, at, view, owed, call>> BY <2>3 DEF itemVars
    <3> QED BY <1>1, <2>1, <2>2, <2>3, <3>1 DEF RunInv, RunTypes, RunUnderLock, HoldsItem
  <2>4. CASE Drop(p)
    <3>1. /\ at' = [at EXCEPT ![p] = "rest"] /\ view' = [view EXCEPT ![p] = NoItem]
          /\ owed' = [owed EXCEPT ![p] = <<>>]
      BY <2>4 DEF Drop
    <3>2. RunTypes' BY <1>2, <1>3, <1>5, <3>1 DEF RunTypes
    <3>3. RunUnderLock' BY <1>2, <1>3, <2>1, <3>1 DEF RunInv, RunUnderLock
    <3>4. HoldsItem' BY <1>2, <1>3, <1>5, <2>2, <3>1 DEF RunInv, HoldsItem
    <3> QED BY <1>1, <3>2, <3>3, <3>4 DEF RunInv
  <2> QED BY <1>5, <2>3, <2>4
<1>6. ASSUME NEW p \in Procs, DaemonStep(p) PROVE RunInv'
  <2>1. p \in Runners /\ pc[p] \in Looping BY <1>3, <1>6 DEF DaemonStep
  <2>2. \/ Begin(p, "DISCOVERED") /\ UNCHANGED <<arts, owed, stops, call, died, lockVars>>
        \/ (RunStage(p) \/ Write(p)) /\ UNCHANGED lockVars
        \/ Throw(p) /\ Go(p, "killed")
    BY <1>6 DEF DaemonStep
  <2> QED BY <1>1, <2>1, <2>2, RunnerSteps
<1>7. ASSUME NEW i \in Items, Emit(i) PROVE RunInv'
  <2>1. /\ arts' = [arts EXCEPT ![i] = arts[i] \cup {"rest"}]
        /\ UNCHANGED <<item, at, view, owed, call, pc>>
    BY <1>7 DEF Emit, lockVars
  <2>2. arts' \in [Items -> SUBSET Artifact] BY <1>2, <2>1 DEF Artifact
  <2>3. \A q \in Runners : ItemOf(q)' = ItemOf(q) BY <2>1 DEF ItemOf
  <2> QED BY <1>1, <2>1, <2>2, <2>3 DEF RunInv, RunTypes, RunUnderLock, HoldsItem
<1>8. ASSUME NEW i \in {"job", "proc"}, CliStart(i) PROVE RunInv'
  <2>0. PICK c \in Calls : \E x : /\ c.item = i /\ call' = c
                                  /\ item' = [item EXCEPT ![i] = x]
                                  /\ view' = [view EXCEPT ![Cli] = x]
    BY <1>8 DEF CliStart
  <2>1. PICK read : /\ c.item = i /\ call' = c
                    /\ item' = [item EXCEPT ![i] = read]
                    /\ view' = [view EXCEPT ![Cli] = read]
    BY <2>0
  <2>2. at' = [at EXCEPT ![Cli] = "stage"] /\ UNCHANGED <<arts, owed, pc>>
    BY <1>8 DEF CliStart, lockVars
  <2>3. RunTypes' BY <1>2, <2>1, <2>2 DEF RunTypes
  <2>4. RunUnderLock' BY <1>2, <1>3, <2>2 DEF RunInv, RunUnderLock
  <2>5. HoldsItem'
    <3> SUFFICES ASSUME NEW q \in Runners, at'[q] # "rest" PROVE view'[q] = item'[ItemOf(q)']
      BY DEF HoldsItem
    <3>1. CASE q = Cli
      BY <1>2, <1>3, <2>1, <3>1 DEF ItemOf, Items
    <3>2. CASE q # Cli
      <4>1. ItemOf(q) = "runtime" /\ ItemOf(q)' = "runtime" BY <3>2 DEF ItemOf
      <4> QED BY <1>2, <1>3, <2>1, <2>2, <3>2, <4>1 DEF RunInv, HoldsItem
    <3> QED BY <3>1, <3>2
  <2> QED BY <1>1, <2>3, <2>4, <2>5 DEF RunInv
<1>9. CASE CliStep
  BY <1>1, <1>3, <1>9, RunnerSteps DEF CliStep, lockVars
<1>10. CASE CliDies
  <2>1. /\ UNCHANGED <<item, arts, call, pc>>
        /\ at' = [at EXCEPT ![Cli] = "rest"] /\ view' = [view EXCEPT ![Cli] = NoItem]
        /\ owed' = [owed EXCEPT ![Cli] = <<>>]
    BY <1>10 DEF CliDies, Drop, lockVars
  <2>2. RunTypes' BY <1>2, <1>3, <2>1 DEF RunTypes
  <2> QED BY <1>1, <1>2, <1>3, <2>1, <2>2, OneRunnerMoves
<1>11. CASE DaemonNext
  <2>1. ASSUME NEW p \in Procs, LockStep(p), pc'[p] \notin Gone, UNCHANGED itemVars PROVE RunInv'
    <3>1. pc[p] \in Looping => pc'[p] \in Looping BY <1>2, <2>1, LockMovesOne
    <3> QED BY <1>5, <2>1, <3>1 DEF itemVars
  <2>2. ASSUME NEW p \in Procs, ReusePid(p), UNCHANGED itemVars PROVE RunInv'
    <3>1. pc[p] \in Looping => pc'[p] \in Looping BY <2>2 DEF ReusePid
    <3> QED BY <1>5, <2>2, <3>1 DEF itemVars
  <2>3. ASSUME NEW p \in Procs, LockStep(p) \/ Kill(p), Drop(p), UNCHANGED <<item, arts, call, died>>
        PROVE  RunInv'
    BY <1>5, <2>3
  <2> QED BY <1>6, <1>7, <1>11, <2>1, <2>2, <2>3 DEF DaemonNext, Items
<1>12. ASSUME NEW i \in {"job", "proc"}, CliNext(i) PROVE RunInv'
  BY <1>7, <1>8, <1>9, <1>10, <1>12 DEF CliNext, Items
<1> QED BY <1>4, <1>11, <1>12 DEF Next

LEMMA RunInvInit == ASSUME Init PROVE RunInv
<1>1. LockInv BY LockInvInit DEF Init
<1>2. call.item \in {"job", "proc"} BY DEF Init, Calls
<1>3. at = [r \in Runners |-> "rest"] /\ Procs \subseteq Runners BY DEF Init, Runners
<1>4. RunTypes BY <1>2 DEF Init, RunTypes
<1>5. RunUnderLock /\ HoldsItem BY <1>3 DEF RunUnderLock, HoldsItem
<1> QED BY <1>1, <1>4, <1>5 DEF RunInv

LEMMA TableStep ==
    ASSUME RunInv, [Next]_vars, NEW i \in Items,
           item[i] # NoItem, item'[i].status # item[i].status
    PROVE  CanTransition(IF i = "proc" THEN "prime" ELSE "v1", item[i].status, item'[i].status)
<1>1. DOMAIN item = Items /\ call.item \in {"job", "proc"} BY DEF RunInv, RunTypes
<1>2. PICK r \in Runners : Write(r)
  <2>1. ASSUME NEW r \in Runners, Begin(r, "DISCOVERED") PROVE FALSE
    BY <1>1, <2>1, ItemOfRunner DEF Begin
  <2>2. ASSUME NEW k \in {"job", "proc"}, CliStart(k) PROVE FALSE
    BY <1>1, <2>2 DEF CliStart, Items
  <2>3. Cli \in Runners /\ Procs \subseteq Runners BY DEF Runners
  <2> QED BY <2>1, <2>2, <2>3
          DEF Next, vars, itemVars, DaemonNext, CliNext, DaemonStep, CliStep, CliDies, Emit, RunStage, Throw
<1>3. i = ItemOf(r) /\ item'[i].status = Head(owed[r])
  BY <1>1, <1>2, ItemOfRunner DEF Write, Transition, Moved
<1>4. view[r] = item[i] BY <1>2, <1>3 DEF Write, RunInv, HoldsItem
<1>5. CanTransition(ProtocolOf(r), item[i].status, item'[i].status)
  BY <1>2, <1>3, <1>4 DEF Write, Legal
<1>6. ProtocolOf(r) = "prime" <=> i = "proc"
  BY <1>1, <1>3, ItemOfRunner DEF Runners
<1> QED BY <1>5, <1>6 DEF CanTransition, Transitions

(* The status of every item moves along the table of its protocol and never *)
(* back: a daemon that resumes another's item, and the one loop the lock    *)
(* admits, write what they have read (runtime/, app/daemon.js).             *)
THEOREM TableTheorem == ASSUME ~Overlapping PROVE Spec => StatusFollowsTable
<1>1. RunInv /\ [Next]_vars =>
        [\A i \in Items :
            item[i] # NoItem /\ item'[i].status # item[i].status =>
               CanTransition(IF i = "proc" THEN "prime" ELSE "v1", item[i].status, item'[i].status)]_vars
  BY TableStep
<1> QED BY <1>1, RunInvInit, RunInvStep, PTL DEF Spec, StatusFollowsTable

---------------------------------------------------------------------------
(* The bundle behind a submission. *)

Late == {"SUBMITTED_UNSIGNED", "RECONCILING", "DONE"}

(* The command line begins no job past its submission.                      *)
PlainStarts == InitialStatuses["job"] \cap Late = {}

(* The statuses a v1 stage may owe.                                         *)
Named == {"EVALUATED", "APPLY_READY", "APPLIED_UNSIGNED", "APPLIED_CONFIRMED",
          "EXECUTION_READY", "EXECUTED", "VALIDATED", "PUBLISHED", "SUBMISSION_READY",
          "BLOCKED_ARTIFACT_EMISSION_REQUIRED", "BLOCKED_RETRIEVAL_REQUIRED"} \cup Late

(* Moves whose late ones have the bundle behind them.                        *)
Backed(moves, A) ==
    /\ moves \in Seq(Named)
    /\ \A k \in 1..Len(moves) : moves[k] \in Late => RequireCanonical(A)

OwesBacked ==
    \A r \in Runners : at[r] = "write" /\ ItemOf(r) # "proc" =>
        owed[r] # <<>> /\ Backed(owed[r], arts[ItemOf(r)])

LEMMA BackedTail ==
    ASSUME NEW moves, NEW A, Backed(moves, A), Len(moves) > 1
    PROVE  Tail(moves) # <<>> /\ Backed(Tail(moves), A)
<1>1. moves \in Seq(Named) /\ moves # <<>> BY DEF Backed
<1>2. /\ Tail(moves) \in Seq(Named) /\ Len(Tail(moves)) = Len(moves) - 1
      /\ \A k \in 1..(Len(moves) - 1) : Tail(moves)[k] = moves[k + 1]
  BY <1>1
<1>3. ASSUME NEW k \in 1..Len(Tail(moves)) PROVE Tail(moves)[k] \in Late => RequireCanonical(A)
  <2>1. k + 1 \in 1..Len(moves) /\ Tail(moves)[k] = moves[k + 1] BY <1>1, <1>2
  <2> QED BY <2>1 DEF Backed
<1>4. Backed(Tail(moves), A) BY <1>2, <1>3 DEF Backed
<1>5. Len(Tail(moves)) > 0 BY <1>1, <1>2
<1>6. Tail(moves) # <<>> BY <1>5
<1> QED BY <1>4, <1>6

LEMMA BackedHead ==
    ASSUME NEW moves, NEW A, Backed(moves, A), moves # <<>>, Head(moves) \in Late
    PROVE  RequireCanonical(A)
<1>1. Len(moves) \in Nat /\ 1 \in 1..Len(moves) /\ Head(moves) = moves[1] BY DEF Backed
<1> QED BY <1>1 DEF Backed

LEMMA BackedGrows ==
    ASSUME NEW moves, NEW A, NEW B, A \subseteq B, Backed(moves, A)
    PROVE  Backed(moves, B)
BY DEF Backed, RequireCanonical

LEMMA EarlyBacked ==
    ASSUME NEW A, NEW s \in Named, s \notin Late PROVE Backed(<<s>>, A)
<1> DEFINE h == <<s>>
<1>1. h \in Seq(Named) /\ Len(h) = 1 /\ h[1] = s OBVIOUS
<1> HIDE DEF h
<1>2. \A k \in 1..Len(h) : h[k] \notin Late BY <1>1
<1>3. Backed(h, A) BY <1>1, <1>2 DEF Backed
<1> QED BY <1>3 DEF h

LEMMA CompleteBacked ==
    ASSUME NEW A, RequireCanonical(A), NEW h \in Seq(Named) PROVE Backed(h, A)
BY DEF Backed

(* The stages of v1: only submission and what follows it owe a late status. *)
LEMMA StagesBacked ==
    ASSUME NEW it, NEW A, it.status \in Late => RequireCanonical(A)
    PROVE  V1Stage(it, A).moves = <<>> \/ Backed(V1Stage(it, A).moves, A)
<1> DEFINE s == V1Stage(it, A)
<1>1. CASE it.status = "SUBMISSION_READY"
  <2>1. s = SubmitStage(A) BY <1>1 DEF V1Stage
  <2>2. CASE RequireCanonical(A)
    <3>1. s.moves = <<"SUBMITTED_UNSIGNED", "RECONCILING">> BY <2>1, <2>2 DEF SubmitStage, Stage
    <3>2. "SUBMITTED_UNSIGNED" \in Named /\ "RECONCILING" \in Named BY DEF Named, Late
    <3>3. <<"SUBMITTED_UNSIGNED", "RECONCILING">> \in Seq(Named) BY <3>2
    <3> QED BY <2>2, <3>1, <3>3, CompleteBacked
  <2>3. CASE ~RequireCanonical(A)
    <3>1. s.moves = <<"BLOCKED_ARTIFACT_EMISSION_REQUIRED">> BY <2>1, <2>3 DEF SubmitStage, Blocked
    <3>2. "BLOCKED_ARTIFACT_EMISSION_REQUIRED" \in Named \ Late BY DEF Named, Late
    <3> QED BY <3>1, <3>2, EarlyBacked
  <2> QED BY <2>2, <2>3
<1>2. CASE it.status = "RECONCILING"
  <2>1. s.moves = <<"DONE">> BY <1>2 DEF V1Stage, Stage
  <2>2. "DONE" \in Named BY DEF Named, Late
  <2>3. <<"DONE">> \in Seq(Named) BY <2>2
  <2>4. RequireCanonical(A) BY <1>2 DEF Late
  <2> QED BY <2>1, <2>3, <2>4, CompleteBacked
<1>3. CASE it.status = "EXECUTION_READY"
  <2>1. s.moves = <<"EXECUTED">> \/ s.moves = <<"BLOCKED_RETRIEVAL_REQUIRED">>
    BY <1>3 DEF V1Stage, ExecuteStage, Stage, Blocked
  <2>2. "EXECUTED" \in Named \ Late /\ "BLOCKED_RETRIEVAL_REQUIRED" \in Named \ Late
    BY DEF Named, Late
  <2> QED BY <2>1, <2>2, EarlyBacked
<1>4. CASE it.status \notin {"SUBMISSION_READY", "RECONCILING", "EXECUTION_READY"}
  <2>1. s.moves = <<>> \/ \E t \in {"EVALUATED", "APPLY_READY", "APPLIED_UNSIGNED", "APPLIED_CONFIRMED",
                                 "EXECUTION_READY", "VALIDATED", "PUBLISHED", "SUBMISSION_READY"} :
                             s.moves = <<t>>
    BY <1>4 DEF V1Stage, Stage, NoStage
  <2>2. CASE s.moves # <<>>
    <3>1. PICK t \in {"EVALUATED", "APPLY_READY", "APPLIED_UNSIGNED", "APPLIED_CONFIRMED",
                      "EXECUTION_READY", "VALIDATED", "PUBLISHED", "SUBMISSION_READY"} :
                s.moves = <<t>>
      BY <2>1, <2>2
    <3>2. t \in Named /\ t \notin Late BY DEF Named, Late
    <3> QED BY <3>1, <3>2, EarlyBacked
  <2> QED BY <2>2
<1> QED BY <1>1, <1>2, <1>3, <1>4

BundleInv == BundleBehindSubmission /\ OwesBacked

LEMMA BundleStep ==
    ASSUME PlainStarts, RunInv, RunInv', BundleInv, [Next]_vars
    PROVE  BundleInv'
<1>1. /\ DOMAIN item = Items /\ arts \in [Items -> SUBSET Artifact]
      /\ at \in [Runners -> {"rest", "stage", "write"}]
      /\ DOMAIN view = Runners /\ DOMAIN owed = Runners
      /\ call.item \in {"job", "proc"}
  BY DEF RunInv, RunTypes
<1>2. Cli \in Runners /\ Cli \notin Procs /\ Procs \subseteq Runners
  BY RunnerAssumption DEF Runners
(* What keeps the statuses and what is owed. *)
<1>3. ASSUME UNCHANGED <<item, call>>, \A i \in Items : arts[i] \subseteq arts'[i],
             \A r \in Runners : at'[r] # "write" \/ (at'[r] = at[r] /\ owed'[r] = owed[r])
      PROVE  BundleInv'
  <2>1. \A r \in Runners : ItemOf(r)' = ItemOf(r) /\ ItemOf(r) \in Items
    BY <1>1, <1>3, ItemOfRunner DEF ItemOf
  <2>2. BundleBehindSubmission' BY <1>3 DEF BundleInv, BundleBehindSubmission, RequireCanonical, Items
  <2>3. OwesBacked' BY <1>3, <2>1, BackedGrows DEF BundleInv, OwesBacked
  <2> QED BY <2>2, <2>3 DEF BundleInv
<1>4. ASSUME NEW p \in Runners, Drop(p), UNCHANGED <<item, arts, call>> PROVE BundleInv'
  BY <1>1, <1>3, <1>4 DEF Drop
<1>5. CASE UNCHANGED vars BY <1>3, <1>5 DEF vars, itemVars
<1>6. CASE UNCHANGED itemVars BY <1>3, <1>6 DEF itemVars
<1>7. ASSUME NEW p \in Procs, Begin(p, "DISCOVERED"), UNCHANGED <<arts, owed, call>> PROVE BundleInv'
  <2> DEFINE i == ItemOf(p)
  <2>1. i = "runtime" BY <1>1, <1>2, ItemOfRunner
  <2> DEFINE read == IF item[i] = NoItem THEN [status |-> "DISCOVERED", retrieval |-> FALSE]
                     ELSE item[i]
  <2>2. item' = [item EXCEPT ![i] = read] /\ (read.status = "DISCOVERED" \/ read = item[i])
    BY <1>7 DEF Begin
  <2> HIDE DEF read
  <2>3. BundleBehindSubmission'
    BY <1>1, <1>7, <2>1, <2>2 DEF BundleInv, BundleBehindSubmission, Items
  <2>4. \A r \in Runners : ItemOf(r)' = ItemOf(r) BY <1>7 DEF ItemOf
  <2>5. at' = [at EXCEPT ![p] = "stage"] BY <1>7 DEF Begin
  <2>6. OwesBacked' BY <1>1, <1>7, <2>4, <2>5 DEF BundleInv, OwesBacked
  <2> QED BY <2>3, <2>6 DEF BundleInv
<1>8. ASSUME NEW r \in Runners, RunStage(r) PROVE BundleInv'
  <2> DEFINE i == ItemOf(r)
             s == StageOf(ProtocolOf(r), view[r], arts[i], call)
  <2>1. /\ at[r] = "stage" /\ UNCHANGED <<item, call>>
        /\ arts' = [arts EXCEPT ![i] = arts[i] \cup s.arts]
        /\ at' = [at EXCEPT ![r] = IF s.moves = <<>> THEN "rest" ELSE "write"]
        /\ owed' = [owed EXCEPT ![r] = s.moves]
    BY <1>8 DEF RunStage
  <2>2. i \in Items /\ \A q \in Runners : ItemOf(q)' = ItemOf(q) BY <1>1, <2>1, ItemOfRunner DEF ItemOf
  <2>3. \A k \in Items : arts[k] \subseteq arts'[k] BY <1>1, <2>1, <2>2
  <2>4. BundleBehindSubmission' BY <2>1, <2>3 DEF BundleInv, BundleBehindSubmission, RequireCanonical, Items
  <2>5. ASSUME NEW q \in Runners, at'[q] = "write", ItemOf(q) # "proc"
        PROVE  owed'[q] # <<>> /\ Backed(owed'[q], arts'[ItemOf(q)])
    <3>1. CASE q # r
      BY <1>1, <2>1, <2>3, <2>5, <3>1, ItemOfRunner, BackedGrows DEF BundleInv, OwesBacked
    <3>2. CASE q = r
      <4>1. ProtocolOf(r) # "prime" /\ i \in {"runtime", "job"}
        BY <1>1, <2>2, <2>5, <3>2, ItemOfRunner DEF Runners, Items
      <4>2. s = V1Stage(view[r], arts[i]) BY <4>1 DEF StageOf
      <4>3. view[r] = item[i] BY <2>1 DEF RunInv, HoldsItem
      <4>4. view[r].status \in Late => RequireCanonical(arts[i])
        BY <4>1, <4>3 DEF BundleInv, BundleBehindSubmission, Late
      <4>5. s.moves # <<>> /\ owed'[r] = s.moves BY <1>1, <2>1, <2>5, <3>2
      <4>6. Backed(s.moves, arts[i]) BY <4>2, <4>4, <4>5, StagesBacked
      <4> QED BY <2>2, <2>3, <3>2, <4>5, <4>6, BackedGrows
    <3> QED BY <3>1, <3>2
  <2> QED BY <2>2, <2>4, <2>5 DEF BundleInv, OwesBacked
<1>9. ASSUME NEW r \in Runners, Write(r) PROVE BundleInv'
  <2> DEFINE i == ItemOf(r)
  <2>1. /\ at[r] = "write" /\ UNCHANGED <<arts, call>>
        /\ item' = [item EXCEPT ![i] = Moved(r)]
        /\ owed' = [owed EXCEPT ![r] = Tail(owed[r])]
        /\ at' = [at EXCEPT ![r] = After(r)]
    BY <1>9 DEF Write, Transition
  <2>2. i \in Items /\ \A q \in Runners : ItemOf(q)' = ItemOf(q) BY <1>1, <2>1, ItemOfRunner DEF ItemOf
  <2>3. i # "proc" => owed[r] # <<>> /\ Backed(owed[r], arts[i]) BY <2>1 DEF BundleInv, OwesBacked
  <2>4. i # "proc" /\ Moved(r).status \in Late => RequireCanonical(arts[i])
    BY <2>3, BackedHead DEF Moved
  <2>5. BundleBehindSubmission'
    <3> SUFFICES ASSUME NEW k \in {"runtime", "job"}, item'[k].status \in Late
                 PROVE  RequireCanonical(arts'[k])
      BY DEF BundleBehindSubmission, Late
    <3>1. CASE k = i BY <1>1, <2>1, <2>2, <2>4, <3>1
    <3>2. CASE k # i
      <4>1. item'[k] = item[k] BY <1>1, <2>1, <3>2 DEF Items
      <4> QED BY <2>1, <4>1 DEF BundleInv, BundleBehindSubmission, Late
    <3> QED BY <3>1, <3>2
  <2>6. ASSUME NEW q \in Runners, at'[q] = "write", ItemOf(q) # "proc"
        PROVE  owed'[q] # <<>> /\ Backed(owed'[q], arts'[ItemOf(q)])
    <3>1. CASE q # r BY <1>1, <2>1, <2>6, <3>1 DEF BundleInv, OwesBacked
    <3>2. CASE q = r
      <4>1. After(r) = "write" BY <1>1, <2>1, <2>6, <3>2
      <4>2. Len(owed[r]) > 1 BY <4>1 DEF After
      <4>3. Tail(owed[r]) # <<>> /\ Backed(Tail(owed[r]), arts[i]) BY <2>3, <2>6, <3>2, <4>2, BackedTail
      <4> QED BY <1>1, <2>1, <3>2, <4>3
    <3> QED BY <3>1, <3>2
  <2> QED BY <2>2, <2>5, <2>6 DEF BundleInv, OwesBacked
<1>10. ASSUME NEW r \in Runners, Throw(r) PROVE BundleInv'
  BY <1>4, <1>10 DEF Throw
<1>11. ASSUME NEW i \in Items, Emit(i) PROVE BundleInv'
  <2>1. arts' = [arts EXCEPT ![i] = arts[i] \cup {"rest"}] BY <1>11 DEF Emit
  <2>2. \A k \in Items : arts[k] \subseteq arts'[k] BY <1>1, <2>1
  <2> QED BY <1>3, <1>11, <2>2 DEF Emit
<1>12. ASSUME NEW i \in {"job", "proc"}, CliStart(i) PROVE BundleInv'
  <2>0. PICK c \in Calls : \E x : /\ c.item = i /\ call' = c
                                  /\ item' = [item EXCEPT ![i] = x]
                                  /\ x.status = c.initial \/ x = item[i]
    BY <1>12 DEF CliStart
  <2>1. PICK read : /\ c.item = i /\ call' = c
                    /\ item' = [item EXCEPT ![i] = read]
                    /\ read.status = c.initial \/ read = item[i]
    BY <2>0
  <2>2. i = "job" => c.initial \notin Late
    <3>1. i = "job" => c.initial \in InitialStatuses["job"] BY <2>1 DEF Calls
    <3> QED BY <3>1 DEF PlainStarts
  <2>3. arts' = arts /\ owed' = owed /\ at' = [at EXCEPT ![Cli] = "stage"] BY <1>12 DEF CliStart
  <2>4. BundleBehindSubmission'
    <3> SUFFICES ASSUME NEW k \in {"runtime", "job"}, item'[k].status \in Late
                 PROVE  RequireCanonical(arts'[k])
      BY DEF BundleBehindSubmission, Late
    <3>1. item'[k] = item[k] \/ (k = i /\ item'[k] = read) BY <1>1, <2>1 DEF Items
    <3>2. item[k].status \in Late
      <4>1. CASE item'[k] = item[k] BY <4>1
      <4>2. CASE k = i /\ item'[k] = read BY <2>1, <2>2, <4>2
      <4> QED BY <3>1, <4>1, <4>2
    <3> QED BY <2>3, <3>2 DEF BundleInv, BundleBehindSubmission, Late
  <2>5. ASSUME NEW q \in Runners, at'[q] = "write"
        PROVE  q # Cli /\ at[q] = "write" /\ ItemOf(q)' = ItemOf(q)
    BY <1>1, <1>2, <2>3, <2>5 DEF ItemOf
  <2>6. OwesBacked' BY <2>3, <2>5 DEF BundleInv, OwesBacked
  <2> QED BY <2>4, <2>6 DEF BundleInv
<1>13. CASE DaemonNext
  <2>1. ASSUME NEW p \in Procs, DaemonStep(p) PROVE BundleInv'
    BY <1>2, <1>7, <1>8, <1>9, <1>10, <2>1 DEF DaemonStep
  <2> QED BY <1>2, <1>4, <1>6, <1>11, <1>13, <2>1 DEF DaemonNext, Items
<1>14. ASSUME NEW i \in {"job", "proc"}, CliNext(i) PROVE BundleInv'
  BY <1>2, <1>4, <1>8, <1>9, <1>10, <1>11, <1>12, <1>14 DEF CliNext, CliStep, CliDies, Items
<1> QED BY <1>5, <1>13, <1>14 DEF Next

LEMMA BundleInit == ASSUME Init PROVE BundleInv
<1>1. item = [i \in Items |-> NoItem] /\ at = [r \in Runners |-> "rest"] BY DEF Init
<1> QED BY <1>1 DEF BundleInv, BundleBehindSubmission, OwesBacked, NoItem, Items

(* No v1 item is past its submission without the whole canonical bundle,     *)
(* whoever ran which of its stages (protocols/, runtime/).                   *)
THEOREM BundleTheorem ==
    ASSUME ~Overlapping, PlainStarts
    PROVE  Spec => []BundleBehindSubmission
<1>1. BundleInv => BundleBehindSubmission BY DEF BundleInv
<1>2. RunInv /\ RunInv' /\ BundleInv /\ [Next]_vars => BundleInv' BY BundleStep
<1>3. RunInv /\ [Next]_vars => RunInv' BY RunInvStep
<1> QED BY <1>1, <1>2, <1>3, RunInvInit, BundleInit, PTL DEF Spec
=============================================================================
