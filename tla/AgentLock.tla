----------------------------- MODULE AgentLock -----------------------------
(***************************************************************************)
(* agent/agent.lock, the file that keeps two agent loops from running at    *)
(* once (agent/lock.js), and the processes that take it.  A process is one  *)
(* pid: it starts once.  The file is created empty ("wx"), filled with the  *)
(* creator's pid in a second await, read and probed by a process that finds *)
(* it, removed when the pid it names is not alive, and created again.       *)
(***************************************************************************)
EXTENDS Naturals

CONSTANTS
    Procs,        \* the pids of the agent's processes, one per start
    NoProc,       \* the owner of no file; the pid of a file that does not parse
    Overlapping   \* may a process start while another one is still starting?

ASSUME LockAssumption == NoProc \notin Procs /\ Overlapping \in BOOLEAN

VARIABLES
    lock,    \* who created the file that is now at LOCK_PATH
    filled,  \* the processes whose file has its content
    pc,      \* where each process is
    seen,    \* the pid a process read from the lock
    reused   \* dead processes whose pid number the system gave to another program

lockVars == <<lock, filled, pc, seen, reused>>

Starting == {"create", "fill", "inspect", "probe", "break", "recreate"}
Looping  == {"run", "unlock"}
Gone     == {"refused", "killed", "left"}

LockTypeOK ==
    /\ lock \in Procs \cup {NoProc}
    /\ filled \subseteq Procs
    /\ pc \in [Procs -> {"unborn"} \cup Starting \cup Looping \cup Gone]
    /\ seen \in [Procs -> Procs \cup {NoProc}]
    /\ reused \subseteq Procs

Go(p, to) == pc' = [pc EXCEPT ![p] = to]

(* processExists: a pid answers signal 0 when its process lives, or when    *)
(* its number belongs to some other program.                                *)
ProcessExists(p) == p # NoProc /\ (pc[p] \in Starting \cup Looping \/ p \in reused)

LockInit ==
    /\ lock = NoProc /\ filled = {} /\ reused = {}
    /\ pc = [p \in Procs |-> "unborn"]
    /\ seen = [p \in Procs |-> NoProc]

Spawn(p) ==
    /\ pc[p] = "unborn"
    /\ Overlapping \/ \A q \in Procs : pc[q] \notin Starting
    /\ Go(p, "create")
    /\ UNCHANGED <<lock, filled, seen, reused>>

(* writeLockFile: open with "wx", *)
Create(p) ==
    /\ pc[p] = "create"
    /\ IF lock = NoProc
       THEN lock' = p /\ Go(p, "fill")
       ELSE UNCHANGED lock /\ Go(p, "inspect")
    /\ UNCHANGED <<filled, seen, reused>>

(* then the payload, into whatever became of the file it opened.            *)
Fill(p) ==
    /\ pc[p] = "fill"
    /\ filled' = filled \cup {p}
    /\ Go(p, "run")
    /\ UNCHANGED <<lock, seen, reused>>

(* An empty or a missing file gives no pid. *)
Inspect(p) ==
    /\ pc[p] = "inspect"
    /\ seen' = [seen EXCEPT ![p] = IF lock \in filled THEN lock ELSE NoProc]
    /\ Go(p, "probe")
    /\ UNCHANGED <<lock, filled, reused>>

(* Mutant: the pid in the file is not probed. *)
ProbeNothing(p) ==
    /\ pc[p] = "probe"
    /\ Go(p, "break")
    /\ UNCHANGED <<lock, filled, seen, reused>>

(* Mutant: any file, stale or not, refuses the start. *)
ProbeRefusing(p) ==
    /\ pc[p] = "probe"
    /\ Go(p, "refused")
    /\ UNCHANGED <<lock, filled, seen, reused>>

Probe(p) ==
    /\ pc[p] = "probe"
    /\ Go(p, IF ProcessExists(seen[p]) THEN "refused" ELSE "break")
    /\ UNCHANGED <<lock, filled, seen, reused>>

(* fs.rm(LOCK_PATH, {force: true}): whichever file is there by now.         *)
Break(p) ==
    /\ pc[p] = "break"
    /\ lock' = NoProc
    /\ Go(p, "recreate")
    /\ UNCHANGED <<filled, seen, reused>>

Recreate(p) ==
    /\ pc[p] = "recreate"
    /\ IF lock = NoProc
       THEN lock' = p /\ Go(p, "fill")
       ELSE UNCHANGED lock /\ Go(p, "refused")
    /\ UNCHANGED <<filled, seen, reused>>

(* cleanup on SIGINT, SIGTERM or an uncaught exception: it reads the file,  *)
(* and removes it in a second step when the pid in it is its own.           *)
Cleanup(p) ==
    /\ pc[p] = "run"
    /\ Go(p, IF lock = p /\ p \in filled THEN "unlock" ELSE "left")
    /\ UNCHANGED <<lock, filled, seen, reused>>

Unlock(p) ==
    /\ pc[p] = "unlock"
    /\ lock' = NoProc
    /\ Go(p, "left")
    /\ UNCHANGED <<filled, seen, reused>>

(* SIGKILL, a power cut, or startDaemon's own process.exit(1): no handler   *)
(* runs and the file stays.                                                 *)
Kill(p) ==
    /\ pc[p] \in Starting \cup Looping
    /\ Go(p, "killed")
    /\ UNCHANGED <<lock, filled, seen, reused>>

ReusePid(p) ==
    /\ pc[p] \in Gone /\ p \notin reused
    /\ reused' = reused \cup {p}
    /\ UNCHANGED <<lock, filled, pc, seen>>

LockStep(p) ==
    \/ Spawn(p) \/ Create(p) \/ Fill(p) \/ Inspect(p) \/ Probe(p)
    \/ Break(p) \/ Recreate(p) \/ Cleanup(p) \/ Unlock(p)

LockNext == \E p \in Procs : LockStep(p) \/ Kill(p) \/ ReusePid(p)

LockSpec == LockInit /\ [][LockNext]_lockVars

---------------------------------------------------------------------------

(* No two processes are past the lock.  With starts that do not overlap     *)
(* this holds whatever dies when; README.md says the lock file prevents     *)
(* concurrent loop runs.                                                    *)
OneLoop == \A p, q \in Procs : pc[p] \in Looping /\ pc[q] \in Looping => p = q

(* A start is refused only because some process is alive under the pid      *)
(* somebody wrote into the lock: no death, at no moment, leaves a lock that *)
(* keeps every later start out for good.                                    *)
RefusedForCause ==
    [][\A p \in Procs : pc[p] # "refused" /\ pc'[p] = "refused" =>
           \E q \in Procs \ {p} : ProcessExists(q)]_lockVars
=============================================================================
