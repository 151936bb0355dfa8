--------------------------- MODULE ProcStateFile ---------------------------
(***************************************************************************)
(* The durable state of one procurement, artifacts/proc_<id>/state.json,    *)
(* and the processes that update it (agent/prime-state.js).  The            *)
(* orchestrator, the monitor and the operator's command-line tools are      *)
(* separate node processes; none takes a lock.  Each update reads the file, *)
(* computes the next version from what it read, writes that to a temporary  *)
(* file and renames it over state.json, with an await at every step.        *)
(*                                                                          *)
(* A temporary file's name is the path, the millisecond and three constant  *)
(* characters, so two updates of the same millisecond share one temporary   *)
(* file.  Stamps[w] are the milliseconds in which process w may write.      *)
(***************************************************************************)
EXTENDS PrimePhases, SequencesExt

CONSTANTS
    Writers,      \* the processes
    Stamps,       \* Stamps[w]: the time stamps w's temporary files may carry
    Ops,          \* the updates the processes issue
    Fields,       \* the patch fields told apart
    Torn,         \* the content of a file that does not parse
    Absent,       \* the content of a name without a file
    MaxHistory,   \* bound: length of the status history
    EditedTo,     \* the statuses an edit from outside the runtime may leave
    MaxTamper     \* bound: the number of such edits

OpType == [kind   : {"create", "set", "force", "transition"},
           status : Status \cup {"KEEP"},
           fields : SUBSET Fields]

ASSUME StampsAssumption == \A w \in Writers : Stamps[w] # {}

ASSUME BoundsAssumption == EditedTo \subseteq Status /\ MaxHistory \in Nat /\ MaxTamper \in Nat

ASSUME OpsAssumption ==
    /\ Ops \subseteq OpType
    /\ \A op \in Ops : op.kind = "transition" => op.status # "KEEP"

AllStamps == UNION {Stamps[w] : w \in Writers}

Entry == [status : Status, forced : BOOLEAN]

(* A version of the file.  tainted is a history variable: the version       *)
(* descends from an edit made outside the runtime.                          *)
Version == [status : Status, history : Seq(Entry), fields : SUBSET Fields,
            hashOk : BOOLEAN, flagged : BOOLEAN, tainted : BOOLEAN]

ASSUME ContentAssumption == Torn # Absent /\ Torn \notin Version /\ Absent \notin Version

Content == Version \cup {Torn, Absent}

VARIABLES
    file,     \* state.json
    tmp,      \* the temporary files, by stamp
    pc,       \* idle, computed, opened, filled
    next,     \* the version a process is about to install; EmptyProcState when idle
    stamp,    \* the stamp of the temporary file it uses
    fd,       \* where its open descriptor points: closed, tmp, file, lost
    tampered, \* edits made so far
    late      \* history: the pending versions computed before the file last changed

vars == <<file, tmp, pc, next, stamp, fd, tampered, late>>

---------------------------------------------------------------------------
(* Versions. *)

EmptyProcState ==
    [status |-> "DISCOVERED", history |-> <<[status |-> "DISCOVERED", forced |-> FALSE]>>,
     fields |-> {}, hashOk |-> TRUE, flagged |-> FALSE, tainted |-> FALSE]

(* getProcState: a version whose hash does not verify is returned with      *)
(* stateIntegrityError set.                                                 *)
GetProcState(v) == [v EXCEPT !.flagged = v.flagged \/ ~v.hashOk]

(* The version an update derives from the one it read, merging the patch    *)
(* into it.  attachStateHash gives it a hash that verifies, whatever it was  *)
(* derived from.                                                            *)
Moves(v, op) == op.kind = "transition" \/ op.status \notin {"KEEP", v.status}

NewStatus(v, op) == IF Moves(v, op) THEN op.status ELSE v.status

NewHistory(v, op) ==
    IF Moves(v, op)
    THEN Append(v.history, [status |-> op.status, forced |-> op.kind = "force"])
    ELSE v.history

(* Mutant: a new status is not appended to the history. *)
PatchedWithoutHistory(v, op) ==
    [v EXCEPT !.status = NewStatus(v, op), !.hashOk = TRUE]

(* Mutant: the integrity error is stripped before the version is hashed. *)
PatchedUnflagged(v, op) ==
    [v EXCEPT !.status = NewStatus(v, op), !.history = NewHistory(v, op),
              !.hashOk = TRUE, !.flagged = FALSE]

(* Mutant: the patch replaces the object instead of being merged into it. *)
PatchedReplacing(v, op) ==
    [v EXCEPT !.status = NewStatus(v, op), !.history = NewHistory(v, op),
              !.fields = op.fields, !.hashOk = TRUE]

Patched(v, op) ==
    [v EXCEPT !.status  = NewStatus(v, op),
              !.history = NewHistory(v, op),
              !.fields  = v.fields \cup op.fields,
              !.hashOk  = TRUE]

(* Mutant: transitionProcStatus accepts any move but a move out of nowhere. *)
AdmitsAnyTransition(v, op) ==
    op.kind = "set" => \/ op.status \in {"KEEP", v.status}
                       \/ IsValidTransition(v.status, op.status)

(* assertValidTransition, as each of the three updates applies it. *)
Admits(v, op) ==
    CASE op.kind = "transition" -> IsValidTransition(v.status, op.status)
      [] op.kind = "set"        -> op.status \in {"KEEP", v.status}
                                       \/ IsValidTransition(v.status, op.status)
      [] OTHER                  -> TRUE

---------------------------------------------------------------------------
(* Actions. *)

(* The versions on their way to state.json, those of the dead included. *)
Pending ==
    ({next[w] : w \in {x \in Writers : pc[x] # "idle"}} \cup {tmp[t] : t \in AllStamps})
        \ {Torn, Absent}

(* Mutant: getOrCreateProcState creates whatever it finds. *)
ComputeCreatingAnew(w, op) ==
    /\ pc[w] = "idle"
    /\ file # Torn
    /\ op.kind = "transition" => file # Absent
    /\ LET v == IF file = Absent \/ op.kind = "create" THEN EmptyProcState
                ELSE GetProcState(file) IN
       /\ Len(v.history) < MaxHistory
       /\ Admits(v, op)
       /\ next' = [next EXCEPT ![w] = IF op.kind = "create" THEN v ELSE Patched(v, op)]
    /\ pc' = [pc EXCEPT ![w] = "computed"]
    /\ late' = late \ {next'[w]}
    /\ UNCHANGED <<file, tmp, stamp, fd, tampered>>

(* Read the file and compute the next version.  Nothing happens when the    *)
(* file does not parse, when transitionProcStatus finds none, when          *)
(* getOrCreateProcState finds one, or when the move is illegal: the call    *)
(* throws or returns before any write.                                      *)
Compute(w, op) ==
    /\ pc[w] = "idle"
    /\ file # Torn
    /\ op.kind = "transition" => file # Absent
    /\ op.kind = "create"     => file = Absent
    /\ LET v == IF file = Absent THEN EmptyProcState ELSE GetProcState(file) IN
       /\ Len(v.history) < MaxHistory
       /\ Admits(v, op)
       /\ next' = [next EXCEPT ![w] = IF op.kind = "create" THEN v ELSE Patched(v, op)]
    /\ pc' = [pc EXCEPT ![w] = "computed"]
    /\ late' = late \ {next'[w]}
    /\ UNCHANGED <<file, tmp, stamp, fd, tampered>>

(* Mutant: writeJson truncates state.json itself. *)
OpenInPlace(w, t) ==
    /\ pc[w] = "computed"
    /\ t \in Stamps[w]
    /\ file'  = Torn
    /\ stamp' = [stamp EXCEPT ![w] = t]
    /\ fd'    = [fd EXCEPT ![w] = "file"]
    /\ pc'    = [pc EXCEPT ![w] = "opened"]
    /\ UNCHANGED <<tmp, next, tampered>>
    /\ late'  = Pending'

(* fs.writeFile opens the temporary file and truncates it. *)
OpenTmp(w, t) ==
    /\ pc[w] = "computed"
    /\ t \in Stamps[w]
    /\ tmp'   = [tmp EXCEPT ![t] = Torn]
    /\ stamp' = [stamp EXCEPT ![w] = t]
    /\ fd'    = [fd EXCEPT ![w] = "tmp"]
    /\ pc'    = [pc EXCEPT ![w] = "opened"]
    /\ UNCHANGED <<file, next, tampered>>
    /\ late'  = late \cap Pending'

(* The bytes reach the inode the descriptor points to.  Over the bytes of   *)
(* another process the result parses only if the lengths happen to agree.   *)
Written(old, new) == IF old = Torn THEN {new} ELSE {new, Torn}

Fill(w) ==
    /\ pc[w] = "opened"
    /\ fd' = [fd EXCEPT ![w] = "closed"]
    /\ pc' = [pc EXCEPT ![w] = "filled"]
    /\ UNCHANGED <<next, stamp, tampered>>
    /\ \/ /\ fd[w] = "tmp"
          /\ \E c \in Written(tmp[stamp[w]], next[w]) : tmp' = [tmp EXCEPT ![stamp[w]] = c]
          /\ UNCHANGED file
          /\ late' = late \cap Pending'
       \/ /\ fd[w] = "file"
          /\ \E c \in Written(file, next[w]) : file' = c
          /\ UNCHANGED tmp
          /\ late' = Pending'
       \/ /\ fd[w] = "lost"
          /\ UNCHANGED <<file, tmp, late>>

(* fs.rename: descriptors open on the renamed file follow it, those open on *)
(* the replaced one keep writing to an inode without a name.  If another    *)
(* process already renamed the shared file, the call throws ENOENT.         *)
Rename(w) ==
    /\ pc[w] = "filled"
    /\ pc' = [pc EXCEPT ![w] = "idle"]
    /\ next' = [next EXCEPT ![w] = EmptyProcState]
    /\ UNCHANGED <<stamp, tampered>>
    /\ IF tmp[stamp[w]] = Absent
       THEN /\ UNCHANGED <<file, tmp, fd>>
            /\ late' = late \cap Pending'
       ELSE /\ file' = tmp[stamp[w]]
            /\ tmp'  = [tmp EXCEPT ![stamp[w]] = Absent]
            /\ fd'   = [x \in Writers |->
                           IF fd[x] = "tmp" /\ stamp[x] = stamp[w] THEN "file"
                           ELSE IF fd[x] = "file" THEN "lost" ELSE fd[x]]
            /\ late' = Pending'

(* A process dies between two of its steps; its temporary file stays, and    *)
(* another process may still install it.                                     *)
Crash(w) ==
    /\ pc[w] # "idle"
    /\ pc' = [pc EXCEPT ![w] = "idle"]
    /\ fd' = [fd EXCEPT ![w] = "closed"]
    /\ next' = [next EXCEPT ![w] = EmptyProcState]
    /\ UNCHANGED <<file, tmp, stamp, tampered>>
    /\ late' = late \cap Pending'

(* An edit of state.json that does not go through prime-state.js. *)
Tamper(s) ==
    /\ tampered < MaxTamper
    /\ file \notin {Torn, Absent}
    /\ file' = [file EXCEPT !.status = s, !.hashOk = FALSE, !.tainted = TRUE]
    /\ tampered' = tampered + 1
    /\ UNCHANGED <<tmp, pc, next, stamp, fd>>
    /\ late' = Pending'

---------------------------------------------------------------------------
Init ==
    /\ file = Absent
    /\ tmp = [t \in AllStamps |-> Absent]
    /\ pc = [w \in Writers |-> "idle"]
    /\ next = [w \in Writers |-> EmptyProcState]
    /\ stamp = [w \in Writers |-> CHOOSE t \in Stamps[w] : TRUE]
    /\ fd = [w \in Writers |-> "closed"]
    /\ tampered = 0
    /\ late = {}

Next ==
    \/ \E w \in Writers :
          \/ \E op \in Ops : Compute(w, op)
          \/ \E t \in Stamps[w] : OpenTmp(w, t)
          \/ Fill(w)
          \/ Rename(w)
          \/ Crash(w)
    \/ \E s \in EditedTo : Tamper(s)

Spec == Init /\ [][Next]_vars

---------------------------------------------------------------------------
(* Properties. *)

TypeOK ==
    /\ file \in Content
    /\ tmp \in [AllStamps -> Content]
    /\ pc \in [Writers -> {"idle", "computed", "opened", "filled"}]
    /\ next \in [Writers -> Version]
    /\ stamp \in [Writers -> AllStamps]
    /\ fd \in [Writers -> {"closed", "tmp", "file", "lost"}]
    /\ tampered \in Nat
    /\ late \subseteq Version

(* Every version there is: on disk, in a temporary file, in a process. *)
Versions ==
    ({file} \cup {tmp[t] : t \in AllStamps} \cup {next[w] : w \in Writers})
        \ {Torn, Absent}

LegalHistory(v) ==
    /\ Len(v.history) > 0
    /\ v.history[1].status = "DISCOVERED"
    /\ v.history[Len(v.history)].status = v.status
    /\ \A i \in 1..(Len(v.history) - 1) :
          \/ v.history[i + 1].forced
          \/ IsValidTransition(v.history[i].status, v.history[i + 1].status)

(* Unless the file was edited from outside, the status history in it is an   *)
(* unbroken chain of legal or explicitly forced moves that ends in its       *)
(* status, whatever updates raced, collided or died: prime-state.js derives  *)
(* each version, status and history together, from one version it read.      *)
HistoryIsLegal == \A v \in Versions : ~v.tainted => LegalHistory(v)

(* An update re-hashes whatever it read, so an edited file verifies again    *)
(* after the next update; the integrity error it carries must outlive that,  *)
(* or assertStateIntegrity would let the orchestrator go on from it.         *)
TaintIsFlagged == \A v \in Versions : v.tainted /\ v.hashOk => v.flagged

(* state.json always parses: a crash at any step of an update leaves the old *)
(* version or the new one (writeJson's temporary file and rename).           *)
NeverTorn == file # Torn

(* No update takes back what an earlier one recorded: a field set in the     *)
(* file stays set.                                                           *)
FieldsAccumulate ==
    [][(file \in Version /\ file' \in Version) => file.fields \subseteq file'.fields]_vars

(* What version new holds of version old: every field and every entry of the *)
(* history.                                                                  *)
Extends(new, old) ==
    /\ old.fields \subseteq new.fields
    /\ IsPrefix(old.history, new.history)

(* Two updates that overlap may lose one of the two: the second to rename    *)
(* installs a version it computed without the first.  That is the only way:  *)
(* a field or an entry of the history disappears from state.json only when   *)
(* the version installed was computed before the file last changed.  An      *)
(* update computed from the file as it is takes nothing back, wherever       *)
(* others died and whatever they left under the name it writes to.           *)
OnlyLateOverwrites ==
    [][(file \in Version /\ file' \in Version /\ ~Extends(file', file))
           => file' \in late]_vars

(* No two processes ever write in the same millisecond. *)
WritersApart == \A v, w \in Writers : v # w => Stamps[v] \cap Stamps[w] = {}

(* The strengthening of NeverTorn: a temporary file has one owner, which     *)
(* renames it only once it is complete.                                      *)
OwnedTmp ==
    /\ NeverTorn
    /\ \A w \in Writers :
          /\ stamp[w] \in Stamps[w]
          /\ fd[w] = IF pc[w] = "opened" THEN "tmp" ELSE "closed"
          /\ pc[w] = "opened" => tmp[stamp[w]] = Torn
          /\ pc[w] = "filled" => tmp[stamp[w]] = next[w]

(* The strengthening of FollowsGraph: what the only process is about to      *)
(* install is one legal move, or none, away from what is on disk.            *)
StatusOnDisk == IF file \in Version THEN file.status ELSE "ABSENT"

OneMoveAway ==
    \A w \in Writers : pc[w] # "idle" =>
        \/ next[w].status = StatusOnDisk
        \/ IsValidTransition(StatusOnDisk, next[w].status)
        \/ /\ StatusOnDisk = "ABSENT"
           /\ \/ next[w].status = "DISCOVERED"
              \/ IsValidTransition("DISCOVERED", next[w].status)

(* With one process the file implements the status graph: each change of     *)
(* state.json is a legal move of the status, or none.                        *)
Graph == INSTANCE StatusGraph
             WITH status <- StatusOnDisk

FollowsGraph == Graph!Spec
=============================================================================
