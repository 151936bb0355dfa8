------------------------ MODULE ProcStateFile_proofs ------------------------
(***************************************************************************)
(* Theorems about ProcStateFile, for every set of processes, of updates and *)
(* of time stamps.                                                          *)
(***************************************************************************)
EXTENDS ProcStateFile, TLAPS

LEMMA StatusFacts ==
    /\ "KEEP" \notin Status
    /\ "DISCOVERED" \in Status
BY DEF Status, ApplyStatuses, FinalistStatuses, ScoringStatuses, WinnerStatuses, Terminal

LEMMA EmptyIsVersion == EmptyProcState \in Version
<1>1. [status |-> "DISCOVERED", forced |-> FALSE] \in Entry
  BY StatusFacts DEF Entry
<1> QED BY <1>1, StatusFacts DEF EmptyProcState, Version

(* What an update computes from a version is a version. *)
LEMMA PatchedIsVersion ==
    ASSUME NEW v \in Version, NEW op \in OpType,
           op.kind = "transition" => op.status # "KEEP"
    PROVE  Patched(v, op) \in Version
<1>1. NewStatus(v, op) \in Status
  BY DEF NewStatus, Moves, OpType, Version
<1>2. NewHistory(v, op) \in Seq(Entry)
  <2>1. Moves(v, op) => [status |-> op.status, forced |-> op.kind = "force"] \in Entry
    BY DEF Moves, OpType, Entry
  <2>2. v.history \in Seq(Entry)
    BY DEF Version
  <2> QED BY <2>1, <2>2 DEF NewHistory
<1>3. v.fields \cup op.fields \in SUBSET Fields
  BY DEF Version, OpType
<1> QED BY <1>1, <1>2, <1>3 DEF Patched, Version

LEMMA ReadIsVersion ==
    ASSUME NEW v \in Version
    PROVE  GetProcState(v) \in Version
BY DEF GetProcState, Version

---------------------------------------------------------------------------
(* What a process computes from the file. *)

(* The version an update starts from. *)
Base == IF file = Absent THEN EmptyProcState ELSE GetProcState(file)

(* The version it computes. *)
Result(op) == IF op.kind = "create" THEN Base ELSE Patched(Base, op)

LEMMA ComputeResult ==
    ASSUME NEW w \in Writers, NEW op \in Ops, Compute(w, op)
    PROVE  /\ next' = [next EXCEPT ![w] = Result(op)]
           /\ file # Torn /\ Admits(Base, op)
           /\ file \in Content => Base \in Version /\ Result(op) \in Version
<1>1. next' = [next EXCEPT ![w] = Result(op)] /\ Admits(Base, op) /\ file # Torn
  BY DEF Compute, Base, Result
<1>2. ASSUME file \in Content PROVE Base \in Version
  <2>1. CASE file = Absent
    BY <2>1, EmptyIsVersion DEF Base
  <2>2. CASE file # Absent
    BY <1>1, <1>2, <2>2, ReadIsVersion DEF Base, Content
  <2> QED BY <2>1, <2>2
<1>3. ASSUME file \in Content PROVE Result(op) \in Version
  <2>1. op \in OpType /\ (op.kind = "transition" => op.status # "KEEP")
    BY OpsAssumption
  <2>2. Base \in Version
    BY <1>2, <1>3
  <2> QED BY <2>1, <2>2, PatchedIsVersion DEF Result
<1> QED BY <1>1, <1>2, <1>3

---------------------------------------------------------------------------
(* Type correctness: every file, temporary file and pending version is a    *)
(* version of the state or not one at all.                                  *)

THEOREM TypeCorrect == Spec => []TypeOK
<1>1. Init => TypeOK
  <2> SUFFICES ASSUME Init PROVE TypeOK
    OBVIOUS
  <2>1. \A w \in Writers : (CHOOSE t \in Stamps[w] : TRUE) \in AllStamps
    BY StampsAssumption DEF AllStamps
  <2>2. stamp \in [Writers -> AllStamps]
    BY <2>1 DEF Init
  <2> QED BY <2>2, EmptyIsVersion DEF Init, TypeOK, Content
<1>2. TypeOK /\ [Next]_vars => TypeOK'
  <2> SUFFICES ASSUME TypeOK, [Next]_vars PROVE TypeOK'
    OBVIOUS
  <2> USE DEF TypeOK
  <2>1. ASSUME NEW w \in Writers, NEW op \in Ops, Compute(w, op) PROVE TypeOK'
    <3>1. Result(op) \in Version /\ next' = [next EXCEPT ![w] = Result(op)]
      BY <2>1, ComputeResult
    <3> QED BY <2>1, <3>1 DEF Compute
  <2>2. ASSUME NEW w \in Writers, NEW t \in Stamps[w], OpenTmp(w, t) PROVE TypeOK'
    <3>1. t \in AllStamps
      BY DEF AllStamps
    <3> QED BY <2>2, <3>1 DEF OpenTmp, Content
  <2>3. ASSUME NEW w \in Writers, Fill(w) PROVE TypeOK'
    <3>1. \A old : Written(old, next[w]) \subseteq Content
      BY DEF Written, Content
    <3>2. file' \in Content
      BY <2>3, <3>1 DEF Fill
    <3>3. tmp' \in [AllStamps -> Content]
      BY <2>3, <3>1 DEF Fill
    <3>4. next' = next /\ Pending' \subseteq Version
      BY <2>3, <3>3 DEF Fill, Pending, Content
    <3> QED BY <2>3, <3>2, <3>3, <3>4 DEF Fill
  <2>4. ASSUME NEW w \in Writers, Rename(w) PROVE TypeOK'
    <3>1. stamp[w] \in AllStamps
      OBVIOUS
    <3>2. file' \in Content /\ tmp' \in [AllStamps -> Content]
      BY <2>4, <3>1 DEF Rename, Content
    <3>3. fd' \in [Writers -> {"closed", "tmp", "file", "lost"}]
      BY <2>4 DEF Rename
    <3>4. next' \in [Writers -> Version]
      BY <2>4, EmptyIsVersion DEF Rename
    <3>5. Pending' \subseteq Version
      BY <3>2, <3>4 DEF Pending, Content
    <3> QED BY <2>4, <3>2, <3>3, <3>4, <3>5 DEF Rename
  <2>5. ASSUME NEW w \in Writers, Crash(w) PROVE TypeOK'
    BY <2>5, EmptyIsVersion DEF Crash
  <2>6. ASSUME NEW s \in EditedTo, Tamper(s) PROVE TypeOK'
    <3>1. file \in Version
      BY <2>6 DEF Tamper, Content
    <3>2. s \in Status
      BY BoundsAssumption
    <3>3. file' \in Version
      BY <2>6, <3>1, <3>2 DEF Tamper, Version
    <3>4. Pending' \subseteq Version
      BY <2>6 DEF Tamper, Pending, Content
    <3> QED BY <2>6, <3>3, <3>4 DEF Tamper, Content
  <2>7. CASE UNCHANGED vars
    BY <2>7 DEF vars
  <2> QED BY <2>1, <2>2, <2>3, <2>4, <2>5, <2>6, <2>7 DEF Next
<1> QED BY <1>1, <1>2, PTL DEF Spec

---------------------------------------------------------------------------
(* Where the versions after a step come from. *)

Edited(s) == [file EXCEPT !.status = s, !.hashOk = FALSE, !.tainted = TRUE]

Descends(v) ==
    \/ v \in Versions
    \/ v = EmptyProcState
    \/ file # Torn /\ \E op \in Ops : v = Result(op) /\ Admits(Base, op)
    \/ file \in Version /\ \E s \in EditedTo : v = Edited(s)

LEMMA VersionsDescend ==
    ASSUME TypeOK, [Next]_vars
    PROVE  \A v \in Versions' : Descends(v)
<1> USE DEF TypeOK
<1>a. /\ \A c : c = file /\ c \notin {Torn, Absent} => Descends(c)
      /\ \A t \in AllStamps : tmp[t] \notin {Torn, Absent} => Descends(tmp[t])
      /\ \A w \in Writers : next[w] \notin {Torn, Absent} => Descends(next[w])
  BY DEF Descends, Versions
<1>b. Descends(EmptyProcState)
  BY DEF Descends
<1>c. SUFFICES /\ file' \notin {Torn, Absent} => Descends(file')
               /\ \A t \in AllStamps : tmp'[t] \notin {Torn, Absent} => Descends(tmp'[t])
               /\ \A w \in Writers : next'[w] \notin {Torn, Absent} => Descends(next'[w])
  BY DEF Versions
<1>1. ASSUME NEW w \in Writers, NEW op \in Ops, Compute(w, op) PROVE <1>c!1
  <2>1. next' = [next EXCEPT ![w] = Result(op)] /\ Descends(Result(op))
    BY <1>1, ComputeResult DEF Descends
  <2> QED BY <1>1, <1>a, <2>1 DEF Compute
<1>2. ASSUME NEW w \in Writers, NEW t \in Stamps[w], OpenTmp(w, t) PROVE <1>c!1
  BY <1>2, <1>a DEF OpenTmp
<1>3. ASSUME NEW w \in Writers, Fill(w) PROVE <1>c!1
  <2>1. \A old, c : c \in Written(old, next[w]) /\ c \notin {Torn, Absent} => Descends(c)
    BY <1>a DEF Written
  <2>2. CASE fd[w] = "tmp"
    <3>1. file' = file /\ next' = next
      BY <1>3, <2>2 DEF Fill
    <3>2. PICK c \in Written(tmp[stamp[w]], next[w]) : tmp' = [tmp EXCEPT ![stamp[w]] = c]
      BY <1>3, <2>2 DEF Fill
    <3> QED BY <1>a, <2>1, <3>1, <3>2
  <2>3. CASE fd[w] = "file"
    <3>1. tmp' = tmp /\ next' = next /\ file' \in Written(file, next[w])
      BY <1>3, <2>3 DEF Fill
    <3> QED BY <1>a, <2>1, <3>1
  <2>4. CASE fd[w] \notin {"tmp", "file"}
    <3>1. tmp' = tmp /\ next' = next /\ file' = file
      BY <1>3, <2>4 DEF Fill
    <3> QED BY <1>a, <3>1
  <2> QED BY <2>2, <2>3, <2>4
<1>4. ASSUME NEW w \in Writers, Rename(w) PROVE <1>c!1
  <2>1. next' = [next EXCEPT ![w] = EmptyProcState]
    BY <1>4 DEF Rename
  <2>2. \/ file' = file /\ tmp' = tmp
        \/ file' = tmp[stamp[w]] /\ tmp' = [tmp EXCEPT ![stamp[w]] = Absent]
    BY <1>4 DEF Rename
  <2> QED BY <1>a, <1>b, <2>1, <2>2
<1>5. ASSUME NEW w \in Writers, Crash(w) PROVE <1>c!1
  BY <1>5, <1>a, <1>b DEF Crash
<1>6. ASSUME NEW s \in EditedTo, Tamper(s) PROVE <1>c!1
  <2>1. file \in Version /\ file' = Edited(s) /\ tmp' = tmp /\ next' = next
    BY <1>6 DEF Tamper, Content, Edited
  <2> QED BY <1>a, <2>1 DEF Descends
<1>7. CASE UNCHANGED vars
  BY <1>7, <1>a DEF vars
<1> QED BY <1>1, <1>2, <1>3, <1>4, <1>5, <1>6, <1>7 DEF Next

LEMMA VersionsAreVersions == ASSUME TypeOK PROVE Versions \subseteq Version
BY DEF Versions, TypeOK, Content

---------------------------------------------------------------------------
(* The status history. *)

LEMMA EmptyIsLegal == LegalHistory(EmptyProcState)
BY DEF LegalHistory, EmptyProcState

(* Appending an admitted move keeps a history legal. *)
LEMMA PatchedIsLegal ==
    ASSUME NEW v \in Version, NEW op \in OpType, Admits(v, op),
           op.kind = "transition" => op.status # "KEEP",
           LegalHistory(v), op.kind # "create"
    PROVE  LegalHistory(Patched(v, op))
<1> DEFINE p == Patched(v, op)
           h == v.history
           e == [status |-> op.status, forced |-> op.kind = "force"]
<1>1. p.history = NewHistory(v, op) /\ p.status = NewStatus(v, op)
  BY DEF Patched, Version
<1>2. h \in Seq(Entry)
  BY DEF Version
<1>3. CASE ~Moves(v, op)
  BY <1>1, <1>3 DEF NewHistory, NewStatus, LegalHistory
<1>4. CASE Moves(v, op)
  <2>1. p.history = Append(h, e) /\ p.status = op.status
    BY <1>1, <1>4 DEF NewHistory, NewStatus
  <2>2. e.forced \/ IsValidTransition(v.status, e.status)
    BY <1>4 DEF Moves, Admits, OpType
  <2>3. Len(h) \in Nat /\ Len(h) > 0 /\ h[1].status = "DISCOVERED" /\ h[Len(h)].status = v.status
    BY <1>2 DEF LegalHistory
  <2>4. /\ Len(p.history) = Len(h) + 1
        /\ p.history[Len(h) + 1] = e
        /\ \A i \in 1..Len(h) : p.history[i] = h[i]
    BY <1>2, <2>1
  <2>5. ASSUME NEW i \in 1..(Len(p.history) - 1)
        PROVE  \/ p.history[i + 1].forced
               \/ IsValidTransition(p.history[i].status, p.history[i + 1].status)
    <3>1. CASE i = Len(h)
      BY <2>2, <2>3, <2>4, <3>1
    <3>2. CASE i # Len(h)
      <4>1. i \in 1..(Len(h) - 1) /\ i + 1 \in 1..Len(h) /\ i \in 1..Len(h)
        BY <2>3, <2>4, <3>2
      <4> QED BY <2>4, <4>1 DEF LegalHistory
    <3> QED BY <3>1, <3>2
  <2>6. p.history[1].status = "DISCOVERED"
    BY <2>3, <2>4
  <2>7. p.history[Len(p.history)].status = p.status
    BY <2>1, <2>3, <2>4
  <2> QED BY <2>3, <2>4, <2>5, <2>6, <2>7 DEF LegalHistory
<1> QED BY <1>3, <1>4

(* HistoryIsLegal for every instance: no race between processes, collision   *)
(* of temporary files or crash makes an unedited state.json show a move that *)
(* VALID_TRANSITIONS lacks and no operator forced.                           *)
THEOREM HistoryTheorem == Spec => []HistoryIsLegal
<1>1. Init => HistoryIsLegal
  BY EmptyIsLegal DEF Init, HistoryIsLegal, Versions
<1>2. TypeOK /\ HistoryIsLegal /\ [Next]_vars => HistoryIsLegal'
  <2> SUFFICES ASSUME TypeOK, HistoryIsLegal, [Next]_vars,
                      NEW v \in Versions', ~v.tainted
               PROVE  LegalHistory(v)
    BY DEF HistoryIsLegal
  <2>1. Descends(v)
    BY VersionsDescend
  <2>2. CASE v \in Versions
    BY <2>2 DEF HistoryIsLegal
  <2>3. CASE v = EmptyProcState
    BY <2>3, EmptyIsLegal
  <2>4. ASSUME file # Torn, NEW op \in Ops, v = Result(op), Admits(Base, op) PROVE LegalHistory(v)
    <3>1. Base \in Version /\ (LegalHistory(Base) \/ Base.tainted)
      <4>1. CASE file = Absent
        BY <4>1, EmptyIsLegal, EmptyIsVersion DEF Base
      <4>2. CASE file \in Version
        <5>1. Base = [file EXCEPT !.flagged = file.flagged \/ ~file.hashOk]
          BY <4>2, ContentAssumption DEF Base, GetProcState
        <5>2. file \in Versions
          BY <4>2, ContentAssumption DEF Versions
        <5>3. Base.history = file.history /\ Base.status = file.status /\ Base.tainted = file.tainted
          BY <4>2, <5>1 DEF Version
        <5> QED BY <4>2, <5>1, <5>2, <5>3, ReadIsVersion DEF HistoryIsLegal, LegalHistory, GetProcState
      <4> QED BY <2>4, <4>1, <4>2 DEF TypeOK, Content
    <3>2. op \in OpType /\ (op.kind = "transition" => op.status # "KEEP")
      BY OpsAssumption
    <3>3. v.tainted = Base.tainted
      BY <2>4, <3>1 DEF Result, Patched, Version
    <3>4. CASE op.kind = "create"
      BY <2>4, <3>1, <3>3, <3>4 DEF Result
    <3>5. CASE op.kind # "create"
      BY <2>4, <3>1, <3>2, <3>3, <3>5, PatchedIsLegal DEF Result
    <3> QED BY <3>4, <3>5
  <2>5. ASSUME file \in Version, NEW s \in EditedTo, v = Edited(s) PROVE LegalHistory(v)
    <3>1. v.tainted
      BY <2>5 DEF Edited, Version
    <3> QED BY <3>1
  <2> QED BY <2>1, <2>2, <2>3, <2>4, <2>5 DEF Descends
<1> QED BY <1>1, <1>2, TypeCorrect, PTL DEF Spec

---------------------------------------------------------------------------
(* TaintIsFlagged for every instance: once state.json was edited from        *)
(* outside, every version with a valid hash that descends from the edit      *)
(* carries stateIntegrityError, so assertStateIntegrity refuses it.          *)
THEOREM TaintTheorem == Spec => []TaintIsFlagged
<1>1. Init => TaintIsFlagged
  BY DEF Init, TaintIsFlagged, Versions, EmptyProcState
<1>2. TypeOK /\ TaintIsFlagged /\ [Next]_vars => TaintIsFlagged'
  <2> SUFFICES ASSUME TypeOK, TaintIsFlagged, [Next]_vars,
                      NEW v \in Versions', v.tainted, v.hashOk
               PROVE  v.flagged
    BY DEF TaintIsFlagged
  <2>1. Descends(v)
    BY VersionsDescend
  <2>2. CASE v \in Versions
    BY <2>2 DEF TaintIsFlagged
  <2>3. CASE v = EmptyProcState
    BY <2>3 DEF EmptyProcState
  <2>4. ASSUME file # Torn, NEW op \in Ops, v = Result(op) PROVE v.flagged
    <3>1. Base \in Version /\ (Base.tainted => Base.flagged)
      <4>1. CASE file = Absent
        BY <4>1, EmptyIsVersion DEF Base, EmptyProcState
      <4>2. CASE file \in Version
        <5>1. file \in Versions
          BY <4>2, ContentAssumption DEF Versions
        <5>2. Base = [file EXCEPT !.flagged = file.flagged \/ ~file.hashOk]
          BY <4>2, ContentAssumption DEF Base, GetProcState
        <5>3. Base.tainted = file.tainted /\ Base.flagged = (file.flagged \/ ~file.hashOk)
          BY <4>2, <5>2 DEF Version
        <5>4. Base \in Version
          BY <4>2, ContentAssumption, ReadIsVersion DEF Base
        <5> QED BY <5>1, <5>3, <5>4 DEF TaintIsFlagged
      <4> QED BY <2>4, <4>1, <4>2 DEF TypeOK, Content
    <3>2. v.tainted = Base.tainted /\ v.flagged = Base.flagged
      BY <2>4, <3>1 DEF Result, Patched, Version
    <3> QED BY <3>1, <3>2
  <2>5. ASSUME file \in Version, NEW s \in EditedTo, v = Edited(s) PROVE v.flagged
    <3>1. ~v.hashOk
      BY <2>5 DEF Edited, Version
    <3> QED BY <3>1
  <2> QED BY <2>1, <2>2, <2>3, <2>4, <2>5 DEF Descends
<1> QED BY <1>1, <1>2, TypeCorrect, PTL DEF Spec

---------------------------------------------------------------------------
(* Atomicity of writeJson, as far as it goes: two updates that write at the  *)
(* same time must not use the same temporary file.                           *)

Writing(w) == pc[w] \in {"opened", "filled"}

TmpsApart ==
    \A v, w \in Writers : Writing(v) /\ Writing(w) /\ v # w => stamp[v] # stamp[w]

(* The updates do not overlap: none begins before the last one has renamed   *)
(* its file or died.  One process alone always takes turns.                  *)
TakingTurns == \A v, w \in Writers : pc[v] # "idle" /\ pc[w] # "idle" => v = w

LEMMA TurnsAreApart == TakingTurns => TmpsApart
BY DEF TakingTurns, TmpsApart, Writing

LEMMA StampsAreApart == ASSUME WritersApart, OwnedTmp PROVE TmpsApart
BY DEF WritersApart, OwnedTmp, TmpsApart

LEMMA OwnedTmpStep ==
    ASSUME TypeOK, OwnedTmp, [Next]_vars,
           WritersApart \/ (TmpsApart /\ TmpsApart')
    PROVE  OwnedTmp'
<1> USE DEF TypeOK, OwnedTmp, NeverTorn
<1>0. \A v, w \in Writers : Writing(v) /\ Writing(w) /\ v # w => stamp[v] # stamp[w]
  BY StampsAreApart DEF TmpsApart
<1>1. ASSUME NEW w \in Writers, NEW op \in Ops, Compute(w, op) PROVE OwnedTmp'
  BY <1>1 DEF Compute
<1>2. ASSUME NEW w \in Writers, NEW t \in Stamps[w], OpenTmp(w, t) PROVE OwnedTmp'
  <2>1. t \in AllStamps
    BY DEF AllStamps
  <2>2. /\ pc' = [pc EXCEPT ![w] = "opened"] /\ stamp' = [stamp EXCEPT ![w] = t]
        /\ tmp' = [tmp EXCEPT ![t] = Torn] /\ fd' = [fd EXCEPT ![w] = "tmp"]
        /\ next' = next /\ file' = file
    BY <1>2 DEF OpenTmp
  <2>3. \A x \in Writers : x # w /\ Writing(x) => stamp[x] # t
    <3>1. CASE WritersApart
      BY <3>1 DEF WritersApart
    <3>2. CASE TmpsApart'
      BY <2>2, <3>2 DEF TmpsApart, Writing
    <3> QED BY <3>1, <3>2
  <2>4. \A x \in Writers : x # w /\ Writing(x) => tmp'[stamp[x]] = tmp[stamp[x]]
    BY <2>1, <2>2, <2>3
  <2> QED BY <2>1, <2>2, <2>4 DEF Writing
<1>3. ASSUME NEW w \in Writers, Fill(w) PROVE OwnedTmp'
  <2>1. pc[w] = "opened" /\ fd[w] = "tmp" /\ tmp[stamp[w]] = Torn
    BY <1>3 DEF Fill
  <2>2. tmp' = [tmp EXCEPT ![stamp[w]] = next[w]] /\ file' = file
    BY <1>3, <2>1 DEF Fill, Written
  <2>3. stamp[w] \in AllStamps
    OBVIOUS
  <2>4. \A x \in Writers : x # w /\ Writing(x) => tmp'[stamp[x]] = tmp[stamp[x]]
    BY <1>0, <2>1, <2>2 DEF Writing
  <2> QED BY <1>3, <2>1, <2>2, <2>3, <2>4 DEF Fill, Writing
<1>4. ASSUME NEW w \in Writers, Rename(w) PROVE OwnedTmp'
  <2>1. pc[w] = "filled" /\ fd[w] = "closed" /\ tmp[stamp[w]] = next[w] /\ next[w] \in Version
    BY <1>4 DEF Rename
  <2>2. tmp[stamp[w]] # Absent /\ next[w] # Torn
    BY <2>1, ContentAssumption
  <2>3. /\ file' = next[w]
        /\ tmp' = [tmp EXCEPT ![stamp[w]] = Absent]
        /\ fd' = [x \in Writers |->
                    IF fd[x] = "tmp" /\ stamp[x] = stamp[w] THEN "file"
                    ELSE IF fd[x] = "file" THEN "lost" ELSE fd[x]]
    BY <1>4, <2>1, <2>2 DEF Rename
  <2>4. \A x \in Writers : fd[x] = "tmp" => stamp[x] # stamp[w]
    BY <1>0, <2>1 DEF Writing
  <2>5. fd' = fd
    BY <2>3, <2>4
  <2>6. pc' = [pc EXCEPT ![w] = "idle"] /\ next' = [next EXCEPT ![w] = EmptyProcState] /\ stamp' = stamp
    BY <1>4 DEF Rename
  <2>7. \A x \in Writers : x # w /\ Writing(x) => tmp'[stamp[x]] = tmp[stamp[x]]
    BY <1>0, <2>1, <2>3 DEF Writing
  <2> QED BY <2>1, <2>2, <2>3, <2>5, <2>6, <2>7 DEF Writing
<1>5. ASSUME NEW w \in Writers, Crash(w) PROVE OwnedTmp'
  BY <1>5 DEF Crash
<1>6. ASSUME NEW s \in EditedTo, Tamper(s) PROVE OwnedTmp'
  <2>1. file \in Version
    BY <1>6 DEF Tamper, Content
  <2>2. file' \in Version
    BY <1>6, <2>1, BoundsAssumption DEF Tamper, Version
  <2> QED BY <1>6, <2>2, ContentAssumption DEF Tamper
<1>7. CASE UNCHANGED vars
  BY <1>7 DEF vars
<1> QED BY <1>1, <1>2, <1>3, <1>4, <1>5, <1>6, <1>7 DEF Next

LEMMA OwnedTmpInit == Init => OwnedTmp
<1> SUFFICES ASSUME Init PROVE OwnedTmp
  OBVIOUS
<1>1. \A w \in Writers : (CHOOSE t \in Stamps[w] : TRUE) \in Stamps[w]
  BY StampsAssumption
<1> QED BY <1>1, ContentAssumption DEF Init, OwnedTmp, NeverTorn

(* NeverTorn for every set of processes none of which write in the same      *)
(* millisecond: writeJson is atomic against crashes and slow writers.        *)
THEOREM AtomicTheorem ==
    ASSUME WritersApart
    PROVE  Spec => []NeverTorn
<1>1. Init => OwnedTmp
  BY OwnedTmpInit
<1>2. TypeOK /\ OwnedTmp /\ [Next]_vars => OwnedTmp'
  BY OwnedTmpStep
<1>3. OwnedTmp => NeverTorn
  BY DEF OwnedTmp
<1> QED BY <1>1, <1>2, <1>3, TypeCorrect, PTL DEF Spec

(* NeverTorn whatever the milliseconds are, as long as no two updates that   *)
(* write at the same time share a temporary file: what a crash left under a  *)
(* name is cut to nothing by the next update of that millisecond.            *)
THEOREM TmpsTheorem == Spec /\ []TmpsApart => []NeverTorn
<1>1. Init => OwnedTmp
  BY OwnedTmpInit
<1>2. TypeOK /\ OwnedTmp /\ TmpsApart /\ TmpsApart' /\ [Next]_vars => OwnedTmp'
  BY OwnedTmpStep
<1>3. OwnedTmp => NeverTorn
  BY DEF OwnedTmp
<1> QED BY <1>1, <1>2, <1>3, TypeCorrect, PTL DEF Spec

---------------------------------------------------------------------------
(* While updates take turns, the file implements the status graph.          *)

Unforced == EditedTo = {} /\ \A op \in Ops : op.kind # "force"

LEMMA BaseStatus ==
    ASSUME file \in Content, file # Torn
    PROVE  /\ file \in Version => Base.status = file.status
           /\ file \notin Version => Base.status = "DISCOVERED"
<1>1. CASE file = Absent
  BY <1>1, ContentAssumption DEF Base, EmptyProcState
<1>2. CASE file \in Version
  BY <1>2, ContentAssumption DEF Base, GetProcState, Version
<1> QED BY <1>1, <1>2 DEF Content

LEMMA ResultMoves ==
    ASSUME NEW op \in Ops, op.kind # "force", Base \in Version, Admits(Base, op)
    PROVE  \/ Result(op).status = Base.status
           \/ IsValidTransition(Base.status, Result(op).status)
<1>1. CASE op.kind = "create"
  BY <1>1 DEF Result
<1>2. CASE op.kind # "create"
  <2>1. Result(op).status = NewStatus(Base, op)
    BY <1>2 DEF Result, Patched, Version
  <2>2. op.kind \in {"set", "transition"}
    BY <1>2, OpsAssumption DEF OpType
  <2> QED BY <2>1, <2>2 DEF NewStatus, Moves, Admits
<1> QED BY <1>1, <1>2

(* The file changes when an update renames, and becomes what it holds, or    *)
(* when it is edited from outside; every other process is idle then.         *)
LEMMA InstallsNext ==
    ASSUME TakingTurns, TypeOK, OwnedTmp, [Next]_vars, file' # file
    PROVE  \/ \E w \in Writers :
                 /\ Rename(w) /\ pc[w] = "filled" /\ file' = next[w] /\ next[w] \in Version
                 /\ \A x \in Writers : pc'[x] = "idle"
           \/ \E s \in EditedTo : Tamper(s)
<1> USE DEF TypeOK
<1>1. \A w \in Writers : ~Fill(w)
  BY DEF Fill, OwnedTmp
<1>2. (\E w \in Writers : Rename(w)) \/ \E s \in EditedTo : Tamper(s)
  BY <1>1 DEF Next, Compute, OpenTmp, Crash, vars
<1>3. ASSUME NEW w \in Writers, Rename(w)
      PROVE  /\ pc[w] = "filled" /\ file' = next[w] /\ next[w] \in Version
             /\ \A x \in Writers : pc'[x] = "idle"
  <2>1. pc[w] = "filled" /\ tmp[stamp[w]] = next[w] /\ next[w] \in Version
    BY <1>3 DEF Rename, OwnedTmp
  <2>2. \A x \in Writers : x # w => pc[x] = "idle"
    BY <2>1 DEF TakingTurns
  <2> QED BY <1>3, <2>1, <2>2, ContentAssumption DEF Rename
<1> QED BY <1>2, <1>3

(* While a process is between its steps, nothing else moves the file. *)
LEMMA OneMoveStep ==
    ASSUME Unforced, TakingTurns, TakingTurns', TypeOK, OwnedTmp, OneMoveAway, [Next]_vars
    PROVE  OneMoveAway'
<1> USE DEF TypeOK
<1>1. ASSUME NEW w \in Writers, NEW op \in Ops, Compute(w, op) PROVE OneMoveAway'
  <2>1. /\ next' = [next EXCEPT ![w] = Result(op)]
        /\ Base \in Version /\ Admits(Base, op) /\ file # Torn
    BY <1>1, ComputeResult
  <2>2. \/ Result(op).status = Base.status
        \/ IsValidTransition(Base.status, Result(op).status)
    BY <2>1, ResultMoves DEF Unforced
  <2>3. StatusOnDisk' = StatusOnDisk
    BY <1>1 DEF Compute, StatusOnDisk
  <2>4. Base.status = IF file \in Version THEN StatusOnDisk ELSE "DISCOVERED"
    BY <2>1, BaseStatus DEF StatusOnDisk
  <2>5. file \notin Version => StatusOnDisk = "ABSENT"
    BY DEF StatusOnDisk
  <2>6. \A x \in Writers : pc'[x] # "idle" => x = w
    BY <1>1 DEF TakingTurns, Compute
  <2> QED BY <2>1, <2>2, <2>3, <2>4, <2>5, <2>6 DEF OneMoveAway
<1>2. ASSUME NEW w \in Writers, NEW t \in Stamps[w], OpenTmp(w, t) PROVE OneMoveAway'
  BY <1>2 DEF OpenTmp, OneMoveAway, StatusOnDisk
<1>3. ASSUME NEW w \in Writers, Fill(w) PROVE OneMoveAway'
  BY <1>3 DEF Fill, OwnedTmp, OneMoveAway, StatusOnDisk
<1>4. ASSUME NEW w \in Writers, Rename(w) PROVE OneMoveAway'
  <2>1. \A x \in Writers : pc'[x] = "idle"
    BY <1>4 DEF Rename, TakingTurns
  <2> QED BY <2>1 DEF OneMoveAway
<1>5. ASSUME NEW w \in Writers, Crash(w) PROVE OneMoveAway'
  BY <1>5 DEF Crash, OneMoveAway, StatusOnDisk
<1>6. CASE UNCHANGED vars
  BY <1>6 DEF vars, OneMoveAway, StatusOnDisk
<1> QED BY <1>1, <1>2, <1>3, <1>4, <1>5, <1>6 DEF Next, Unforced

LEMMA SameModel ==
    /\ Graph!Status = Status
    /\ \A s, t : Graph!IsValidTransition(s, t) <=> IsValidTransition(s, t)
BY DEF Graph!Status, Graph!ApplyStatuses, Graph!FinalistStatuses, Graph!ScoringStatuses,
       Graph!WinnerStatuses, Graph!Terminal, Graph!IsValidTransition, Graph!ForwardEdges,
       Graph!Missable, Graph!Expirable,
       Status, ApplyStatuses, FinalistStatuses, ScoringStatuses, WinnerStatuses, Terminal,
       IsValidTransition, ForwardEdges, Missable, Expirable

(* FollowsGraph for any processes whose updates take turns, any updates that *)
(* do not force and any crashes: what state.json shows moves along           *)
(* VALID_TRANSITIONS only.                                                   *)
THEOREM GraphTheorem ==
    ASSUME Unforced
    PROVE  Spec /\ []TakingTurns => FollowsGraph
<1>1. Init => OwnedTmp /\ OneMoveAway /\ Graph!Init
  BY OwnedTmpInit, ContentAssumption DEF Init, OneMoveAway, Graph!Init, StatusOnDisk
<1>2. TypeOK /\ TakingTurns /\ TakingTurns' /\ OwnedTmp /\ OneMoveAway /\ [Next]_vars
          => (OwnedTmp /\ OneMoveAway)'
  <2>1. TakingTurns' => TmpsApart'
    BY DEF TakingTurns, TmpsApart, Writing
  <2> QED BY <2>1, TurnsAreApart, OwnedTmpStep, OneMoveStep
<1>3. TypeOK /\ TakingTurns /\ OwnedTmp /\ OneMoveAway /\ [Next]_vars => [Graph!Next]_StatusOnDisk
  <2> SUFFICES ASSUME TypeOK, TakingTurns, OwnedTmp, OneMoveAway, [Next]_vars
               PROVE  [Graph!Next]_StatusOnDisk
    OBVIOUS
  <2>1. CASE file' = file
    BY <2>1 DEF StatusOnDisk
  <2>2. CASE file' # file
    <3>1. PICK w \in Writers : pc[w] = "filled" /\ file' = next[w] /\ next[w] \in Version
      BY <2>2, InstallsNext DEF Unforced
    <3>2. StatusOnDisk' = next[w].status /\ next[w].status \in Status
      BY <3>1 DEF StatusOnDisk, Version
    <3>3. \/ next[w].status = StatusOnDisk
          \/ IsValidTransition(StatusOnDisk, next[w].status)
          \/ /\ StatusOnDisk = "ABSENT"
             /\ \/ next[w].status = "DISCOVERED"
                \/ IsValidTransition("DISCOVERED", next[w].status)
      BY <3>1 DEF OneMoveAway
    <3>4. StatusOnDisk \in Status \/ StatusOnDisk = "ABSENT"
      BY DEF StatusOnDisk, Version
    <3>5. \A s : ~IsValidTransition("ABSENT", s)
      BY DEF IsValidTransition, ForwardEdges, Missable, Expirable, ApplyStatuses,
             FinalistStatuses, ScoringStatuses
    <3> QED BY <3>2, <3>3, <3>4, <3>5, SameModel DEF Graph!Next, Graph!Discover, Graph!Move
  <2> QED BY <2>1, <2>2
<1> QED BY <1>1, <1>2, <1>3, TypeCorrect, PTL DEF Spec, FollowsGraph, Graph!Spec

---------------------------------------------------------------------------
(* What is installed is what was read, and more. *)

KeepsFields ==
    \A w \in Writers : pc[w] # "idle" /\ file \in Version => file.fields \subseteq next[w].fields

LEMMA ResultKeepsFields ==
    ASSUME NEW op \in Ops, file \in Version, Base \in Version
    PROVE  file.fields \subseteq Result(op).fields
<1>1. Base.fields = file.fields
  BY ContentAssumption DEF Base, GetProcState, Version
<1>2. CASE op.kind = "create"
  BY <1>1, <1>2 DEF Result
<1>3. CASE op.kind # "create"
  <2>1. Result(op).fields = Base.fields \cup op.fields
    BY <1>3 DEF Result, Patched, Version
  <2> QED BY <1>1, <2>1
<1> QED BY <1>2, <1>3

(* An edit from outside changes the status and nothing else that is told     *)
(* apart here.                                                               *)
LEMMA EditKeepsFields ==
    ASSUME TypeOK, NEW s \in EditedTo, Tamper(s)
    PROVE  file \in Version /\ file' \in Version /\ file'.fields = file.fields
BY BoundsAssumption DEF Tamper, Version, TypeOK, Content

LEMMA KeepsFieldsStep ==
    ASSUME TakingTurns, TakingTurns', TypeOK, OwnedTmp, KeepsFields, [Next]_vars
    PROVE  KeepsFields'
<1> USE DEF TypeOK
<1>1. ASSUME NEW w \in Writers, NEW op \in Ops, Compute(w, op) PROVE KeepsFields'
  <2>1. next' = [next EXCEPT ![w] = Result(op)] /\ Base \in Version
    BY <1>1, ComputeResult
  <2>2. file' = file
    BY <1>1 DEF Compute
  <2>3. \A x \in Writers : pc'[x] # "idle" => x = w
    BY <1>1 DEF TakingTurns, Compute
  <2> QED BY <2>1, <2>2, <2>3, ResultKeepsFields DEF KeepsFields
<1>2. ASSUME NEW w \in Writers, NEW t \in Stamps[w], OpenTmp(w, t) PROVE KeepsFields'
  BY <1>2 DEF OpenTmp, KeepsFields
<1>3. ASSUME NEW w \in Writers, Fill(w) PROVE KeepsFields'
  BY <1>3 DEF Fill, OwnedTmp, KeepsFields
<1>4. ASSUME NEW w \in Writers, Rename(w) PROVE KeepsFields'
  <2>1. \A x \in Writers : pc'[x] = "idle"
    BY <1>4 DEF Rename, TakingTurns
  <2> QED BY <2>1 DEF KeepsFields
<1>5. ASSUME NEW w \in Writers, Crash(w) PROVE KeepsFields'
  BY <1>5 DEF Crash, KeepsFields
<1>6. ASSUME NEW s \in EditedTo, Tamper(s) PROVE KeepsFields'
  <2>1. next' = next /\ pc' = pc
    BY <1>6 DEF Tamper
  <2> QED BY <1>6, <2>1, EditKeepsFields DEF KeepsFields
<1>7. CASE UNCHANGED vars
  BY <1>7 DEF vars, KeepsFields
<1> QED BY <1>1, <1>2, <1>3, <1>4, <1>5, <1>6, <1>7 DEF Next

LEMMA TurnsStart ==
    /\ Init => OwnedTmp /\ OneMoveAway /\ KeepsFields
    /\ TypeOK /\ TakingTurns /\ TakingTurns' /\ OwnedTmp /\ KeepsFields /\ [Next]_vars
          => (OwnedTmp /\ KeepsFields)'
<1>1. TakingTurns' => TmpsApart'
  BY DEF TakingTurns, TmpsApart, Writing
<1> QED BY <1>1, OwnedTmpInit, OwnedTmpStep, TurnsAreApart, KeepsFieldsStep
        DEF Init, OneMoveAway, KeepsFields

(* FieldsAccumulate for any processes whose updates take turns: no update,   *)
(* forced or not, no crash in one and no edit of the status takes back a     *)
(* field that state.json held (setProcState merges its patch).               *)
THEOREM FieldsTheorem == Spec /\ []TakingTurns => FieldsAccumulate
<1> DEFINE Grows == (file \in Version /\ file' \in Version) => file.fields \subseteq file'.fields
<1>1. TypeOK /\ TakingTurns /\ OwnedTmp /\ KeepsFields /\ [Next]_vars => Grows
  <2> SUFFICES ASSUME TypeOK, TakingTurns, OwnedTmp, KeepsFields, [Next]_vars,
                      file' # file, file \in Version
               PROVE  file.fields \subseteq file'.fields
    OBVIOUS
  <2>1. CASE \E s \in EditedTo : Tamper(s)
    BY <2>1, EditKeepsFields
  <2>2. CASE \E w \in Writers : pc[w] = "filled" /\ file' = next[w]
    BY <2>2 DEF KeepsFields
  <2> QED BY <2>1, <2>2, InstallsNext
<1> QED BY <1>1, TurnsStart, TypeCorrect, PTL DEF Spec, FieldsAccumulate

(* One process alone takes turns, whatever it does and wherever it dies: its *)
(* file moves along the graph and keeps its fields.                          *)
THEOREM AloneTheorem ==
    ASSUME NEW CONSTANT w, Writers = {w}, Unforced
    PROVE  Spec => FollowsGraph /\ FieldsAccumulate
<1>1. TakingTurns
  BY DEF TakingTurns
<1>2. []TakingTurns
  BY <1>1, PTL
<1> QED BY <1>2, GraphTheorem, FieldsTheorem, PTL

---------------------------------------------------------------------------
(* What a lost update takes.                                                *)

(* A version is timely when it extends what the file holds; every pending    *)
(* version that is not late is timely.                                       *)
Timely(v) == file \in Version => Extends(v, file)

PendingIsTimely == \A v \in Pending : v \in late \/ Timely(v)

LEMMA ExtendsItself ==
    ASSUME NEW v \in Version, NEW u \in Version,
           u.fields = v.fields, u.history = v.history
    PROVE  Extends(u, v)
<1>1. v.history \in Seq(Entry)
  BY DEF Version
<1> QED BY <1>1 DEF Extends, IsPrefix

(* An update computed from a version extends it. *)
LEMMA PatchedExtends ==
    ASSUME NEW v \in Version, NEW op \in OpType,
           op.kind = "transition" => op.status # "KEEP"
    PROVE  Extends(Patched(v, op), v)
<1> DEFINE h == v.history
           e == [status |-> op.status, forced |-> op.kind = "force"]
<1>1. /\ Patched(v, op).history = NewHistory(v, op)
      /\ Patched(v, op).fields = v.fields \cup op.fields
  BY DEF Patched, Version
<1>2. h \in Seq(Entry)
  BY DEF Version
<1>3. CASE ~Moves(v, op)
  BY <1>1, <1>2, <1>3 DEF NewHistory, Extends, IsPrefix
<1>4. CASE Moves(v, op)
  <2>1. e \in Entry
    BY <1>4 DEF Moves, OpType, Entry
  <2>2. Patched(v, op).history = Append(h, e)
    BY <1>1, <1>4 DEF NewHistory
  <2>3. Len(h) <= Len(Append(h, e)) /\ SubSeq(h, 1, Len(h)) = SubSeq(Append(h, e), 1, Len(h))
    BY <1>2, <2>1
  <2> QED BY <1>1, <2>2, <2>3 DEF Extends, IsPrefix
<1> QED BY <1>3, <1>4

(* What an update computes extends the file as it is. *)
LEMMA ResultIsTimely ==
    ASSUME TypeOK, file # Torn, NEW op \in Ops, Base \in Version, Result(op) \in Version
    PROVE  Timely(Result(op))
<1> SUFFICES ASSUME file \in Version PROVE Extends(Result(op), file)
  BY DEF Timely
<1>1. Base.fields = file.fields /\ Base.history = file.history
  BY ContentAssumption DEF Base, GetProcState, Version
<1>2. CASE op.kind = "create"
  BY <1>1, <1>2, ExtendsItself DEF Result
<1>3. CASE op.kind # "create"
  <2>1. op \in OpType /\ (op.kind = "transition" => op.status # "KEEP")
    BY OpsAssumption
  <2>2. Extends(Patched(Base, op), Base)
    BY <2>1, PatchedExtends
  <2> QED BY <1>1, <1>3, <2>2 DEF Result, Extends
<1> QED BY <1>2, <1>3

LEMMA TimelyStep ==
    ASSUME TypeOK, PendingIsTimely, [Next]_vars
    PROVE  PendingIsTimely'
<1> USE DEF TypeOK
<1>0. ASSUME file' = file, Pending' \subseteq Pending, late' = late \cap Pending' \/ late' = late
      PROVE  PendingIsTimely'
  BY <1>0 DEF PendingIsTimely, Timely
<1>a. (late' = Pending') => PendingIsTimely'
  BY DEF PendingIsTimely
<1>1. ASSUME NEW w \in Writers, NEW op \in Ops, Compute(w, op) PROVE PendingIsTimely'
  <2>1. /\ next' = [next EXCEPT ![w] = Result(op)] /\ file # Torn
        /\ Base \in Version /\ Result(op) \in Version
    BY <1>1, ComputeResult
  <2>2. file' = file /\ late' = late \ {Result(op)}
    BY <1>1, <2>1 DEF Compute
  <2>3. Pending' \subseteq Pending \cup {Result(op)}
    BY <1>1, <2>1 DEF Compute, Pending
  <2>4. Timely(Result(op))
    BY <2>1, ResultIsTimely
  <2> QED BY <2>2, <2>3, <2>4 DEF PendingIsTimely, Timely
<1>2. ASSUME NEW w \in Writers, NEW t \in Stamps[w], OpenTmp(w, t) PROVE PendingIsTimely'
  <2>1. Pending' \subseteq Pending
    BY <1>2 DEF OpenTmp, Pending
  <2> QED BY <1>0, <1>2, <2>1 DEF OpenTmp
<1>3. ASSUME NEW w \in Writers, Fill(w) PROVE PendingIsTimely'
  <2>1. CASE fd[w] = "file"
    BY <1>3, <1>a, <2>1 DEF Fill
  <2>2. CASE fd[w] = "tmp"
    <3>1. PICK c \in Written(tmp[stamp[w]], next[w]) : tmp' = [tmp EXCEPT ![stamp[w]] = c]
      BY <1>3, <2>2 DEF Fill
    <3>2. c \in {next[w], Torn}
      BY <3>1 DEF Written
    <3>3. Pending' \subseteq Pending
      BY <1>3, <3>1, <3>2 DEF Fill, Pending
    <3> QED BY <1>0, <1>3, <2>2, <3>3 DEF Fill
  <2>3. CASE fd[w] \notin {"file", "tmp"}
    <3>1. Pending' \subseteq Pending
      BY <1>3, <2>3 DEF Fill, Pending
    <3> QED BY <1>0, <1>3, <2>3, <3>1 DEF Fill
  <2> QED BY <2>1, <2>2, <2>3
<1>4. ASSUME NEW w \in Writers, Rename(w) PROVE PendingIsTimely'
  <2>1. CASE tmp[stamp[w]] # Absent
    BY <1>4, <1>a, <2>1 DEF Rename
  <2>2. CASE tmp[stamp[w]] = Absent
    <3>1. Pending' \subseteq Pending
      BY <1>4, <2>2 DEF Rename, Pending
    <3> QED BY <1>0, <1>4, <2>2, <3>1 DEF Rename
  <2> QED BY <2>1, <2>2
<1>5. ASSUME NEW w \in Writers, Crash(w) PROVE PendingIsTimely'
  <2>1. Pending' \subseteq Pending
    BY <1>5 DEF Crash, Pending
  <2> QED BY <1>0, <1>5, <2>1 DEF Crash
<1>6. ASSUME NEW s \in EditedTo, Tamper(s) PROVE PendingIsTimely'
  BY <1>6, <1>a DEF Tamper
<1>7. CASE UNCHANGED vars
  BY <1>7 DEF vars, PendingIsTimely, Timely, Pending
<1> QED BY <1>1, <1>2, <1>3, <1>4, <1>5, <1>6, <1>7 DEF Next

(* Where what is installed comes from. *)
LEMMA InstalledWasPending ==
    ASSUME TypeOK, [Next]_vars, file' # file, file \in Version, file' \in Version
    PROVE  file' \in Pending \/ Extends(file', file)
<1> USE DEF TypeOK
<1>1. ASSUME NEW w \in Writers, Fill(w) PROVE file' \in Pending
  <2>1. fd[w] = "file" /\ file' \in Written(file, next[w]) /\ pc[w] = "opened"
    BY <1>1 DEF Fill
  <2>2. file' = next[w]
    BY <2>1, ContentAssumption DEF Written
  <2> QED BY <2>1, <2>2, ContentAssumption DEF Pending
<1>2. ASSUME NEW w \in Writers, Rename(w) PROVE file' \in Pending
  <2>1. tmp[stamp[w]] # Absent /\ file' = tmp[stamp[w]]
    BY <1>2 DEF Rename
  <2> QED BY <2>1, ContentAssumption DEF Pending
<1>3. ASSUME NEW s \in EditedTo, Tamper(s) PROVE Extends(file', file)
  <2>1. file'.fields = file.fields /\ file'.history = file.history
    BY <1>3 DEF Tamper, Version
  <2> QED BY <2>1, ExtendsItself
<1> QED BY <1>1, <1>2, <1>3 DEF Next, Compute, OpenTmp, Crash, vars

(* OnlyLateOverwrites for every instance: any processes, in the same         *)
(* milliseconds or not, any updates, crashes and edits.  Of two overlapping  *)
(* calls of setProcState one may be lost, but only to a version computed     *)
(* before the other was installed: never to one computed from the file as it *)
(* is, and never to what a dead process left in a temporary file unless that *)
(* is late too.                                                              *)
THEOREM OverwriteTheorem == Spec => OnlyLateOverwrites
<1> DEFINE Keeps == (file \in Version /\ file' \in Version /\ ~Extends(file', file))
                       => file' \in late
<1>1. Init => PendingIsTimely
  BY DEF Init, PendingIsTimely, Timely, Pending
<1>2. TypeOK /\ PendingIsTimely /\ [Next]_vars => PendingIsTimely'
  BY TimelyStep
<1>3. TypeOK /\ PendingIsTimely /\ [Next]_vars => Keeps
  <2> SUFFICES ASSUME TypeOK, PendingIsTimely, [Next]_vars,
                      file \in Version, file' \in Version, ~Extends(file', file)
               PROVE  file' \in late
    OBVIOUS
  <2>1. file' # file
    BY ExtendsItself
  <2>2. file' \in Pending
    BY <2>1, InstalledWasPending
  <2> QED BY <2>2 DEF PendingIsTimely, Timely
<1> QED BY <1>1, <1>2, <1>3, TypeCorrect, PTL DEF Spec, OnlyLateOverwrites
=============================================================================
