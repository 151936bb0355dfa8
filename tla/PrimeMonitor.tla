---------------------------- MODULE PrimeMonitor ----------------------------
(* The poll loop of agent/prime-monitor.js over a chain that reorganises:    *)
(* three event cursors with anchors, kept in memory and saved at the end of  *)
(* a cycle that did not fail, and the block a procurement was last refreshed *)
(* at.  What an event or a refresh does to a procurement's status is         *)
(* PrimeProcurement's matter; here an event is seen or not.                  *)
(* CycleIds are the cycles that may run at once: setInterval starts the next *)
(* one whether or not the one before it has ended.                           *)
EXTENDS Naturals, Sequences, FiniteSets

CONSTANTS
    CycleIds,
    Confirmations,   \* REORG_SAFETY_BLOCKS
    Span,            \* SCAN_BLOCKS
    FailureLimit,    \* MAX_CONSECUTIVE_FAILURES
    FirstBlock,      \* the procurement cursor of a monitor that never ran
    FirstChains,     \* the chains there may be when the monitor is first started
    Unknown,         \* no block, no hash, no memory
    MaxHead, MaxReorgs, MaxTroubles   \* bounds (troubles: failing calls and deaths)

VARIABLES
    blocks,     \* the chain: per height [hash, events]
    peak,       \* the highest head there ever was
    memory,     \* monitorState of the process, or Unknown: [cursor, anchor, head], and
                \* history: since, per key, the block from which its scans have no gap
    saved,      \* prime_monitor_state.json
    noticed,    \* the events a scan took up, with their blocks: recorded in the state of their
                \* procurement, or passed over for want of one
    cycle,      \* per cycle: [at, key, head, from]
    syncBlock,  \* lastChainSyncBlock and its hash of one tracked procurement
    procStatus, \* and its status, or "NONE" if no procurement is active
    addressed,  \* is agentAddress set?
    health,     \* monitor_health.json: consecutive failures
    stopped,    \* the interval was cleared
    counts      \* [reorgs, troubles] so far

monitorVars == <<blocks, peak, memory, saved, noticed, cycle, syncBlock, procStatus,
                 addressed, health, stopped, counts>>
monitorFiles == <<saved, noticed, syncBlock, procStatus>>
monitorWorld == <<blocks, peak, addressed, stopped, counts>>

(* In the order of a cycle. *)
CursorKeys == <<"procurement", "shortlist", "winner">>
EventsOf == [procurement |-> {"created"}, shortlist |-> {"shortlisted"}, winner |-> {"won"}]
ChainEvents == UNION {EventsOf[k] : k \in DOMAIN EventsOf}

Anchors == [block : Nat, hash : Nat]

MonitorStates ==
    [cursor : [DOMAIN EventsOf -> Nat], anchor : [DOMAIN EventsOf -> Anchors \cup {Unknown}],
     head : Nat, since : [DOMAIN EventsOf -> Nat]]

Blocks == [hash : Nat, events : SUBSET ChainEvents]

ASSUME MonitorAssumption ==
    /\ {Confirmations, Span, FailureLimit, FirstBlock, MaxHead, MaxReorgs, MaxTroubles} \subseteq Nat
    /\ FirstChains \subseteq Seq(Blocks)
    /\ \A chain \in FirstChains : \A b \in DOMAIN chain : chain[b].hash = 0
    /\ Unknown \notin Nat /\ Unknown \notin Anchors /\ Unknown \notin MonitorStates

Asleep == [at |-> "asleep", key |-> 1, head |-> 0, from |-> 0]

FirstCursor(k) == IF k = "procurement" THEN FirstBlock ELSE 0

NewMonitorState ==
    [cursor |-> [k \in DOMAIN EventsOf |-> FirstCursor(k)],
     anchor |-> [k \in DOMAIN EventsOf |-> Unknown],
     head   |-> 0,
     since  |-> [k \in DOMAIN EventsOf |-> FirstCursor(k) + 1]]

MonitorInit ==
    /\ blocks \in FirstChains /\ peak = Len(blocks)
    /\ memory = Unknown /\ saved = NewMonitorState
    /\ noticed = {}
    /\ cycle = [c \in CycleIds |-> Asleep]
    /\ syncBlock = Unknown /\ procStatus \in {"NONE", "COMMIT_SUBMITTED", "SHORTLISTED"}
    /\ addressed \in BOOLEAN
    /\ health = 0 /\ stopped = FALSE
    /\ counts = [reorgs |-> 0, troubles |-> 0]

---------------------------------------------------------------------------
(* The chain *)

HashAt(b) == IF b \in DOMAIN blocks THEN blocks[b].hash ELSE Unknown

(* Bound: one event on the chain at a time; nothing relates two of them.    *)
NewEvents(chain) ==
    {{}} \cup {{e} : e \in IF \A b \in DOMAIN chain : chain[b].events = {} THEN ChainEvents ELSE {}}

Mine ==
    /\ Len(blocks) < MaxHead
    /\ \E evs \in NewEvents(blocks) :
          blocks' = Append(blocks, [hash |-> counts.reorgs, events |-> evs])
    /\ peak' = IF Len(blocks) = peak THEN peak + 1 ELSE peak
    /\ UNCHANGED <<memory, monitorFiles, cycle, addressed, health, stopped, counts>>

(* What a state vouches for with an anchor: all it has scanned.              *)
Anchored(s) ==
    \A k \in DOMAIN EventsOf :
        IF s.anchor[k] = Unknown THEN s.cursor[k] = FirstCursor(k)
        ELSE s.cursor[k] <= s.anchor[k].block /\ s.anchor[k].hash # Unknown

(* From the check of the anchors to the last scan. *)
Scanning(c) ==
    \/ cycle[c].at \in {"reconcile", "scan", "anchor"}
    \/ cycle[c].at = "head" /\ cycle[c].key > 1

(* Blocks above h are replaced.  Up to Confirmations of them at any time; up *)
(* to Span more only between the scans of one cycle and the check of the     *)
(* anchors in the next, and not while a scanned block lacks its anchor.      *)
Reorg ==
    /\ counts.reorgs < MaxReorgs
    /\ \E h \in DOMAIN blocks \ {Len(blocks)} :
          /\ \/ h >= peak - Confirmations
             \/ /\ h >= peak - Confirmations - Span
                /\ \A c \in CycleIds : ~Scanning(c)
                /\ Anchored(saved) /\ (memory # Unknown => Anchored(memory))
          /\ \E evs \in NewEvents(SubSeq(blocks, 1, h)) :
                blocks' = Append(SubSeq(blocks, 1, h), [hash |-> counts.reorgs + 1, events |-> evs])
    /\ counts' = [counts EXCEPT !.reorgs = @ + 1]
    /\ UNCHANGED <<peak, memory, monitorFiles, cycle, addressed, health, stopped>>

---------------------------------------------------------------------------
(* A cycle of startPrimeMonitor *)

SafeBlock(head) == IF head > Confirmations THEN head - Confirmations ELSE 0
Minus(a, b)     == IF a > b THEN a - b ELSE 0

(* A cursor that is at c goes on with the block next: if it leaves blocks     *)
(* out, it has no gap only from there on.                                    *)
NoGapSince(since, c, next) == IF next > c + 1 /\ next > since THEN next ELSE since

Step(c, place) == cycle' = [cycle EXCEPT ![c].at = place]

StartMonitor ==
    /\ memory = Unknown
    /\ memory' = saved
    /\ UNCHANGED <<monitorWorld, monitorFiles, cycle, health>>

BeginCycle(c) ==
    /\ memory # Unknown /\ ~stopped /\ cycle[c].at = "asleep"
    /\ cycle' = [cycle EXCEPT ![c] = [Asleep EXCEPT !.at = "head"]]
    /\ UNCHANGED <<monitorWorld, memory, monitorFiles, health>>

Key(c) == CursorKeys[cycle[c].key]

(* Where a cycle goes after a key, whether or not there was something to     *)
(* scan: without an address the other two keys are left out, and without an  *)
(* active procurement the refresh is.                                        *)
NextKey(c) ==
    IF addressed /\ cycle[c].key < Len(CursorKeys)
    THEN [cycle[c] EXCEPT !.key = @ + 1, !.at = "head"]
    ELSE [cycle[c] EXCEPT !.at = IF procStatus = "NONE" THEN "save" ELSE "refresh"]

(* Mutant: the cursor moves as soon as the range is known. *)
PlanScanAhead(c, head, mem) ==
    LET k    == Key(c)
        safe == SafeBlock(head)
        from == IF mem.cursor[k] > 0 THEN mem.cursor[k] + 1 ELSE Minus(safe, Span)
    IN  IF from > safe
        THEN /\ memory' = [mem EXCEPT !.cursor[k] = safe]
             /\ cycle' = [cycle EXCEPT ![c] = NextKey(c)]
        ELSE /\ memory' = [mem EXCEPT !.cursor[k] = safe, !.since[k] = NoGapSince(@, mem.cursor[k], from)]
             /\ cycle' = [cycle EXCEPT ![c].at = "scan", ![c].head = head, ![c].from = from]

(* fromBlock of a key, and what becomes of an empty range. *)
PlanScan(c, head, mem) ==
    LET k    == Key(c)
        safe == SafeBlock(head)
        from == IF mem.cursor[k] > 0 THEN mem.cursor[k] + 1 ELSE Minus(safe, Span)
    IN  IF from > safe
        THEN /\ memory' = [mem EXCEPT !.cursor[k] = safe]
             /\ cycle' = [cycle EXCEPT ![c] = NextKey(c)]
        ELSE /\ memory' = [mem EXCEPT !.since[k] = NoGapSince(@, mem.cursor[k], from)]
             /\ cycle' = [cycle EXCEPT ![c].at = "scan", ![c].head = head, ![c].from = from]

(* discoverNewProcurements asks for the head and then checks the anchors;    *)
(* the other two ask for the head and go on.                                 *)
ReadHead(c) ==
    /\ cycle[c].at = "head"
    /\ IF Key(c) = "procurement"
       THEN /\ cycle' = [cycle EXCEPT ![c].at = "reconcile", ![c].head = Len(blocks)]
            /\ UNCHANGED memory
       ELSE PlanScan(c, Len(blocks), memory)
    /\ UNCHANGED <<monitorWorld, saved, noticed, syncBlock, procStatus, health>>

Mismatch(s, k) ==
    /\ s.anchor[k] # Unknown /\ s.anchor[k].hash # Unknown
    /\ HashAt(s.anchor[k].block) # s.anchor[k].hash

Rewound(s) ==
    [k \in DOMAIN EventsOf |->
        IF Mismatch(s, k) THEN Minus(s.anchor[k].block, Confirmations + Span) ELSE s.cursor[k]]

(* reconcileReorgCursors, then a head that reads lower than the last one     *)
(* did: the cursors are set by the head and not by what was scanned, so one  *)
(* that is far behind goes forward.                                          *)
Rechecked(head) ==
    LET back == Minus(SafeBlock(head), Span)
    IN  IF memory.head > head
        THEN [memory EXCEPT !.head = head, !.cursor = [k \in DOMAIN EventsOf |-> back],
                            !.since = [k \in DOMAIN EventsOf |->
                                          NoGapSince(memory.since[k], memory.cursor[k], back + 1)]]
        ELSE [memory EXCEPT !.head = head, !.cursor = Rewound(memory)]

Reconcile(c) ==
    /\ cycle[c].at = "reconcile"
    /\ PlanScan(c, cycle[c].head, Rechecked(cycle[c].head))
    /\ UNCHANGED <<monitorWorld, saved, noticed, syncBlock, procStatus, health>>

(* The events are taken up one after the other, and only then the cursor      *)
(* moves.  A shortlist or a winner of a procurement that has no state is     *)
(* passed over, and counts as taken up too.                                  *)
Scan(c) ==
    /\ cycle[c].at = "scan"
    /\ LET k    == Key(c)
           safe == SafeBlock(cycle[c].head)
       IN  /\ noticed' = noticed \cup
                 {log \in EventsOf[k] \X ((cycle[c].from)..safe) :
                     log[2] \in DOMAIN blocks /\ log[1] \in blocks[log[2]].events}
           /\ memory' = [memory EXCEPT !.cursor[k] = safe]
    /\ Step(c, "anchor")
    /\ UNCHANGED <<monitorWorld, saved, syncBlock, procStatus, health>>

UpdateCursorAnchor(c) ==
    /\ cycle[c].at = "anchor"
    /\ LET safe == SafeBlock(cycle[c].head)
       IN  memory' = IF safe > 0
                     THEN [memory EXCEPT !.anchor[Key(c)] = [block |-> safe, hash |-> HashAt(safe)]]
                     ELSE memory
    /\ cycle' = [cycle EXCEPT ![c] = NextKey(c)]
    /\ UNCHANGED <<monitorWorld, monitorFiles, health>>

(* Any call to the chain outside the refresh may fail and ends the cycle; at *)
(* the limit the interval is cleared.  Nothing is saved.                     *)
CycleFails(c) ==
    /\ cycle[c].at \in {"head", "reconcile", "scan", "anchor"}
    /\ counts.troubles < MaxTroubles
    /\ counts' = [counts EXCEPT !.troubles = @ + 1]
    /\ health' = health + 1
    /\ stopped' = (stopped \/ health + 1 >= FailureLimit)
    /\ Step(c, "asleep")
    /\ UNCHANGED <<blocks, peak, addressed, memory, monitorFiles>>

---------------------------------------------------------------------------
(* refreshActiveProcurements, of one procurement *)

Phases == INSTANCE PrimePhases

RollbackMap ==
    [COMMIT_SUBMITTED          |-> "COMMIT_READY",
     REVEAL_SUBMITTED          |-> "REVEAL_READY",
     FINALIST_ACCEPT_SUBMITTED |-> "FINALIST_ACCEPT_READY",
     TRIAL_SUBMITTED           |-> "TRIAL_READY",
     COMPLETION_SUBMITTED      |-> "COMPLETION_READY"]

(* checkProcurementReorgIntegrity *)
Stale ==
    /\ syncBlock # Unknown /\ syncBlock.hash # Unknown
    /\ HashAt(syncBlock.block) \notin {Unknown, syncBlock.hash}

(* The procurement is left with its old sync block: what setProcState is     *)
(* asked for is no legal move, and a status outside the map asks for none.   *)
RollBack(c) ==
    /\ cycle[c].at = "refresh" /\ Stale
    /\ procStatus' = IF procStatus \in DOMAIN RollbackMap
                        /\ Phases!IsValidTransition(procStatus, RollbackMap[procStatus])
                     THEN RollbackMap[procStatus] ELSE procStatus
    /\ Step(c, "save")
    /\ UNCHANGED <<monitorWorld, memory, saved, noticed, syncBlock, health>>

FetchFresh(c) ==
    /\ cycle[c].at = "refresh" /\ ~Stale
    /\ cycle' = [cycle EXCEPT ![c].at = "sync", ![c].head = Len(blocks)]
    /\ UNCHANGED <<monitorWorld, memory, monitorFiles, health>>

(* getBlockHash failed: the catch lets the check pass, so a procurement whose *)
(* block was replaced is refreshed after all.                               *)
FetchUnchecked(c) ==
    /\ cycle[c].at = "refresh" /\ Stale
    /\ counts.troubles < MaxTroubles
    /\ counts' = [counts EXCEPT !.troubles = @ + 1]
    /\ cycle' = [cycle EXCEPT ![c].at = "sync", ![c].head = Len(blocks)]
    /\ UNCHANGED <<blocks, peak, addressed, memory, monitorFiles, health, stopped>>

RecordSync(c) ==
    /\ cycle[c].at = "sync"
    /\ syncBlock' = [block |-> cycle[c].head, hash |-> HashAt(cycle[c].head)]
    /\ Step(c, "save")
    /\ UNCHANGED <<monitorWorld, memory, saved, noticed, procStatus, health>>

(* A failure here is caught, and the cycle counts as a success. *)
FetchFails(c) ==
    /\ cycle[c].at \in {"refresh", "sync"}
    /\ counts.troubles < MaxTroubles
    /\ counts' = [counts EXCEPT !.troubles = @ + 1]
    /\ Step(c, "save")
    /\ UNCHANGED <<blocks, peak, addressed, memory, monitorFiles, health, stopped>>

SaveMonitorState(c) ==
    /\ cycle[c].at = "save"
    /\ saved' = memory /\ health' = 0
    /\ Step(c, "asleep")
    /\ UNCHANGED <<monitorWorld, memory, noticed, syncBlock, procStatus>>

MonitorDies ==
    /\ memory # Unknown /\ counts.troubles < MaxTroubles
    /\ counts' = [counts EXCEPT !.troubles = @ + 1]
    /\ memory' = Unknown /\ stopped' = FALSE
    /\ cycle' = [c \in CycleIds |-> Asleep]
    /\ UNCHANGED <<blocks, peak, addressed, monitorFiles, health>>

CycleStep(c) ==
    \/ ReadHead(c) \/ Reconcile(c) \/ Scan(c) \/ UpdateCursorAnchor(c)
    \/ RollBack(c) \/ FetchFresh(c) \/ RecordSync(c) \/ SaveMonitorState(c)

MonitorNext ==
    \/ Mine \/ Reorg
    \/ StartMonitor \/ MonitorDies
    \/ \E c \in CycleIds :
          BeginCycle(c) \/ CycleStep(c) \/ CycleFails(c) \/ FetchFails(c) \/ FetchUnchecked(c)

MonitorSpec == MonitorInit /\ [][MonitorNext]_monitorVars

---------------------------------------------------------------------------
(* No event is skipped: what a cursor has passed without a gap has been taken *)
(* up by a scan (and recorded, where its procurement has a state), unless the *)
(* anchor of that cursor no longer matches the chain, so that the next cycle *)
(* goes back (cursors move after their events, anchors after the cursors, and *)
(* the file after all of them).  A gap is where the first scan of a cursor at *)
(* 0 begins, and where a lower head moved a cursor forward.                   *)
Covers(s) ==
    \A k \in DOMAIN EventsOf :
        \/ Mismatch(s, k)
        \/ \A b \in DOMAIN blocks : s.since[k] <= b /\ b <= s.cursor[k] =>
              \A e \in blocks[b].events \cap EventsOf[k] : <<e, b>> \in noticed

NoEventSkipped == Covers(saved) /\ (memory # Unknown => Covers(memory))

(* A procurement whose last refresh is from a block that was replaced is     *)
(* refreshed again, as prime-monitor.js:6 says of all active procurements.   *)
RefreshGoesOn == Stale ~> ~Stale
=============================================================================
