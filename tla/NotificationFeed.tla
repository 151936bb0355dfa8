-------------------------- MODULE NotificationFeed --------------------------
(***************************************************************************)
(* Mission control's notifications (mission-control/server.js): a scan on   *)
(* start and every hour compares each procurement and job with what was     *)
(* last notified, tells the operator of what changed and saves the feed.    *)
(* The scan keeps the feed it loaded while it waits for Telegram, so a      *)
(* dismissal or another scan may come in between and is then saved over.    *)
(***************************************************************************)
EXTENDS Naturals, Sequences, FiniteSets, SequencesExt

CONSTANTS
    Nothing,
    Scans,          \* scans that may be under way at once
    Entities,       \* procurements and jobs
    EntityStatuses, \* what next_action.json and state.json say of one
    Attention,      \* the statuses a scan reports
    MaxFeed,        \* entries kept: 500 in the code
    MaxBrokenScans  \* bound

ASSUME FeedAssumption ==
    MaxFeed \in Nat \ {0} /\ MaxBrokenScans \in Nat /\ Attention \subseteq EntityStatuses

VARIABLES
    entity,   \* the status of each entity
    feed,     \* the notification state file: [last, entries]
    scan,     \* per scan: Nothing or [copy, todo] (the feed it loaded, what is left to tell)
    brokenScans

feedVars == <<entity, feed, scan, brokenScans>>

FeedInit ==
    /\ entity \in [Entities -> EntityStatuses]
    /\ feed = [last |-> [e \in Entities |-> Nothing], entries |-> <<>>]
    /\ scan = [s \in Scans |-> Nothing]
    /\ brokenScans = 0

(* Mutant: an entity is told of once.                                       *)
NewsOnce(copy) == {e \in Entities : entity[e] \in Attention /\ copy.last[e] = Nothing}

(* scanProcurementActions and scanJobActions, compared with what was last    *)
(* notified.                                                                *)
News(copy) == {e \in Entities : entity[e] \in Attention /\ copy.last[e] # entity[e]}

(* scanAndNotify: load and look at everything.                              *)
BeginScan(s) ==
    /\ scan[s] = Nothing
    /\ scan' = [scan EXCEPT ![s] = [copy |-> feed, todo |-> {<<e, entity[e]>> : e \in News(feed)}]]
    /\ UNCHANGED <<entity, feed, brokenScans>>

(* An entry is added to the copy, logged and sent; the scan waits for the    *)
(* answer, which changes nothing.                                           *)
Tell(s) ==
    /\ scan[s] # Nothing
    /\ \E item \in scan[s].todo : scan' = [scan EXCEPT
            ![s].todo = @ \ {item},
            ![s].copy.last[item[1]] = item[2],
            ![s].copy.entries = Append(@, [about |-> item, dismissed |-> FALSE])]
    /\ UNCHANGED <<entity, feed, brokenScans>>

Latest(entries) == SubSeq(entries, IF Len(entries) > MaxFeed THEN Len(entries) - MaxFeed + 1 ELSE 1, Len(entries))

(* saveNotifState: the copy, with the entries past the limit dropped.        *)
SaveScan(s) ==
    /\ scan[s] # Nothing /\ scan[s].todo = {}
    /\ feed' = [scan[s].copy EXCEPT !.entries = Latest(@)]
    /\ scan' = [scan EXCEPT ![s] = Nothing]
    /\ UNCHANGED <<entity, brokenScans>>

(* An error in a scan (a log that cannot be written) loses what it told.     *)
BreakScan(s) ==
    /\ scan[s] # Nothing /\ brokenScans < MaxBrokenScans
    /\ scan' = [scan EXCEPT ![s] = Nothing]
    /\ brokenScans' = brokenScans + 1
    /\ UNCHANGED <<entity, feed>>

(* POST /api/actions/:id/dismiss: loaded, changed and saved in one step.     *)
Dismiss == \E i \in DOMAIN feed.entries :
    /\ ~feed.entries[i].dismissed
    /\ feed' = [feed EXCEPT !.entries[i].dismissed = TRUE]
    /\ UNCHANGED <<entity, scan, brokenScans>>

EntityMoves(e) == \E v \in EntityStatuses \ {entity[e]} :
    /\ entity' = [entity EXCEPT ![e] = v]
    /\ UNCHANGED <<feed, scan, brokenScans>>

FeedNext ==
    \/ \E s \in Scans : BeginScan(s) \/ Tell(s) \/ SaveScan(s) \/ BreakScan(s)
    \/ Dismiss
    \/ \E e \in Entities : EntityMoves(e)

(* setInterval(scanAndNotify) begins a scan again and again, and a Telegram  *)
(* call is answered, fails or times out.                                    *)
FeedFairness ==
    \A s \in Scans : WF_feedVars(BeginScan(s)) /\ WF_feedVars(Tell(s)) /\ WF_feedVars(SaveScan(s))

---------------------------------------------------------------------------
(* What an entity settles on and needs attention for is notified in the end  *)
(* and stays so, however scans overlap, save over each other or break off    *)
(* (scanAndNotify compares with what was saved, and tells again).            *)
SettledIsTold ==
    \A e \in Entities, v \in Attention :
        <>[](entity[e] = v) => <>[](feed.last[e] = v)
=============================================================================
