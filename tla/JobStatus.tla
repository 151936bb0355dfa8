----------------------------- MODULE JobStatus -----------------------------
(***************************************************************************)
(* The statuses of an AGIJobManager job and the moves between them          *)
(* (agent/state.js).                                                        *)
(***************************************************************************)
EXTENDS Naturals

Terminal == {"completed", "disputed", "failed", "rejected", "expired", "skipped"}

Status ==
    {"queued", "scored", "application_pending_review", "applied", "assignment_pending",
     "assigned", "working", "deliverable_ready", "storage_pending", "storage_verified",
     "completion_package_ready", "publication_pending", "completion_pending_review",
     "submitted", "review_pending", "apply_ready", "watch"} \cup Terminal

AfterApplication == {"assigned", "rejected", "expired", "failed"}

(* VALID_TRANSITIONS: the statuses that have an entry, and the entry. *)
Allowed ==
    [queued                     |-> {"scored", "skipped"},
     scored                     |-> {"application_pending_review", "skipped"},
     application_pending_review |-> {"assignment_pending", "applied"} \cup AfterApplication,
     applied                    |-> {"assignment_pending"} \cup AfterApplication,
     assignment_pending         |-> AfterApplication,
     assigned                   |-> {"working", "deliverable_ready", "failed"},
     working                    |-> {"assigned", "deliverable_ready", "failed"},
     deliverable_ready          |-> {"storage_pending", "storage_verified", "publication_pending",
                                     "completion_pending_review", "failed"},
     storage_pending            |-> {"storage_verified", "failed", "deliverable_ready"},
     storage_verified           |-> {"completion_package_ready", "failed", "storage_pending"},
     completion_package_ready   |-> {"deliverable_ready", "storage_pending", "storage_verified",
                                     "failed"},
     publication_pending        |-> {"deliverable_ready", "completion_pending_review", "failed"},
     completion_pending_review  |-> {"submitted", "failed", "deliverable_ready"},
     submitted                  |-> {"completed", "disputed", "failed"},
     review_pending             |-> {"apply_ready", "rejected", "skipped"},
     apply_ready                |-> {"applied", "rejected", "skipped", "deliverable_ready"}]

(* A status without an entry (watch and the terminal ones) may go to any    *)
(* terminal status.                                                         *)
IsValidJobTransition(from, to) ==
    IF from \in DOMAIN Allowed THEN to \in Allowed[from] ELSE to \in Terminal
=============================================================================
