---------------------------- MODULE StatusGraph ----------------------------
(***************************************************************************)
(* What the local state of a procurement promises: its status appears at    *)
(* discovery and from then on moves along VALID_TRANSITIONS only, one move  *)
(* at a time (agent/prime-phase-model.js).                                  *)
(***************************************************************************)
EXTENDS PrimePhases

VARIABLE status

Init == status = "ABSENT"

(* The first write of the file; a patch may already move on from DISCOVERED. *)
Discover ==
    /\ status = "ABSENT"
    /\ \/ status' = "DISCOVERED"
       \/ status' \in Status /\ IsValidTransition("DISCOVERED", status')

Move == /\ status \in Status
        /\ status' \in Status
        /\ IsValidTransition(status, status')

Next == Discover \/ Move

Spec == Init /\ [][Next]_status
=============================================================================
