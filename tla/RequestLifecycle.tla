-------------------------- MODULE RequestLifecycle --------------------------
(***************************************************************************)
(* What the request workflow promises of the status of one request: it     *)
(* moves along the edges of requests/state_machine.py, each move taken     *)
(* from a status the request really had at some time.                      *)
(*                                                                         *)
(* The handlers read the row, decide and write it back without a lock, so  *)
(* the status a move departs from may no longer be the current one.        *)
(***************************************************************************)
VARIABLES
    status,  \* requests.status, or "none" before the request is filed
    past     \* every status the request has had

Statuses == {"submitted", "manager_approved", "manager_rejected", "hr_approved",
             "hr_rejected", "admin_approved", "admin_rejected", "cancelled"}

Terminal == Statuses \ {"submitted", "manager_approved"}

Edges == ({"submitted"} \X {"cancelled", "manager_approved", "manager_rejected"})
         \cup ({"manager_approved"} \X {"hr_approved", "hr_rejected"})
         \cup (Statuses \X {"admin_approved", "admin_rejected"})

Init == status = "none" /\ past = {}

Submit == status = "none" /\ status' = "submitted" /\ past' = {"submitted"}

Move == \E edge \in Edges :
          /\ edge[1] \in past
          /\ status' = edge[2]
          /\ past' = past \cup {edge[2]}

Next == Submit \/ Move

Spec == Init /\ [][Next]_<<status, past>>

\* HR acts only on a request a manager has approved, whatever races: the
\* "HR can only act after the manager has approved" of hr_decide.
ManagerBeforeHR ==
    past \cap {"hr_approved", "hr_rejected"} # {} => "manager_approved" \in past
=============================================================================
