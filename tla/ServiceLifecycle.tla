-------------------------- MODULE ServiceLifecycle --------------------------
(***************************************************************************)
(* What the Service Control Manager, and so every client of the service,   *)
(* may see of one run of a polling PHP service: it starts, runs, is asked  *)
(* to stop and stops, in this order and without a step back.  A run may    *)
(* skip a phase, and it may end without the report of STOPPED, which the   *)
(* SCM shows as ABORTED.  Once it is stopping it does end.                 *)
(***************************************************************************)

VARIABLE state

Ends == {"STOPPED", "ABORTED"}

Later == [START_PENDING |-> {"RUNNING", "STOP_PENDING"} \cup Ends,
          RUNNING       |-> {"STOP_PENDING", "STOPPED"},
          STOP_PENDING  |-> Ends]

Init == state = "START_PENDING"

Advance == state \notin Ends /\ state' \in Later[state]

Finish == state = "STOP_PENDING" /\ state' \in Ends

Spec == Init /\ [][Advance]_state /\ WF_state(Finish)
=============================================================================
