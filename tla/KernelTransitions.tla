-------------------------- MODULE KernelTransitions --------------------------
(***************************************************************************)
(* The transition tables of taskcontroller/kernel/transitions.py.  Every   *)
(* status change of a run or of a node of its DAG is validated against     *)
(* these tables, by the event router, the lease manager and the journal's  *)
(* replay reducers alike.                                                  *)
(***************************************************************************)

NodeStatus == {"PENDING", "READY", "CLAIMED", "RUNNING", "REVIEWING", "MIXING",
               "DONE", "BLOCKED", "FAILED", "RETRY_READY", "LEASE_EXPIRED",
               "CANCELLED"}

RunStatus == {"CREATED", "PLANNED", "RUNNING", "PAUSED", "BLOCKED",
              "COMPLETED", "FAILED", "CANCELLED"}

RunTerminal == {"COMPLETED", "FAILED", "CANCELLED"}

NodeTransitions ==
  [s \in NodeStatus |->
     CASE s = "PENDING"       -> {"READY", "BLOCKED", "CANCELLED"}
       [] s = "READY"         -> {"CLAIMED", "CANCELLED"}
       [] s = "CLAIMED"       -> {"RUNNING", "CANCELLED", "LEASE_EXPIRED"}
       [] s = "RUNNING"       -> {"REVIEWING", "FAILED", "CANCELLED", "LEASE_EXPIRED"}
       [] s = "REVIEWING"     -> {"MIXING", "DONE", "FAILED", "RETRY_READY",
                                  "CANCELLED", "LEASE_EXPIRED"}
       [] s = "MIXING"        -> {"DONE", "FAILED", "RETRY_READY", "CANCELLED",
                                  "LEASE_EXPIRED"}
       [] s = "BLOCKED"       -> {"READY", "CANCELLED"}
       [] s = "FAILED"        -> {"RETRY_READY", "CANCELLED"}
       [] s = "RETRY_READY"   -> {"PENDING", "READY", "CANCELLED"}
       [] s = "LEASE_EXPIRED" -> {"RETRY_READY", "CANCELLED"}
       [] s \in {"DONE", "CANCELLED"} -> {}]

\* validate_node_transition: TRUE exactly when it does not raise.
ValidNodeTransition(current, target) ==
  current \in NodeStatus /\ target \in NodeTransitions[current]
=============================================================================
