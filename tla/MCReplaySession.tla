-------------------------- MODULE MCReplaySession ---------------------------
(***************************************************************************)
(* Instances of the replay session: two symmetric sources.                 *)
(***************************************************************************)
EXTENDS ReplaySession, TLC

\* A gate that fails and passes.
GateVerdicts ==
  {[type |-> "gate_failed", on |-> "gate", outcome |-> Nothing],
   [type |-> "gate_passed", on |-> "gate", outcome |-> Nothing]}

Symmetry == Permutations(Sources)
=============================================================================
