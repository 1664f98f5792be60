---------------------------- MODULE MCRunRecovery ----------------------------
(* Instances of RunRecovery for TLC.                                       *)
EXTENDS RunRecovery, TLC

CONSTANTS c1, n1, a1, l1, l2, t1, t2

SameNode == [a \in Attempts |-> n1]
Claimed == [n \in Nodes |-> "CLAIMED"]

\* A producer starts its node and completes it; "retry" repeats the
\* idempotency key of the start at the next sequence number, and "beat" is an
\* event the reducers would take any number of times.
ProducerEvents ==
  {[id |-> "beat", idem |-> NoIdem, att |-> a1, node |-> n1, token |-> t1, seq |-> 0,
    type |-> "OTHER", target |-> "NONE"],
   [id |-> "start", idem |-> "k", att |-> a1, node |-> n1, token |-> t1, seq |-> 0,
    type |-> "STATUS_CHANGE", target |-> "RUNNING"],
   [id |-> "retry", idem |-> "k", att |-> a1, node |-> n1, token |-> t1, seq |-> 1,
    type |-> "OTHER", target |-> "NONE"],
   [id |-> "done", idem |-> NoIdem, att |-> a1, node |-> n1, token |-> t1, seq |-> 1,
    type |-> "COMPLETED", target |-> "NONE"]}

Symmetry == Permutations(LeaseIds)
=============================================================================
