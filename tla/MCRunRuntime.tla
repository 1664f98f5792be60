---------------------------- MODULE MCRunRuntime ----------------------------
(* Instances of RunRuntime for TLC.                                        *)
EXTENDS RunRuntime, TLC

CONSTANTS c1, c2, n1, a1, a2, l1, l2, t1, t2

OneCaller == {c1}
TwoCallers == {c1, c2}

OneAttempt == {a1}
TwoAttempts == {a1, a2}
SameNode == [a \in Attempts |-> n1]

Event(id, a, token, seq, type, target) ==
  [id |-> id, idem |-> NoIdem, att |-> a, node |-> n1, token |-> token, seq |-> seq,
   type |-> type, target |-> target]

\* A claimed node is started and completed by its executor; a later event
\* reuses the completion's idempotency key, another asks for DONE.
Lifecycle(a) ==
  {Event("start", a, t1, 0, "STATUS_CHANGE", "RUNNING"),
   [Event("done", a, t1, 1, "COMPLETED", "NONE") EXCEPT !.idem = "k"],
   [Event("again", a, t1, 2, "OTHER", "NONE") EXCEPT !.idem = "k"],
   Event("force", a, t1, 2, "STATUS_CHANGE", "DONE")}

RaceEvents == {Event("start", a1, t1, 0, "STATUS_CHANGE", "RUNNING"),
               Event("beat", a1, t2, 0, "OTHER", "NONE"),
               Event("odd", a1, t1, 0, "STATUS_CHANGE", "UNKNOWN")}

SeqEvents == Lifecycle(a1)

Claimed == [n \in Nodes |-> "CLAIMED"]

Symmetry == Permutations(LeaseIds) \cup Permutations(Callers)
=============================================================================
