---------------------------- MODULE DurableView ----------------------------
(***************************************************************************)
(* What a read-only projection of a durable event log promises, with no    *)
(* word about transports, promises or buffers: rows are only ever added to *)
(* the log; the view learns committed rows one at a time; and the only way *)
(* a row leaves the view is a reload, after which the view is exactly the  *)
(* log as it was at some moment.  The observer's own states therefore      *)
(* never show a row nobody committed, nor drop one row out of the middle.  *)
(***************************************************************************)
EXTENDS Naturals

VARIABLES
  log,    \* number of committed rows; a row is its position 1 .. log
  view    \* the rows the observer shows

Init ==
  /\ log \in Nat
  /\ view = {}

Commit ==
  /\ log' = log + 1
  /\ view' = view

Learn ==
  /\ \E row \in (1 .. log) \ view : view' = view \cup {row}
  /\ log' = log

Reload ==
  /\ \E n \in 0 .. log : view' = 1 .. n
  /\ log' = log

Next == Commit \/ Learn \/ Reload

Spec == Init /\ [][Next]_<<log, view>>
=============================================================================
