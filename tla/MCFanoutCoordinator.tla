------------------------- MODULE MCFanoutCoordinator ------------------------
(* Instance of FanoutCoordinator for TLC.                                  *)
EXTENDS FanoutCoordinator

\* _normalize_stages in PARALLEL mode: the children in order, max_parallel at
\* a time.
ParallelStages(order, maxParallel) ==
  [i \in 1..((Len(order) + maxParallel - 1) \div maxParallel) |->
     {order[k] : k \in {n \in 1..Len(order) : (n - 1) \div maxParallel = i - 1}}]

ThreeChildren == {"a", "b", "c"}
TwoWaves == ParallelStages(<<"a", "b", "c">>, 2)

\* Two attempts of the first generation and one of the second; completions
\* without attempt and generation come from callers that know neither.
ThreeAttempts == {"x1", "x2", "y1"}
MintedIn == [a \in ThreeAttempts |-> IF a = "y1" THEN "g2" ELSE "g1"]
=============================================================================
