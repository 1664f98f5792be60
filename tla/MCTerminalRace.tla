--------------------------- MODULE MCTerminalRace ---------------------------
(* Instance of TerminalRace for TLC.                                       *)
EXTENDS TerminalRace, TLC

CONSTANTS c1, c2

Signal(id, kind, node, gen, seq) ==
  [id |-> id, kind |-> kind, node |-> node, attempt |-> "a1", gen |-> gen, seq |-> seq]

\* Two signals of one sequence and different kinds, a later one, one of the
\* next generation, one of another attempt, one of another node, and one that
\* repeats an id with other content.
RaceSignals ==
  {Signal(1, "TIMEOUT", "n1", 1, 2), Signal(2, "CANCELLATION", "n1", 1, 2),
   Signal(3, "CHILD_TERMINAL", "n1", 1, 3), Signal(4, "LEASE_EXPIRY", "n1", 2, 3),
   [Signal(5, "TIMEOUT", "n1", 1, 3) EXCEPT !.attempt = "a2"],
   Signal(6, "CANCELLATION", "n2", 1, 3), Signal(1, "TIMEOUT", "n1", 1, 3)}

Symmetry == Permutations(Controllers)
=============================================================================
