---------------------------- MODULE TerminalRace ----------------------------
(***************************************************************************)
(* Which terminal signal ends an execution (controlplane/terminal_race.py):*)
(* cancellation, timeout, lease expiry and the child's own result reach    *)
(* several controllers, in any order and more than once.  A controller     *)
(* resolves what it has seen against the race state it read, and commits   *)
(* its decision later, when another controller may have committed, a new   *)
(* lease generation may have started or the logical cursor may have moved. *)
(*                                                                         *)
(* terminal_race.py is pure; the record that holds the race state, and its *)
(* conditional write, are the caller's (external).  The order of the       *)
(* evidence list and the evidence references are left out.                 *)
(***************************************************************************)
EXTENDS Integers, Sequences

CONSTANTS Controllers,
          Signals,       \* the signals that may be raised, TerminalRaceSignal
          Node, Attempt, \* the run's node and attempt the race is about
          MaxArrivals,   \* bound: deliveries to one controller
          MaxGeneration, \* bound: lease generations
          MaxSeq         \* bound: logical sequence numbers

Kinds == {"CANCELLATION", "TIMEOUT", "LEASE_EXPIRY", "CHILD_TERMINAL"}

ASSUME SignalsAssumption ==
  \A s \in Signals : /\ DOMAIN s = {"id", "kind", "node", "attempt", "gen", "seq"}
                     /\ s.id \in Nat /\ s.kind \in Kinds
                     /\ s.gen \in Nat /\ s.seq \in 1..MaxSeq
ASSUME BoundsAssumption == MaxArrivals \in Nat /\ MaxGeneration \in Nat /\ MaxSeq \in Nat

VARIABLES race,   \* the current TerminalRaceState: generation, cursor, winner
          inbox,  \* controller -> the signals delivered to it, in order
          held,   \* controller -> the decision it has resolved, if any
          writes  \* history: the winners written to the race state

vars == <<race, inbox, held, writes>>

NoSignal == [none |-> TRUE]
NoDecision == [advancing |-> FALSE, winner |-> NoSignal, reasons |-> <<>>]

Reasons == {"WINNER", "DUPLICATE_SIGNAL", "FOREIGN_IDENTITY", "ATTEMPT_MISMATCH",
            "STALE_GENERATION", "STALE_SEQUENCE", "LATE_AFTER_COMMIT", "RACE_LOSER"}

Winners == Signals \cup {NoSignal}
Decisions == [advancing : BOOLEAN, winner : Winners, reasons : Seq(Reasons)]

TypeOK ==
  /\ race \in [gen : Nat, cursor : Nat, winner : Winners]
  /\ inbox \in [Controllers -> Seq(Signals)]
  /\ held \in [Controllers -> Decisions]
  /\ writes \in Seq(Signals)

Init ==
  /\ race = [gen |-> 1, cursor |-> 0, winner |-> NoSignal]
  /\ inbox = [c \in Controllers |-> <<>>]
  /\ held = [c \in Controllers |-> NoDecision]
  /\ writes = <<>>
-----------------------------------------------------------------------------
(* resolve_terminal_race.                                                  *)

Seen(c) == {inbox[c][k] : k \in DOMAIN inbox[c]}

\* _identity_mismatches, as _classify_ineligible orders them.
Mismatch(s, r) ==
  IF s.node # Node THEN "FOREIGN_IDENTITY"
  ELSE IF s.attempt # Attempt THEN "ATTEMPT_MISMATCH"
  ELSE IF s.gen # r.gen THEN "STALE_GENERATION" ELSE "NONE"

\* _classify_ineligible.
Ineligible(s, r) ==
  IF Mismatch(s, r) # "NONE" THEN Mismatch(s, r)
  ELSE IF s.seq <= r.cursor THEN "STALE_SEQUENCE" ELSE "NONE"

Eligible(S, r) == {s \in S : Ineligible(s, r) = "NONE"}

\* _SIGNAL_PRIORITY.
Priority == [k \in Kinds |-> CASE k = "CANCELLATION" -> 0 [] k = "TIMEOUT" -> 1
                               [] k = "LEASE_EXPIRY" -> 2 [] k = "CHILD_TERMINAL" -> 3]

\* The order of _winner_key.
Before(s, t) ==
  \/ s.seq > t.seq
  \/ s.seq = t.seq /\ Priority[s.kind] < Priority[t.kind]
  \/ s.seq = t.seq /\ Priority[s.kind] = Priority[t.kind] /\ s.id < t.id

Best(S) == CHOOSE s \in S : \A t \in S \ {s} : Before(s, t)

\* Mutant: the kind decides before the sequence.
Select_ByKind(c, r) ==
  LET E == Eligible(Seen(c), r)
  IN  Best({s \in E : \A t \in E : Priority[s.kind] <= Priority[t.kind]})

\* Mutant: the first eligible signal to arrive.
Select_FirstArrived(c, r) ==
  LET k == CHOOSE k \in DOMAIN inbox[c] :
             /\ Ineligible(inbox[c][k], r) = "NONE"
             /\ \A j \in 1..(k - 1) : Ineligible(inbox[c][j], r) # "NONE"
  IN  inbox[c][k]

\* sorted(eligible, key=_winner_key)[0].
Select(c, r) == Best(Eligible(Seen(c), r))

\* A signal_id that came with two contents raises IDEMPOTENCY_CONFLICT.
Conflicting(c) == \E s, t \in Seen(c) : s.id = t.id /\ s # t

\* Mutant: a signal that loses leaves no evidence.
ReasonOf_NoLoser(c, k, r, w) ==
  LET s == inbox[c][k]
  IN  IF \E j \in 1..(k - 1) : inbox[c][j] = s THEN "DUPLICATE_SIGNAL"
      ELSE IF r.winner # NoSignal
           THEN IF s = r.winner THEN "DUPLICATE_SIGNAL"
                ELSE IF Ineligible(s, r) # "NONE" THEN Ineligible(s, r)
                ELSE "LATE_AFTER_COMMIT"
      ELSE IF s = w THEN "WINNER" ELSE Ineligible(s, r)

\* The reason of the k-th delivery: the ids already seen are duplicates.
ReasonOf(c, k, r, w) ==
  LET s == inbox[c][k]
  IN  IF \E j \in 1..(k - 1) : inbox[c][j] = s THEN "DUPLICATE_SIGNAL"
      ELSE IF r.winner # NoSignal
           THEN IF s = r.winner THEN "DUPLICATE_SIGNAL"
                ELSE IF Ineligible(s, r) # "NONE" THEN Ineligible(s, r)
                ELSE "LATE_AFTER_COMMIT"
      ELSE IF Ineligible(s, r) # "NONE" THEN Ineligible(s, r)
      ELSE IF s = w THEN "WINNER" ELSE "RACE_LOSER"

\* The decision: the committed winner, the best eligible signal, or none.
Decision(c, r) ==
  LET open == r.winner = NoSignal /\ Eligible(Seen(c), r) # {}
      w == IF open THEN Select(c, r) ELSE r.winner
  IN  [advancing |-> open, winner |-> w,
       reasons |-> [k \in DOMAIN inbox[c] |-> ReasonOf(c, k, r, w)]]

Resolve(c) ==
  /\ inbox[c] # <<>>
  /\ ~Conflicting(c)
  /\ held' = [held EXCEPT ![c] = Decision(c, race)]
  /\ UNCHANGED <<race, inbox, writes>>
-----------------------------------------------------------------------------
(* commit_terminal_race.                                                   *)

\* Mutant: the state is not looked at again.
Committable_Blind(c) == held[c].advancing

\* Mutant: the sequence is compared, the committed winner and the identity
\* are not.
Committable_CursorOnly(c) == held[c].advancing /\ held[c].winner.seq > race.cursor

\* The checks against the state the caller commits to.
Committable(c) ==
  /\ held[c].advancing
  /\ race.winner = NoSignal
  /\ Mismatch(held[c].winner, race) = "NONE"
  /\ held[c].winner.seq > race.cursor

Commit(c) ==
  /\ held[c] # NoDecision
  /\ held' = [held EXCEPT ![c] = NoDecision]
  /\ IF Committable(c)
     THEN /\ race' = [race EXCEPT !.cursor = held[c].winner.seq, !.winner = held[c].winner]
          /\ writes' = Append(writes, held[c].winner)
     ELSE UNCHANGED <<race, writes>>
  /\ UNCHANGED inbox
-----------------------------------------------------------------------------
(* External: delivery of signals, a takeover, other durable records.       *)

Deliver(c, s) ==
  /\ Len(inbox[c]) < MaxArrivals
  /\ inbox' = [inbox EXCEPT ![c] = Append(@, s)]
  /\ UNCHANGED <<race, held, writes>>

Takeover ==
  /\ race.winner = NoSignal
  /\ race.gen < MaxGeneration
  /\ race' = [race EXCEPT !.gen = @ + 1]
  /\ UNCHANGED <<inbox, held, writes>>

AcceptRecord ==
  /\ race.winner = NoSignal
  /\ race.cursor < MaxSeq
  /\ race' = [race EXCEPT !.cursor = @ + 1]
  /\ UNCHANGED <<inbox, held, writes>>

Next ==
  \/ \E c \in Controllers : Resolve(c) \/ Commit(c) \/ \E s \in Signals : Deliver(c, s)
  \/ Takeover
  \/ AcceptRecord

Spec == Init /\ [][Next]_vars
-----------------------------------------------------------------------------
\* One terminal winner: however many controllers resolved before the first
\* commit, and whatever arrives after it, the race state is written once.
OneTerminalWrite ==
  writes = IF race.winner = NoSignal THEN <<>> ELSE <<race.winner>>

\* The committed winner belongs to the execution that is current, although the
\* decision was made on an older state, and it is the last sequence accepted:
\* what TerminalRaceState.__post_init__ raises on never happens.
WinnerIsCurrent ==
  race.winner # NoSignal =>
    Mismatch(race.winner, race) = "NONE" /\ race.cursor = race.winner.seq

\* The signals the decision of c was made from.
Resolved(c) == {inbox[c][k] : k \in DOMAIN held[c].reasons}

\* A commit never passes over a better signal: of what its controller had
\* seen, everything that may still compete in the state it commits to comes
\* after the winner (highest sequence, then priority, then signal id).
NoBetterSeen ==
  [][\A c \in Controllers :
       race'.winner # race.winner /\ held[c] # NoDecision /\ held'[c] = NoDecision =>
         /\ held[c].winner = race'.winner
         /\ \A s \in Eligible(Resolved(c), race) \ {race'.winner} : Before(race'.winner, s)]_vars

\* Controllers that saw the same signals, in any order, with any duplicates
\* and at different times, want to commit the same winner.
AgreeOnWinner ==
  \A c, d \in Controllers :
    Committable(c) /\ Committable(d) /\ Resolved(c) = Resolved(d)
      => held[c].winner = held[d].winner
=============================================================================
