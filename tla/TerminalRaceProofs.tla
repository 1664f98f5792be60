------------------------- MODULE TerminalRaceProofs -------------------------
(***************************************************************************)
(* The terminal race for any number of controllers, signals, deliveries    *)
(* and generations: one winner, of the current execution, never behind a   *)
(* better signal, and the same for everyone who saw the same signals.      *)
(***************************************************************************)
EXTENDS TerminalRace, TLAPS, WellFoundedInduction

\* The decision a controller holds was made from a prefix of its inbox, and
\* its winner comes before every signal of the same execution that is still
\* newer than the cursor.  The state it was resolved against may be gone.
HeldIsBest ==
  \A c \in Controllers :
    /\ Len(held[c].reasons) <= Len(inbox[c])
    /\ held[c].advancing =>
         /\ held[c].winner \in Resolved(c)
         /\ \A s \in Resolved(c) \ {held[c].winner} :
              /\ s.node = Node /\ s.attempt = Attempt /\ s.gen = held[c].winner.gen
              /\ s.seq > race.cursor
              => Before(held[c].winner, s)

Inv == TypeOK /\ HeldIsBest /\ OneTerminalWrite /\ WinnerIsCurrent

\* The absent winner is no signal.
LEMMA NoSignalNew == NoSignal \notin Signals
<1>1. DOMAIN NoSignal = {"none"}
  BY DEF NoSignal
<1> QED
  BY <1>1, SignalsAssumption

\* The fields _winner_key compares are numbers.
LEMMA SignalNumbers ==
  ASSUME NEW s \in Signals
  PROVE  s.id \in Nat /\ s.gen \in Nat /\ s.seq \in Nat /\ s.seq <= MaxSeq
                      /\ Priority[s.kind] \in Nat
<1>1. s.id \in Nat /\ s.gen \in Nat /\ s.seq \in 1..MaxSeq /\ s.kind \in Kinds
  BY SignalsAssumption
<1>2. \A k \in Kinds : Priority[k] \in Nat
  BY DEF Kinds, Priority
<1> QED
  BY <1>1, <1>2, BoundsAssumption

\* A nonempty set of naturals has a least member.
LEMMA LeastNatural ==
  ASSUME NEW T, T \subseteq Nat, T # {}
  PROVE  \E n \in T : \A m \in T : n <= m
<1>1. PICK n \in T : \A m \in T : ~(<<m, n>> \in OpToRel(<, Nat))
  BY NatLessThanWellFounded, WFMin
<1>2. \A m \in T : ~(m < n)
  BY <1>1 DEF OpToRel
<1> QED
  BY <1>2

\* Of two different signals with different ids, one comes first.
LEMMA BeforeAsymmetric ==
  ASSUME NEW s \in Signals, NEW t \in Signals, Before(s, t), Before(t, s)
  PROVE  FALSE
  BY SignalNumbers DEF Before

\* sorted(...)[0]: signals without conflicting ids have a first one.
LEMMA BestExists ==
  ASSUME NEW S, S \subseteq Signals, S # {},
         \A s, t \in S : s.id = t.id => s = t
  PROVE  Best(S) \in S /\ \A t \in S \ {Best(S)} : Before(Best(S), t)
<1> DEFINE Newest == {s \in S : \A t \in S : t.seq <= s.seq}
           Prior == {s \in Newest : \A t \in Newest : Priority[s.kind] <= Priority[t.kind]}
<1>1. Newest # {}
  <2>1. {MaxSeq - s.seq : s \in S} \subseteq Nat /\ {MaxSeq - s.seq : s \in S} # {}
    BY SignalNumbers, BoundsAssumption
  <2>2. PICK n \in {MaxSeq - s.seq : s \in S} : \A m \in {MaxSeq - s.seq : s \in S} : n <= m
    BY <2>1, LeastNatural
  <2>3. PICK s \in S : n = MaxSeq - s.seq
    OBVIOUS
  <2>4. ASSUME NEW t \in S PROVE t.seq <= s.seq
    <3>1. n <= MaxSeq - t.seq
      BY <2>2
    <3>2. s.seq \in Nat /\ t.seq \in Nat /\ MaxSeq \in Nat
      BY SignalNumbers, BoundsAssumption
    <3> QED
      BY <2>3, <3>1, <3>2
  <2> QED
    BY <2>4
<1>2. Prior # {}
  <2>1. {Priority[s.kind] : s \in Newest} \subseteq Nat /\ {Priority[s.kind] : s \in Newest} # {}
    BY <1>1, SignalNumbers
  <2>2. PICK n \in {Priority[s.kind] : s \in Newest} :
               \A m \in {Priority[s.kind] : s \in Newest} : n <= m
    BY <2>1, LeastNatural
  <2> QED
    BY <2>2
<1>3. PICK s \in Prior : \A t \in Prior : s.id <= t.id
  <2>1. {x.id : x \in Prior} \subseteq Nat /\ {x.id : x \in Prior} # {}
    BY <1>2, SignalNumbers
  <2>2. PICK n \in {x.id : x \in Prior} : \A m \in {x.id : x \in Prior} : n <= m
    BY <2>1, LeastNatural
  <2> QED
    BY <2>2
<1>4. \A t \in S \ {s} : Before(s, t)
  <2> SUFFICES ASSUME NEW t \in S \ {s} PROVE Before(s, t)
    OBVIOUS
  <2>1. s \in Signals /\ t \in Signals /\ s.id # t.id
    BY <1>3
  <2>2. t.seq <= s.seq
    BY <1>3
  <2>3. CASE t \notin Newest
    BY <1>3, <2>1, <2>2, <2>3, SignalNumbers DEF Before
  <2>4. CASE t \in Newest /\ t \notin Prior
    BY <1>3, <2>1, <2>2, <2>4, SignalNumbers DEF Before
  <2>5. CASE t \in Prior
    BY <1>3, <2>1, <2>2, <2>5, SignalNumbers DEF Before
  <2> QED
    BY <2>3, <2>4, <2>5
<1> QED
  BY <1>3, <1>4 DEF Best
-----------------------------------------------------------------------------
\* A signal that may compete is of the race's execution and newer than its
\* cursor.
LEMMA EligibleFacts ==
  ASSUME NEW s \in Signals, NEW r
  PROVE  /\ Mismatch(s, r) = "NONE" <=> s.node = Node /\ s.attempt = Attempt /\ s.gen = r.gen
         /\ Ineligible(s, r) = "NONE" <=> Mismatch(s, r) = "NONE" /\ ~(s.seq <= r.cursor)
  BY DEF Mismatch, Ineligible

\* What resolve_terminal_race returns.
LEMMA DecisionFacts ==
  ASSUME TypeOK, NEW c \in Controllers, ~Conflicting(c)
  PROVE  /\ Decision(c, race) \in Decisions
         /\ Len(Decision(c, race).reasons) = Len(inbox[c])
         /\ DOMAIN Decision(c, race).reasons = DOMAIN inbox[c]
         /\ Decision(c, race).advancing =>
              /\ Decision(c, race).winner \in Eligible(Seen(c), race)
              /\ \A t \in Eligible(Seen(c), race) \ {Decision(c, race).winner} :
                   Before(Decision(c, race).winner, t)
<1> DEFINE E == Eligible(Seen(c), race)
           open == race.winner = NoSignal /\ E # {}
           w == IF open THEN Select(c, race) ELSE race.winner
           rs == [k \in DOMAIN inbox[c] |-> ReasonOf(c, k, race, w)]
<1>1. Decision(c, race) = [advancing |-> open, winner |-> w, reasons |-> rs]
  BY DEF Decision
<1>2. inbox[c] \in Seq(Signals) /\ race.winner \in Winners
  BY DEF TypeOK
<1>3. Seen(c) \subseteq Signals
  BY <1>2 DEF Seen
<1>4. open => w \in E /\ \A t \in E \ {w} : Before(w, t)
  <2> SUFFICES ASSUME open PROVE w \in E /\ \A t \in E \ {w} : Before(w, t)
    OBVIOUS
  <2>1. E \subseteq Signals /\ E # {} /\ \A s, t \in E : s.id = t.id => s = t
    BY <1>3 DEF Eligible, Conflicting
  <2>2. w = Best(E)
    BY DEF Select
  <2> HIDE DEF E, w
  <2> QED
    BY <2>1, <2>2, BestExists
<1>5. w \in Winners
  BY <1>2, <1>3, <1>4 DEF Winners, Eligible
<1>6. \A k \in DOMAIN inbox[c] : ReasonOf(c, k, race, w) \in Reasons
  <2> HIDE DEF w
  <2>1. \A s : Ineligible(s, race) \in Reasons \cup {"NONE"}
    BY DEF Ineligible, Mismatch, Reasons
  <2> QED
    BY <2>1 DEF ReasonOf, Reasons
<1>7. DOMAIN inbox[c] = 1..Len(inbox[c]) /\ Len(inbox[c]) \in Nat
  BY <1>2
<1> HIDE DEF w, open
<1>8. rs \in Seq(Reasons) /\ Len(rs) = Len(inbox[c])
  <2>1. rs \in [1..Len(inbox[c]) -> Reasons]
    BY <1>6, <1>7
  <2> QED
    BY <2>1, <1>7
<1>9. open \in BOOLEAN
  BY DEF open
<1> HIDE DEF rs
<1>10. Decision(c, race) \in Decisions
  BY <1>1, <1>5, <1>8, <1>9 DEF Decisions
<1>11. DOMAIN rs = DOMAIN inbox[c]
  BY DEF rs
<1> QED
  BY <1>1, <1>4, <1>8, <1>10, <1>11

\* A decision was made from signals.
LEMMA ResolvedSignals ==
  ASSUME TypeOK, HeldIsBest, NEW c \in Controllers
  PROVE  Resolved(c) \subseteq Signals
<1>1. Len(held[c].reasons) <= Len(inbox[c]) /\ inbox[c] \in Seq(Signals)
      /\ held[c].reasons \in Seq(Reasons)
  BY DEF HeldIsBest, TypeOK, Decisions
<1>2. \A k \in DOMAIN held[c].reasons : inbox[c][k] \in Signals
  BY <1>1
<1> QED
  BY <1>2 DEF Resolved

\* The race starts open.
LEMMA InitInv == Init => Inv
<1> SUFFICES ASSUME Init PROVE Inv
  OBVIOUS
<1>1. TypeOK
  BY DEF Init, TypeOK, NoDecision, Decisions, Winners
<1>2. HeldIsBest
  <2>1. \A c \in Controllers : held[c] = NoDecision /\ inbox[c] = <<>>
    BY DEF Init
  <2>2. ~NoDecision.advancing /\ NoDecision.reasons = <<>>
    BY DEF NoDecision
  <2>3. Len(<<>>) <= Len(<<>>)
    OBVIOUS
  <2> QED
    BY <2>1, <2>2, <2>3 DEF HeldIsBest
<1> QED
  BY <1>1, <1>2 DEF Init, Inv, OneTerminalWrite, WinnerIsCurrent

\* A later delivery does not change what a decision was made from.
LEMMA DeliverInv ==
  ASSUME Inv, NEW c \in Controllers, NEW s \in Signals, Deliver(c, s)
  PROVE  Inv'
<1>1. inbox' = [inbox EXCEPT ![c] = Append(inbox[c], s)] /\ UNCHANGED <<race, held, writes>>
  BY DEF Deliver
<1>2. \A d \in Controllers : inbox[d] \in Seq(Signals)
  BY DEF Inv, TypeOK
<1>3. inbox' \in [Controllers -> Seq(Signals)]
  BY <1>1, <1>2 DEF Inv, TypeOK
<1>4. \A d \in Controllers :
        /\ Len(inbox[d]) <= Len(inbox'[d])
        /\ \A k \in 1..Len(inbox[d]) : inbox'[d][k] = inbox[d][k]
  BY <1>1, <1>2 DEF Inv, TypeOK
<1>5. HeldIsBest'
  <2> SUFFICES ASSUME NEW d \in Controllers
               PROVE  /\ Len(held[d].reasons) <= Len(inbox'[d])
                      /\ Resolved(d)' = Resolved(d)
    BY <1>1 DEF Inv, HeldIsBest
  <2>1. held[d].reasons \in Seq(Reasons)
    BY DEF Inv, TypeOK, Decisions
  <2>2. Len(held[d].reasons) <= Len(inbox[d])
    BY DEF Inv, HeldIsBest
  <2>3. Len(inbox[d]) \in Nat /\ Len(inbox'[d]) \in Nat /\ Len(held[d].reasons) \in Nat
        /\ DOMAIN held[d].reasons = 1..Len(held[d].reasons)
    BY <1>2, <1>3, <2>1
  <2>4. \A k \in DOMAIN held[d].reasons : inbox'[d][k] = inbox[d][k]
    BY <1>4, <2>2, <2>3
  <2> QED
    BY <1>1, <1>4, <2>2, <2>3, <2>4 DEF Resolved
<1> QED
  BY <1>1, <1>3, <1>5 DEF Inv, TypeOK, OneTerminalWrite, WinnerIsCurrent

\* A fresh decision is the best of the whole inbox.
LEMMA ResolveInv ==
  ASSUME Inv, NEW c \in Controllers, Resolve(c)
  PROVE  Inv'
<1>1. /\ held' = [held EXCEPT ![c] = Decision(c, race)]
      /\ UNCHANGED <<race, inbox, writes>> /\ ~Conflicting(c)
  BY DEF Resolve
<1>2. TypeOK
  BY DEF Inv
<1> DEFINE D == Decision(c, race)
<1>3. /\ D \in Decisions /\ Len(D.reasons) = Len(inbox[c])
      /\ DOMAIN D.reasons = DOMAIN inbox[c]
      /\ D.advancing => /\ D.winner \in Eligible(Seen(c), race)
                        /\ \A t \in Eligible(Seen(c), race) \ {D.winner} : Before(D.winner, t)
  BY <1>1, <1>2, DecisionFacts
<1> HIDE DEF D
<1>4. held'[c] = D /\ \A d \in Controllers : d # c => held'[d] = held[d]
  BY <1>1, <1>2 DEF TypeOK, D
<1>5. TypeOK'
  BY <1>1, <1>2, <1>3 DEF TypeOK, D
<1>6. HeldIsBest'
  <2>1. \A d \in Controllers : d # c => Resolved(d)' = Resolved(d)
    BY <1>1, <1>4 DEF Resolved
  <2>2. Resolved(c)' = Seen(c)
    BY <1>1, <1>3, <1>4 DEF Resolved, Seen
  <2>3. Seen(c) \subseteq Signals /\ Len(inbox[c]) \in Nat
    BY <1>2 DEF TypeOK, Seen
  <2>4. D.advancing =>
          /\ D.winner \in Seen(c)
          /\ \A s \in Seen(c) \ {D.winner} :
               /\ s.node = Node /\ s.attempt = Attempt /\ s.gen = D.winner.gen
               /\ s.seq > race.cursor
               => Before(D.winner, s)
    <3> SUFFICES ASSUME D.advancing
                 PROVE  /\ D.winner \in Seen(c)
                        /\ \A s \in Seen(c) \ {D.winner} :
                             /\ s.node = Node /\ s.attempt = Attempt /\ s.gen = D.winner.gen
                             /\ s.seq > race.cursor
                             => Before(D.winner, s)
      OBVIOUS
    <3>1. D.winner \in Seen(c) /\ D.winner.gen = race.gen
      BY <1>3, <2>3, EligibleFacts DEF Eligible
    <3>2. ASSUME NEW s \in Seen(c) \ {D.winner}, s.node = Node, s.attempt = Attempt,
                 s.gen = D.winner.gen, s.seq > race.cursor
          PROVE  Before(D.winner, s)
      <4>1. race.cursor \in Nat /\ s.seq \in Nat
        BY <1>2, <2>3, SignalNumbers DEF TypeOK
      <4>2. s \in Eligible(Seen(c), race)
        BY <2>3, <3>1, <3>2, <4>1, EligibleFacts DEF Eligible
      <4> QED
        BY <1>3, <4>2
    <3> QED
      BY <3>1, <3>2
  <2>5. \A d \in Controllers : d # c =>
          /\ Len(held'[d].reasons) <= Len(inbox'[d])
          /\ held'[d].advancing =>
               /\ held'[d].winner \in Resolved(d)'
               /\ \A s \in Resolved(d)' \ {held'[d].winner} :
                    /\ s.node = Node /\ s.attempt = Attempt /\ s.gen = held'[d].winner.gen
                    /\ s.seq > race'.cursor
                    => Before(held'[d].winner, s)
    BY <1>1, <1>4, <2>1 DEF Inv, HeldIsBest
  <2>6. Len(held'[c].reasons) <= Len(inbox'[c])
    BY <1>1, <1>3, <1>4, <2>3
  <2> QED
    BY <1>1, <1>4, <2>2, <2>4, <2>5, <2>6 DEF HeldIsBest
<1> QED
  BY <1>1, <1>5, <1>6 DEF Inv, OneTerminalWrite, WinnerIsCurrent

\* A commit clears one decision; the others are judged by the new cursor.
LEMMA CommitInv ==
  ASSUME Inv, NEW c \in Controllers, Commit(c)
  PROVE  Inv'
<1>1. /\ held' = [held EXCEPT ![c] = NoDecision] /\ UNCHANGED inbox
      /\ \/ /\ Committable(c)
            /\ race' = [race EXCEPT !.cursor = held[c].winner.seq, !.winner = held[c].winner]
            /\ writes' = Append(writes, held[c].winner)
         \/ UNCHANGED <<race, writes>>
  BY DEF Commit
<1>2. TypeOK /\ HeldIsBest /\ OneTerminalWrite /\ WinnerIsCurrent
  BY DEF Inv
<1>3. NoDecision \in Decisions /\ ~NoDecision.advancing /\ NoDecision.reasons = <<>>
  BY DEF NoDecision, Decisions, Winners
<1>4. held'[c] = NoDecision /\ \A d \in Controllers : d # c => held'[d] = held[d]
  BY <1>1, <1>2 DEF TypeOK
<1>5. Committable(c) => /\ held[c].winner \in Signals /\ race.winner = NoSignal
                        /\ held[c].winner.seq \in Nat /\ held[c].winner.seq > race.cursor
                        /\ Mismatch(held[c].winner, race) = "NONE"
  <2> SUFFICES ASSUME Committable(c)
               PROVE  /\ held[c].winner \in Signals /\ race.winner = NoSignal
                      /\ held[c].winner.seq \in Nat /\ held[c].winner.seq > race.cursor
                      /\ Mismatch(held[c].winner, race) = "NONE"
    OBVIOUS
  <2>1. held[c].winner \in Resolved(c) /\ Resolved(c) \subseteq Signals
    BY <1>2, ResolvedSignals DEF HeldIsBest, Committable
  <2>4. held[c].winner \in Signals
    BY <2>1
  <2> QED
    BY <2>4, SignalNumbers DEF Committable
<1>6. /\ race.cursor \in Nat /\ race'.cursor \in Nat /\ race.cursor <= race'.cursor
      /\ race'.gen = race.gen
      /\ race' \in [gen : Nat, cursor : Nat, winner : Winners] /\ writes' \in Seq(Signals)
  <2>1. race \in [gen : Nat, cursor : Nat, winner : Winners] /\ writes \in Seq(Signals)
    BY <1>2 DEF TypeOK
  <2>2. CASE UNCHANGED <<race, writes>>
    BY <2>1, <2>2
  <2>3. CASE /\ Committable(c)
             /\ race' = [race EXCEPT !.cursor = held[c].winner.seq, !.winner = held[c].winner]
             /\ writes' = Append(writes, held[c].winner)
    <3>1. /\ held[c].winner \in Signals /\ held[c].winner.seq \in Nat
          /\ held[c].winner.seq > race.cursor
      BY <1>5, <2>3
    <3>2. race' = [gen |-> race.gen, cursor |-> held[c].winner.seq, winner |-> held[c].winner]
      BY <2>1, <2>3
    <3>3. writes' \in Seq(Signals)
      BY <2>1, <2>3, <3>1
    <3>4. race.gen \in Nat /\ race.cursor \in Nat
      BY <2>1
    <3>5. race'.cursor = held[c].winner.seq /\ race'.gen = race.gen
      BY <3>2
    <3>6. race' \in [gen : Nat, cursor : Nat, winner : Winners]
      BY <3>1, <3>2, <3>4 DEF Winners
    <3> QED
      BY <3>1, <3>3, <3>4, <3>5, <3>6
  <2> QED
    BY <1>1, <2>2, <2>3
<1>7. TypeOK'
  <2>1. race' \in [gen : Nat, cursor : Nat, winner : Winners] /\ writes' \in Seq(Signals)
    BY <1>6
  <2>2. held' \in [Controllers -> Decisions]
    BY <1>1, <1>2, <1>3 DEF TypeOK
  <2> QED
    BY <1>1, <1>2, <2>1, <2>2 DEF TypeOK
<1>8. HeldIsBest'
  <2>1. \A d \in Controllers : d # c => Resolved(d)' = Resolved(d)
    BY <1>1, <1>4 DEF Resolved
  <2>2. Len(inbox[c]) \in Nat /\ Len(NoDecision.reasons) = 0
    BY <1>2, <1>3 DEF TypeOK
  <2>3. \A s \in Signals : s.seq > race'.cursor => s.seq > race.cursor
    BY <1>6, SignalNumbers
  <2>4. \A d \in Controllers : Resolved(d) \subseteq Signals
    BY <1>2, ResolvedSignals
  <2>5. ASSUME NEW d \in Controllers, d # c
        PROVE  /\ Len(held'[d].reasons) <= Len(inbox'[d])
               /\ held'[d].advancing =>
                    /\ held'[d].winner \in Resolved(d)'
                    /\ \A s \in Resolved(d)' \ {held'[d].winner} :
                         /\ s.node = Node /\ s.attempt = Attempt /\ s.gen = held'[d].winner.gen
                         /\ s.seq > race'.cursor
                         => Before(held'[d].winner, s)
    <3>1. \A s \in Resolved(d) : s.seq > race'.cursor => s.seq > race.cursor
      BY <2>3, <2>4, <2>5
    <3> QED
      BY <1>1, <1>2, <1>4, <2>1, <2>5, <3>1 DEF HeldIsBest
  <2>6. Len(held'[c].reasons) <= Len(inbox'[c]) /\ ~held'[c].advancing
    BY <1>1, <1>3, <1>4, <2>2
  <2> QED
    BY <2>5, <2>6 DEF HeldIsBest
<1>9. CASE UNCHANGED <<race, writes>>
  BY <1>2, <1>7, <1>8, <1>9 DEF Inv, OneTerminalWrite, WinnerIsCurrent
<1>10. CASE /\ Committable(c)
            /\ race' = [race EXCEPT !.cursor = held[c].winner.seq, !.winner = held[c].winner]
            /\ writes' = Append(writes, held[c].winner)
  <2>1. race'.winner = held[c].winner /\ race'.cursor = held[c].winner.seq
    BY <1>2, <1>10 DEF TypeOK
  <2>2. race'.winner # NoSignal
    BY <1>5, <1>10, <2>1, NoSignalNew
  <2>3. writes = <<>>
    BY <1>2, <1>5, <1>10 DEF OneTerminalWrite
  <2>4. OneTerminalWrite'
    BY <1>5, <1>10, <2>1, <2>2, <2>3 DEF OneTerminalWrite
  <2>5. WinnerIsCurrent'
    BY <1>5, <1>6, <1>10, <2>1, EligibleFacts DEF WinnerIsCurrent, Mismatch
  <2> QED
    BY <1>7, <1>8, <2>4, <2>5 DEF Inv
<1> QED
  BY <1>1, <1>9, <1>10

\* A takeover or another durable record moves the open race forward: what
\* still competes afterwards competed before.
LEMMA MoveInv ==
  ASSUME Inv, Takeover \/ AcceptRecord
  PROVE  Inv'
<1>1. UNCHANGED <<inbox, held, writes>> /\ race.winner = NoSignal
  BY DEF Takeover, AcceptRecord
<1>2. race \in [gen : Nat, cursor : Nat, winner : Winners]
  BY DEF Inv, TypeOK
<1>3. race' \in [gen : Nat, cursor : Nat, winner : Winners] /\ race'.winner = race.winner
      /\ race.cursor <= race'.cursor
  BY <1>2 DEF Takeover, AcceptRecord
<1>4. TypeOK'
  BY <1>1, <1>3 DEF Inv, TypeOK
<1>5. HeldIsBest'
  <2> SUFFICES ASSUME NEW d \in Controllers
               PROVE  /\ Resolved(d)' = Resolved(d)
                      /\ \A s \in Resolved(d) : s.seq > race'.cursor => s.seq > race.cursor
    BY <1>1 DEF Inv, HeldIsBest
  <2>3. Resolved(d) \subseteq Signals
    BY ResolvedSignals DEF Inv
  <2>4. \A s \in Resolved(d) : s.seq > race'.cursor => s.seq > race.cursor
    BY <1>2, <1>3, <2>3, SignalNumbers
  <2> QED
    BY <1>1, <2>4 DEF Resolved
<1> QED
  BY <1>1, <1>3, <1>4, <1>5 DEF Inv, OneTerminalWrite, WinnerIsCurrent

\* Every step keeps the invariant.
LEMMA NextInv == Inv /\ [Next]_vars => Inv'
<1> SUFFICES ASSUME Inv, [Next]_vars PROVE Inv'
  OBVIOUS
<1>1. CASE UNCHANGED vars
  BY <1>1 DEF Inv, TypeOK, HeldIsBest, OneTerminalWrite, WinnerIsCurrent, Resolved, vars
<1>2. CASE Next
  BY <1>2, DeliverInv, ResolveInv, CommitInv, MoveInv DEF Next
<1> QED
  BY <1>1, <1>2

\* The invariant holds in every behaviour.
LEMMA Invariance == Spec => []Inv
  BY InitInv, NextInv, PTL DEF Spec
-----------------------------------------------------------------------------
\* Every value commit_terminal_race and resolve_terminal_race produce has its
\* type; in particular sorted(...)[0] always has something to return.
THEOREM RaceTypes == Spec => []TypeOK
<1>1. Inv => TypeOK
  BY DEF Inv
<1> QED
  BY <1>1, Invariance, PTL

\* The race state is written at most once, by any number of controllers.
THEOREM OneWinner == Spec => []OneTerminalWrite
<1>1. Inv => OneTerminalWrite
  BY DEF Inv
<1> QED
  BY <1>1, Invariance, PTL

\* The committed winner is of the current node, attempt and generation.
THEOREM CurrentWinner == Spec => []WinnerIsCurrent
<1>1. Inv => WinnerIsCurrent
  BY DEF Inv
<1> QED
  BY <1>1, Invariance, PTL

\* Controllers that resolved the same signals, whenever and in whatever order
\* they came, hold the same winner.
THEOREM SameWinner == Spec => []AgreeOnWinner
<1>1. Inv => AgreeOnWinner
  <2> SUFFICES ASSUME Inv, NEW c \in Controllers, NEW d \in Controllers,
                      Committable(c), Committable(d), Resolved(c) = Resolved(d),
                      held[c].winner # held[d].winner
               PROVE  FALSE
    BY DEF AgreeOnWinner
  <2>1. held[c].winner \in Resolved(c) /\ held[d].winner \in Resolved(c)
    BY DEF Inv, HeldIsBest, Committable
  <2>2. Resolved(c) \subseteq Signals
    BY ResolvedSignals DEF Inv
  <2>3. /\ held[c].winner.node = Node /\ held[c].winner.attempt = Attempt
        /\ held[d].winner.node = Node /\ held[d].winner.attempt = Attempt
        /\ held[c].winner.gen = race.gen /\ held[d].winner.gen = race.gen
        /\ held[c].winner.seq > race.cursor /\ held[d].winner.seq > race.cursor
    BY <2>1, <2>2, EligibleFacts DEF Committable
  <2>4. Before(held[c].winner, held[d].winner)
    BY <2>1, <2>3 DEF Inv, HeldIsBest, Committable
  <2>5. Before(held[d].winner, held[c].winner)
    BY <2>1, <2>3 DEF Inv, HeldIsBest, Committable
  <2> QED
    BY <2>1, <2>2, <2>4, <2>5, BeforeAsymmetric
<1> QED
  BY <1>1, Invariance, PTL

\* No commit passes over a better signal its controller had seen.
THEOREM BestWins == Spec => NoBetterSeen
<1> DEFINE A == \A c \in Controllers :
       race'.winner # race.winner /\ held[c] # NoDecision /\ held'[c] = NoDecision =>
         /\ held[c].winner = race'.winner
         /\ \A s \in Eligible(Resolved(c), race) \ {race'.winner} : Before(race'.winner, s)
<1>1. Inv /\ [Next]_vars => [A]_vars
  <2> SUFFICES ASSUME Inv, Next, NEW c \in Controllers, race'.winner # race.winner,
                      held[c] # NoDecision, held'[c] = NoDecision
               PROVE  /\ held[c].winner = race'.winner
                      /\ \A s \in Eligible(Resolved(c), race) \ {race'.winner} :
                           Before(race'.winner, s)
    BY DEF A
  <2>1. race \in [gen : Nat, cursor : Nat, winner : Winners]
    BY DEF Inv, TypeOK
  <2>2. PICK d \in Controllers : Commit(d)
    BY <2>1 DEF Next, Resolve, Deliver, Takeover, AcceptRecord
  <2>3. d = c
    BY <2>2 DEF Inv, TypeOK, Commit
  <2>4. Committable(c) /\ race'.winner = held[c].winner
    BY <2>1, <2>2, <2>3 DEF Commit
  <2>5. Resolved(c) \subseteq Signals
    BY ResolvedSignals DEF Inv
  <2>6. ASSUME NEW s \in Eligible(Resolved(c), race) \ {race'.winner}
        PROVE  Before(race'.winner, s)
    <3>1. s \in Resolved(c) /\ s.node = Node /\ s.attempt = Attempt /\ s.gen = race.gen
          /\ ~(s.seq <= race.cursor)
      BY <2>5, EligibleFacts DEF Eligible
    <3>2. s.seq > race.cursor
      BY <2>1, <2>5, <3>1, SignalNumbers
    <3>3. held[c].winner \in Signals /\ held[c].winner.gen = race.gen
      BY <2>4, <2>5, EligibleFacts DEF Inv, HeldIsBest, Committable
    <3> QED
      BY <2>4, <2>6, <3>1, <3>2, <3>3 DEF Inv, HeldIsBest, Committable
  <2> QED
    BY <2>4, <2>6
<1> QED
  BY <1>1, Invariance, PTL DEF Spec, NoBetterSeen
=============================================================================
