---------------------- MODULE FanoutCoordinatorProofs -----------------------
(***************************************************************************)
(* The fan-out coordinator for any plan, attempts, generations and any     *)
(* order of completions and retries: only the current generation and       *)
(* attempts join, evidence is kept, and a join that waits has an open      *)
(* child.                                                                  *)
(***************************************************************************)
EXTENDS FanoutCoordinator, TLAPS, WellFoundedInduction

\* A joined completion is of the attempt its child is bound to, and carries
\* the generation the attempt was minted for.
JoinedIsBound ==
  \A c \in Children : ~Missing(c) =>
    /\ completions[c].child = c /\ completions[c].attempt = attempt[c]
    /\ completions[c].gen = MintedFor(attempt[c])

\* Generations are left once and for all; what is bound or retired was minted
\* for the present or a former one, and a child with a retired attempt of the
\* present generation is bound to another one.
Retirement ==
  /\ gen \notin left
  /\ gen = None => left = {}
  /\ \A c \in Children : attempt[c] # None => GenOf[attempt[c]] \in left \cup {gen}
  /\ \A c \in Children, x \in Attempts : <<c, x>> \in retired =>
       /\ GenOf[x] \in left \cup {gen}
       /\ GenOf[x] = gen => attempt[c] # None /\ attempt[c] # x

Inv == TypeOK /\ OneGenerationJoins /\ JoinedIsBound /\ Retirement

\* _record_stale and retry_child turn completions into completions.
LEMMA EvidenceTyped ==
  ASSUME NEW m \in Completion
  PROVE  /\ AsEvidence(m) \in Completion
         /\ AsEvidence(m).child = m.child
         /\ AsEvidence(m).attempt = m.attempt
  BY StatusAssumption DEF AsEvidence, Completion

\* complete of a late completion touches the evidence only.
LEMMA RecordStaleKeeps ==
  ASSUME Inv, NEW m \in Messages, RecordStale(m)
  PROVE  Inv'
<1>1. m \in Completion
  BY DEF Messages
<1>2. UNCHANGED <<completions, gen, attempt, retired, left>> /\ stale' = stale \cup {AsEvidence(m)}
  BY DEF RecordStale
<1>3. TypeOK'
  BY <1>1, <1>2, EvidenceTyped DEF Inv, TypeOK
<1>4. OneGenerationJoins' /\ JoinedIsBound' /\ Retirement'
  BY <1>2 DEF Inv, OneGenerationJoins, JoinedIsBound, Retirement, Missing, MintedFor
<1> QED
  BY <1>3, <1>4 DEF Inv

\* complete of a current one.
LEMMA AcceptKeeps ==
  ASSUME Inv, NEW m \in Messages, Accept(m)
  PROVE  Inv'
<1> USE DEF Inv
<1> DEFINE c == m.child
<1>1. /\ m \in Completion /\ c \in Children /\ m # None
      /\ m.gen = MintedFor(m.attempt)
      /\ m.gen \in Generations \cup {None} /\ m.attempt \in Attempts \cup {None}
      /\ m.gen = None => m.plan = "this"
  BY NoneAssumption DEF Messages, Completion
<1>2. /\ Missing(c) /\ Eligible(m) /\ attempt[c] \in {None, m.attempt}
      /\ completions' = [completions EXCEPT ![c] = m]
      /\ gen' = IF Bound(m) THEN m.gen ELSE gen
      /\ attempt' = IF m.attempt = None THEN attempt ELSE [attempt EXCEPT ![c] = m.attempt]
      /\ left' = IF gen' = gen THEN left ELSE left \cup {gen}
      /\ stale' = stale /\ retired' = retired
      /\ Constructible(completions', gen', attempt', stale)
  BY DEF Accept, Late
<1>3. gen \in {None, gen'} /\ gen' = m.gen
  BY <1>2 DEF Eligible, Bound
<1>4. TypeOK'
  BY <1>1, <1>2, <1>3 DEF TypeOK
<1>5. attempt'[c] = m.attempt /\ \A d \in Children \ {c} : attempt'[d] = attempt[d]
  BY <1>1, <1>2 DEF TypeOK
<1>6. completions'[c] = m /\ \A d \in Children \ {c} : completions'[d] = completions[d]
  BY <1>1, <1>2 DEF TypeOK
<1>7. OneGenerationJoins'
  <2> SUFFICES ASSUME NEW d \in Children, completions'[d] # None
               PROVE  completions'[d].gen = gen' /\ (gen' # None => completions'[d].plan = "this")
    BY DEF OneGenerationJoins, Missing
  <2>1. CASE gen' # None
    BY <1>2, <2>1 DEF Constructible
  <2>2. CASE gen' = None
    BY <1>3, <1>6, <2>2 DEF OneGenerationJoins, Missing
  <2> QED
    BY <2>1, <2>2
<1>8. JoinedIsBound'
  BY <1>1, <1>5, <1>6 DEF JoinedIsBound, Missing, MintedFor
<1>9. Retirement'
  <2>1. gen' \notin left' /\ (gen' = None => left' = {})
    BY <1>2, <1>3 DEF Retirement
  <2>2. left \cup {gen} \subseteq left' \cup {gen'}
    BY <1>2
  <2>3. ASSUME NEW d \in Children, attempt'[d] # None
        PROVE  GenOf[attempt'[d]] \in left' \cup {gen'}
    BY <1>1, <1>3, <1>5, <2>2, <2>3 DEF Retirement, MintedFor
  <2>4. ASSUME NEW d \in Children, NEW x \in Attempts, <<d, x>> \in retired'
        PROVE  /\ GenOf[x] \in left' \cup {gen'}
               /\ GenOf[x] = gen' => attempt'[d] # None /\ attempt'[d] # x
    <3>1. GenOf[x] \in left \cup {gen} /\ (GenOf[x] = gen => attempt[d] # None /\ attempt[d] # x)
      BY <1>2, <2>4 DEF Retirement
    <3>2. CASE gen' = gen
      BY <1>2, <1>5, <2>2, <3>1, <3>2
    <3>3. CASE gen' # gen
      <4>1. gen = None /\ left = {} /\ GenOf[x] = None
        BY <1>3, <3>1, <3>3 DEF Retirement
      <4> QED
        BY <2>2, <3>1, <3>3, <4>1
    <3> QED
      BY <3>2, <3>3
  <2> QED
    BY <2>1, <2>3, <2>4 DEF Retirement
<1> QED
  BY <1>4, <1>7, <1>8, <1>9

\* retry_child.
LEMMA RetryKeeps ==
  ASSUME Inv, NEW c \in Children, NEW a \in Attempts, Retry(c, a, GenOf[a])
  PROVE  Inv'
<1> USE DEF Inv
<1> DEFINE g == GenOf[a]
<1>1. /\ <<c, a>> \notin retired /\ g \notin left /\ CurrentAttempt(c) # a
      /\ completions' = [x \in Children |-> IF x \in Moved(c, g) THEN None ELSE completions[x]]
      /\ gen' = g
      /\ attempt' = Rebound(c, a, g)
      /\ stale' = stale \cup Shelved(c, g)
      /\ retired' = retired \cup {<<c, x>> : x \in {CurrentAttempt(c)} \ {None}}
      /\ left' = IF g = gen THEN left ELSE left \cup {gen}
      /\ g = gen \/ g # None
  BY DEF Retry
<1>2. a # None /\ g \in Generations \cup {None}
  BY IdentityAssumption
<1>3. CurrentAttempt(c) = attempt[c] /\ attempt[c] \in Attempts \cup {None}
  BY DEF CurrentAttempt, JoinedIsBound, TypeOK
<1>4. Shelved(c, g) \subseteq Completion
  <2> SUFFICES ASSUME NEW y \in Children, ~Missing(y)
               PROVE  AsEvidence(completions[y]) \in Completion
    BY DEF Shelved, Moved
  <2> QED
    BY EvidenceTyped DEF TypeOK, Missing
<1>5. TypeOK'
  BY <1>1, <1>2, <1>3, <1>4 DEF TypeOK, Rebound
<1>6. \A d \in Children :
        /\ attempt'[d] = IF d = c THEN a ELSE IF g # gen THEN None ELSE attempt[d]
        /\ completions'[d] # None => completions'[d] = completions[d] /\ d # c /\ g = gen
  BY <1>1 DEF Rebound, Moved
<1>7. OneGenerationJoins' /\ JoinedIsBound'
  BY <1>1, <1>6 DEF OneGenerationJoins, JoinedIsBound, Missing, MintedFor
<1>8. gen' \notin left' /\ (gen' = None => left' = {})
  BY <1>1 DEF Retirement
<1>9. left \cup {gen} \subseteq left' \cup {gen'}
  BY <1>1
<1>10. ASSUME NEW d \in Children, attempt'[d] # None
       PROVE  GenOf[attempt'[d]] \in left' \cup {gen'}
  BY <1>1, <1>6, <1>9, <1>10 DEF Retirement
<1>11. ASSUME NEW d \in Children, NEW x \in Attempts, <<d, x>> \in retired'
       PROVE  /\ GenOf[x] \in left' \cup {gen'}
              /\ GenOf[x] = gen' => attempt'[d] # None /\ attempt'[d] # x
  <2>1. CASE <<d, x>> \in retired
    <3>1. GenOf[x] \in left \cup {gen} /\ (GenOf[x] = gen => attempt[d] # None /\ attempt[d] # x)
      BY <2>1 DEF Retirement
    <3>2. GenOf[x] = gen' => g = gen
      BY <1>1, <3>1
    <3>3. d = c => x # a
      BY <1>1, <2>1
    <3> QED
      BY <1>1, <1>2, <1>6, <1>9, <3>1, <3>2, <3>3
  <2>2. CASE <<d, x>> \notin retired
    <3>1. d = c /\ x = attempt[c] /\ x # a
      BY <1>1, <1>3, <1>11, <2>2
    <3> QED
      BY <1>2, <1>6, <1>9, <3>1, IdentityAssumption DEF Retirement
  <2> QED
    BY <2>1, <2>2
<1> QED
  BY <1>5, <1>7, <1>8, <1>10, <1>11 DEF Retirement

\* The invariant holds throughout.
LEMMA InvHolds == Spec => []Inv
<1>1. Init => Inv
  <2> SUFFICES ASSUME Init PROVE Inv
    OBVIOUS
  <2>1. TypeOK
    BY DEF Init, TypeOK
  <2>2. OneGenerationJoins /\ JoinedIsBound
    BY DEF Init, OneGenerationJoins, JoinedIsBound, Missing
  <2>3. Retirement
    BY DEF Init, Retirement
  <2> QED
    BY <2>1, <2>2, <2>3 DEF Inv
<1>2. Inv /\ [Next]_vars => Inv'
  <2> SUFFICES ASSUME Inv, [Next]_vars PROVE Inv'
    OBVIOUS
  <2>1. CASE UNCHANGED vars
    BY <2>1 DEF vars, Inv, TypeOK, OneGenerationJoins, JoinedIsBound, Retirement, Missing
  <2>2. CASE Next
    BY <2>2, RecordStaleKeeps, AcceptKeeps, RetryKeeps DEF Next
  <2> QED
    BY <2>1, <2>2
<1> QED
  BY <1>1, <1>2, PTL DEF Spec

\* Snapshots stay well formed: what every operation of the coordinator
\* returns is a coordinator.
THEOREM FanoutTypes == Spec => []TypeOK
  BY InvHolds, PTL DEF Inv

\* No result of a replaced attempt or of a former generation ever joins,
\* for any number of children, retries and generations (complete).
THEOREM NoLateJoin == Spec => []SupersededStaysOut
<1>1. Inv => SupersededStaysOut
  <2> SUFFICES ASSUME Inv, NEW c \in Children, ~Missing(c)
               PROVE  <<c, completions[c].attempt>> \notin retired /\ completions[c].gen \notin left
    BY DEF SupersededStaysOut
  <2>1. completions[c].gen = gen /\ completions[c].attempt = attempt[c] /\ gen \notin left
        /\ gen = MintedFor(attempt[c])
    BY DEF Inv, OneGenerationJoins, JoinedIsBound, Retirement
  <2>2. ASSUME <<c, attempt[c]>> \in retired PROVE FALSE
    <3>1. attempt[c] \in Attempts
      BY <2>2 DEF Inv, TypeOK
    <3> QED
      BY <2>1, <2>2, <3>1, IdentityAssumption DEF Inv, Retirement, MintedFor
  <2> QED
    BY <2>1, <2>2
<1> QED
  BY <1>1, InvHolds, PTL

\* All that joins is of one generation and of this plan (__post_init__).
THEOREM JoinIsCurrent == Spec => []OneGenerationJoins
  BY InvHolds, PTL DEF Inv

\* A nonempty set of stage numbers has a least one.
LEMMA FirstStage ==
  ASSUME NEW T, T \subseteq Nat, T # {}
  PROVE  \E n \in T : \A k \in T : n <= k
<1>1. PICK n \in T : \A k \in T : ~(<<k, n>> \in OpToRel(<, Nat))
  BY NatLessThanWellFounded, WFMin
<1>2. \A k \in T : ~(k < n)
  BY <1>1 DEF OpToRel
<1> QED
  BY <1>2

\* A join that waits has an open child; one that is READY has none
\* (dispatch_window, join), whatever the stages.
THEOREM WaveOpen == Spec => []NoStuckWave
<1>1. NoStuckWave
  <2>1. ASSUME Join = "NOT_READY" PROVE Window # {}
    <3> DEFINE T == {i \in DOMAIN Stages : \E c \in Stages[i] : Missing(c)}
    <3>1. (\A c \in Children : ~Failed(c)) /\ \E c \in Children : Missing(c)
      BY <2>1 DEF Join
    <3>2. DOMAIN Stages \subseteq Nat /\ \A i \in DOMAIN Stages : Stages[i] \subseteq Children
      BY StagesAssumption
    <3>3. T # {} /\ T \subseteq Nat
      BY <3>1, <3>2, StagesAssumption
    <3>4. PICK n \in T : \A k \in T : n <= k
      BY <3>3, FirstStage
    <3>5. PICK c \in Stages[n] : Missing(c)
      OBVIOUS
    <3>6. ASSUME NEW j \in 1..(n - 1), NEW d \in Stages[j] PROVE Succeeded(d)
      <4>1. DOMAIN Stages = 1..Len(Stages) /\ Len(Stages) \in Nat
        BY StagesAssumption
      <4>2. j \in DOMAIN Stages /\ ~(n <= j)
        BY <3>3, <3>4, <4>1
      <4>3. ~Missing(d) /\ ~Failed(d)
        BY <3>1, <3>2, <3>4, <4>2
      <4> QED
        BY <4>3 DEF Missing, Failed, Succeeded
    <3>7. c \in Children /\ Open(c)
      BY <3>1, <3>2, <3>4, <3>5, <3>6 DEF Open
    <3> QED
      BY <3>7 DEF Window
  <2>2. ASSUME Join = "READY" PROVE Window = {}
    BY <2>2 DEF Join, Window, Open
  <2> QED
    BY <2>1, <2>2 DEF NoStuckWave
<1> QED
  BY <1>1, PTL

\* What stops joining stays on record under its child and attempt, and no
\* record disappears (retry_child, _record_stale).
THEOREM EvidenceStays == Spec => EvidenceKept
<1> DEFINE Kept ==
      /\ stale \subseteq stale'
      /\ \A c \in Children : ~Missing(c) /\ completions'[c] # completions[c] =>
           \E s \in stale' : s.child = c /\ s.attempt = completions[c].attempt
<1>1. Inv /\ [Next]_vars => [Kept]_vars
  <2> SUFFICES ASSUME Inv, Next PROVE Kept
    BY DEF vars
  <2>1. CASE \E m \in Messages : RecordStale(m)
    BY <2>1 DEF RecordStale
  <2>2. CASE \E m \in Messages : Accept(m)
    <3>1. PICK m \in Messages : Accept(m)
      BY <2>2
    <3>2. stale' = stale /\ Missing(m.child) /\ completions' = [completions EXCEPT ![m.child] = m]
      BY <3>1 DEF Accept
    <3> QED
      BY <3>2 DEF Inv, TypeOK
  <2>3. CASE \E c \in Children, a \in Attempts : Retry(c, a, GenOf[a])
    <3>1. PICK c \in Children, a \in Attempts : Retry(c, a, GenOf[a])
      BY <2>3
    <3>2. /\ stale' = stale \cup Shelved(c, GenOf[a])
          /\ completions' = [x \in Children |-> IF x \in Moved(c, GenOf[a]) THEN None ELSE completions[x]]
      BY <3>1 DEF Retry
    <3> SUFFICES ASSUME NEW d \in Children, ~Missing(d), completions'[d] # completions[d]
                 PROVE  \E s \in stale' : s.child = d /\ s.attempt = completions[d].attempt
      BY <3>2
    <3>3. d \in Moved(c, GenOf[a]) /\ completions[d] \in Completion
      BY <3>2 DEF Inv, TypeOK, Missing
    <3>4. completions[d].child = d
      BY DEF Inv, JoinedIsBound
    <3>5. CASE RecordsOf(completions[d]) = {}
      <4>1. AsEvidence(completions[d]) \in Shelved(c, GenOf[a])
        BY <3>3, <3>5 DEF Shelved
      <4> QED
        BY <3>2, <3>3, <3>4, <4>1, EvidenceTyped
    <3>6. CASE RecordsOf(completions[d]) # {}
      BY <3>2, <3>4, <3>6 DEF RecordsOf
    <3> QED
      BY <3>5, <3>6
  <2> QED
    BY <2>1, <2>2, <2>3 DEF Next
<1> QED
  BY <1>1, InvHolds, PTL DEF Spec, EvidenceKept
=============================================================================
