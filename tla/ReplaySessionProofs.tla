------------------------ MODULE ReplaySessionProofs -------------------------
(***************************************************************************)
(* What the replay session and the review metrics promise, for any number  *)
(* of sources and of events: by induction over the list, carried out with  *)
(* sets of naturals, about the fold that makes a frame and the sort that   *)
(* makes the list.                                                         *)
(***************************************************************************)
EXTENDS ReplaySession, WellFoundedInduction, TLAPS

(* Induction over the naturals, in the form of sets.                       *)

\* A set of naturals that is not empty has a least element.
LEMMA NatLeast ==
  ASSUME NEW T, T \subseteq Nat, T # {}
  PROVE  \E x \in T : \A y \in T : ~(y < x)
<1> DEFINE R == OpToRel(<, Nat)
<1>1. IsWellFoundedOn(R, Nat)
  BY NatLessThanWellFounded
<1>2. \A x, y \in Nat : <<y, x>> \in R <=> y < x
  BY DEF OpToRel
<1> HIDE DEF R
<1>3. \E x \in T : \A y \in T : ~(<<y, x>> \in R)
  BY <1>1, WFMin, Zenon
<1> QED
  BY <1>2, <1>3

\* A set with 0 that is closed under successor has every natural.
LEMMA NatSetInduction ==
  ASSUME NEW S, 0 \in S, \A n \in Nat : n \in S => n + 1 \in S
  PROVE  Nat \subseteq S
<1> SUFFICES ASSUME Nat \ S # {} PROVE FALSE
  OBVIOUS
<1>1. PICK x \in Nat \ S : \A y \in Nat \ S : ~(y < x)
  BY NatLeast
<1>2. x - 1 \in Nat /\ x - 1 < x
  BY <1>1
<1>3. x - 1 \in S
  BY <1>1, <1>2
<1> QED
  BY <1>1, <1>2, <1>3
-----------------------------------------------------------------------------
(* The two folds of the module, the sort and the reducer, in one.          *)

Start(f) == IF f = "sort" THEN <<>> ELSE EmptyProjection
Step(f, x, e, i) == IF f = "sort" THEN Insert(x, e) ELSE ReduceStep(x, e, i)

\* g lists the values of a fold of s up to position n.
Chain(f, g, s, n) ==
  g = [i \in 0 .. n |-> IF i = 0 THEN Start(f) ELSE Step(f, g[i - 1], s[i], i)]

\* What a chain says of its positions.
LEMMA ChainAt ==
  ASSUME NEW f, NEW g, NEW s, NEW n \in Nat, Chain(f, g, s, n)
  PROVE  g[0] = Start(f) /\ \A i \in 1 .. n : g[i] = Step(f, g[i - 1], s[i], i)
BY DEF Chain

\* A chain can be carried on for one more position.
LEMMA ChainMore ==
  ASSUME NEW f, NEW g, NEW s, NEW n \in Nat, Chain(f, g, s, n)
  PROVE  \E h : Chain(f, h, s, n + 1)
<1> DEFINE x == Step(f, g[n], s[n + 1], n + 1)
           h == [i \in 0 .. (n + 1) |-> IF i = n + 1 THEN x ELSE g[i]]
<1>1. g = [i \in 0 .. n |-> IF i = 0 THEN Start(f) ELSE Step(f, g[i - 1], s[i], i)]
  BY DEF Chain
<1>2. ASSUME NEW i \in 0 .. n
      PROVE  h[i] = IF i = 0 THEN Start(f) ELSE Step(f, h[i - 1], s[i], i)
  <2>1. h[i] = g[i]
    OBVIOUS
  <2>2. i # 0 => h[i - 1] = g[i - 1]
    OBVIOUS
  <2> HIDE DEF h
  <2> QED
    BY <1>1, <2>1, <2>2
<1>3. h[n + 1] = x /\ h[n] = g[n] /\ n + 1 # 0
  OBVIOUS
<1>4. h[n + 1] = Step(f, h[(n + 1) - 1], s[n + 1], n + 1)
  BY <1>3
<1>5. \A i \in 0 .. (n + 1) : i \in 0 .. n \/ i = n + 1
  OBVIOUS
<1>6. h = [i \in 0 .. (n + 1) |-> h[i]]
  OBVIOUS
<1> HIDE DEF h, x
<1>7. \A i \in 0 .. (n + 1) :
        h[i] = IF i = 0 THEN Start(f) ELSE Step(f, h[i - 1], s[i], i)
  BY <1>2, <1>3, <1>4, <1>5
<1>8. h = [i \in 0 .. (n + 1) |-> IF i = 0 THEN Start(f) ELSE Step(f, h[i - 1], s[i], i)]
  BY <1>6, <1>7
<1> QED
  BY <1>8 DEF Chain

\* So there is one of any length.
LEMMA ChainExists ==
  ASSUME NEW f, NEW s, NEW n \in Nat
  PROVE  \E g : Chain(f, g, s, n)
<1> DEFINE S == {k \in Nat : \E g : Chain(f, g, s, k)}
<1>1. 0 \in S
  <2>1. Chain(f, [i \in 0 .. 0 |-> Start(f)], s, 0)
    <3>1. \A i \in 0 .. 0 : i = 0
      OBVIOUS
    <3> QED
      BY <3>1 DEF Chain
  <2> QED
    BY <2>1
<1>2. \A k \in Nat : k \in S => k + 1 \in S
  BY ChainMore
<1> HIDE DEF S
<1>3. Nat \subseteq S
  BY <1>1, <1>2, NatSetInduction
<1> QED
  BY <1>3 DEF S

LongerThan(t, m, s, n) == n \in Nat /\ m \in Nat /\ n <= m /\ \A i \in 1 .. n : s[i] = t[i]

\* And chains over lists that agree agree.
LEMMA ChainUnique ==
  ASSUME NEW f, NEW s, NEW n, NEW t, NEW m, LongerThan(t, m, s, n),
         NEW g, Chain(f, g, s, n), NEW h, Chain(f, h, t, m)
  PROVE  g[n] = h[n]
<1> USE DEF LongerThan
<1> DEFINE S == {q \in Nat : q <= n => g[q] = h[q]}
<1>1. g[0] = Start(f) /\ \A i \in 1 .. n : g[i] = Step(f, g[i - 1], s[i], i)
  BY ChainAt
<1>2. h[0] = Start(f) /\ \A i \in 1 .. m : h[i] = Step(f, h[i - 1], t[i], i)
  BY ChainAt
<1>3. 0 \in S
  BY <1>1, <1>2
<1>4. ASSUME NEW q \in Nat, q \in S PROVE q + 1 \in S
  <2> SUFFICES ASSUME q + 1 <= n PROVE g[q + 1] = h[q + 1]
    OBVIOUS
  <2>1. q + 1 \in 1 .. n /\ q + 1 \in 1 .. m /\ (q + 1) - 1 = q
    OBVIOUS
  <2>2. g[q] = h[q] /\ s[q + 1] = t[q + 1]
    BY <1>4, <2>1
  <2> QED
    BY <1>1, <1>2, <2>1, <2>2
<1> HIDE DEF S
<1>5. Nat \subseteq S
  BY <1>3, <1>4, NatSetInduction
<1> QED
  BY <1>5 DEF S

\* The reducer's result is the end of its chain.
LEMMA ReduceIs ==
  ASSUME NEW s, Len(s) \in Nat
  PROVE  \E g : Chain("reduce", g, s, Len(s)) /\ ReduceEvents(s) = g[Len(s)]
<1>1. \E g : Chain("reduce", g, s, Len(s))
  BY ChainExists
<1> QED
  BY <1>1 DEF Chain, Start, Step, ReduceEvents

\* And so is the sort's.
LEMMA SortIs ==
  ASSUME NEW s, Len(s) \in Nat
  PROVE  \E g : Chain("sort", g, s, Len(s)) /\ GlobalDurableOrder(s) = g[Len(s)]
<1>1. \E g : Chain("sort", g, s, Len(s))
  BY ChainExists
<1> QED
  BY <1>1 DEF Chain, Start, Step, GlobalDurableOrder
-----------------------------------------------------------------------------
(* The sort.                                                               *)

\* The fields of an event.
LEMMA EventIs ==
  ASSUME NEW e \in Events
  PROVE  /\ e.ord \in 1 .. MaxOrd /\ e.ord \in Int /\ e.src \in Sources
         /\ e.seq \in {NoSeq} \cup (0 .. MaxSeq) /\ e.time \in {NoTime} \cup (1 .. MaxTime)
         /\ e.kind \in Kinds /\ e.kind.on \in Targets
BY BoundsAssumption DEF Events, Targets

\* A list of events.
LEMMA ListIs ==
  ASSUME NEW s \in Seq(Events)
  PROVE  Len(s) \in Nat /\ \A i \in 1 .. Len(s) : s[i] \in Events /\ s[i].ord \in Int
BY EventIs

\* Lists of the same length with the same elements.
LEMMA SameList ==
  ASSUME NEW s \in Seq(Events), NEW t \in Seq(Events), Len(s) = Len(t),
         \A i \in 1 .. Len(s) : s[i] = t[i]
  PROVE  s = t
OBVIOUS

Ordered(s) == \A i, j \in 1 .. Len(s) : i <= j => s[i].ord <= s[j].ord

\* There is a place for every event.
LEMMA PlaceIs ==
  ASSUME NEW s \in Seq(Events), NEW e \in Events
  PROVE  /\ Place(s, e) \in 0 .. Len(s)
         /\ \A i \in 1 .. Place(s, e) : s[i].ord <= e.ord
         /\ Place(s, e) < Len(s) => e.ord < s[Place(s, e) + 1].ord
<1> DEFINE n == Len(s)
           T == {p \in 0 .. n : p = n \/ e.ord < s[p + 1].ord}
<1>1. n \in Nat /\ \A i \in 1 .. n : s[i].ord \in Int
  BY ListIs
<1>2. e.ord \in Int
  BY EventIs
<1>3. T \subseteq Nat /\ n \in T
  BY <1>1
<1>4. PICK p \in T : \A q \in T : ~(q < p)
  BY <1>3, NatLeast
<1>5. \A i \in 1 .. p : s[i].ord <= e.ord
  <2> SUFFICES ASSUME NEW i \in 1 .. p, ~(s[i].ord <= e.ord) PROVE FALSE
    OBVIOUS
  <2>1. i - 1 \in 0 .. n /\ (i - 1) + 1 = i /\ i \in 1 .. n /\ i - 1 < p
    BY <1>1, <1>4
  <2>2. e.ord < s[i].ord
    BY <1>1, <1>2, <2>1
  <2>3. i - 1 \in T
    BY <2>1, <2>2
  <2> QED
    BY <1>4, <2>1, <2>3
<1>6. p \in 0 .. n /\ (p < n => e.ord < s[p + 1].ord)
  BY <1>1, <1>4
<1> QED
  BY <1>5, <1>6 DEF Place

\* Inserting into an ordered list of events.
LEMMA InsertIs ==
  ASSUME NEW s \in Seq(Events), NEW e \in Events, Ordered(s)
  PROVE  /\ Insert(s, e) \in Seq(Events)
         /\ Len(Insert(s, e)) = Len(s) + 1
         /\ Ordered(Insert(s, e))
         /\ \A i \in 1 .. (Len(s) + 1) :
              Insert(s, e)[i] = e \/ \E j \in 1 .. Len(s) : Insert(s, e)[i] = s[j]
<1> DEFINE n == Len(s)
           p == Place(s, e)
           t == [i \in 1 .. (n + 1) |-> IF i <= p THEN s[i] ELSE IF i = p + 1 THEN e ELSE s[i - 1]]
<1>1. /\ p \in 0 .. n
      /\ \A i \in 1 .. p : s[i].ord <= e.ord
      /\ p < n => e.ord < s[p + 1].ord
  BY PlaceIs
<1>2. Insert(s, e) = t
  BY DEF Insert
<1>3. n \in Nat /\ n + 1 \in Nat /\ \A i \in 1 .. n : s[i] \in Events /\ s[i].ord \in Int
  BY ListIs
<1>4. e.ord \in Int
  BY EventIs
<1>5. \A i, j \in 1 .. n : i <= j => s[i].ord <= s[j].ord
  BY DEF Ordered
<1> HIDE DEF n, p
<1>6. \A i \in 1 .. (n + 1) : \/ i \in 1 .. p /\ i \in 1 .. n /\ t[i] = s[i]
                              \/ i = p + 1 /\ t[i] = e
                              \/ i > p + 1 /\ i - 1 \in 1 .. n /\ t[i] = s[i - 1]
  BY <1>1, <1>3
<1>7. t \in [1 .. (n + 1) -> Events]
  BY <1>3, <1>6
<1>8. t \in Seq(Events) /\ Len(t) = n + 1
  BY <1>3, <1>7
<1>9. \A i \in 1 .. (n + 1) : t[i] = e \/ \E j \in 1 .. n : t[i] = s[j]
  BY <1>6
<1> HIDE DEF t
<1>10. \A i \in 1 .. n : i > p => e.ord <= s[i].ord
  BY <1>1, <1>3, <1>4, <1>5
<1>11. ASSUME NEW i \in 1 .. (n + 1), NEW j \in 1 .. (n + 1), i <= j
       PROVE  t[i].ord <= t[j].ord
  <2>1. CASE i \in 1 .. p /\ i \in 1 .. n /\ t[i] = s[i]
    <3>1. CASE j \in 1 .. p /\ j \in 1 .. n /\ t[j] = s[j]
      BY <1>5, <1>11, <2>1, <3>1
    <3>2. CASE j = p + 1 /\ t[j] = e
      BY <1>1, <2>1, <3>2
    <3>3. CASE j > p + 1 /\ j - 1 \in 1 .. n /\ t[j] = s[j - 1]
      BY <1>1, <1>3, <1>5, <2>1, <3>3
    <3> QED
      BY <1>6, <3>1, <3>2, <3>3
  <2>2. CASE i = p + 1 /\ t[i] = e
    <3>1. CASE j = p + 1
      BY <1>4, <2>2, <3>1
    <3>2. CASE j # p + 1
      <4>1. j > p + 1 /\ j - 1 \in 1 .. n /\ t[j] = s[j - 1]
        BY <1>1, <1>6, <1>11, <2>2, <3>2
      <4>2. j - 1 > p
        BY <1>1, <4>1
      <4> QED
        BY <1>10, <2>2, <4>1, <4>2
    <3> QED
      BY <3>1, <3>2
  <2>3. CASE i > p + 1 /\ i - 1 \in 1 .. n /\ t[i] = s[i - 1]
    <3>1. j > p + 1 /\ j - 1 \in 1 .. n /\ t[j] = s[j - 1]
      BY <1>1, <1>6, <1>11, <2>3
    <3>2. i - 1 <= j - 1
      BY <1>11
    <3> QED
      BY <1>5, <2>3, <3>1, <3>2
  <2> QED
    BY <1>6, <2>1, <2>2, <2>3
<1>12. Ordered(t)
  BY <1>8, <1>11 DEF Ordered
<1> QED
  BY <1>2, <1>8, <1>9, <1>12 DEF n

\* An event that comes last is appended.
LEMMA InsertLast ==
  ASSUME NEW s \in Seq(Events), NEW e \in Events, \A i \in 1 .. Len(s) : s[i].ord <= e.ord
  PROVE  Insert(s, e) = Append(s, e)
<1> DEFINE p == Place(s, e)
<1>1. p \in 0 .. Len(s) /\ (p < Len(s) => e.ord < s[p + 1].ord)
  BY PlaceIs
<1>2. \A i \in 1 .. Len(s) : s[i].ord \in Int
  BY ListIs
<1>3. e.ord \in Int /\ Len(s) \in Nat
  BY EventIs, ListIs
<1>4. p = Len(s)
  <2> SUFFICES ASSUME p < Len(s) PROVE FALSE
    BY <1>1, <1>3
  <2>1. p + 1 \in 1 .. Len(s)
    BY <1>1, <1>3
  <2> QED
    BY <1>1, <1>2, <1>3, <2>1
<1>5. Insert(s, e) = [i \in 1 .. (Len(s) + 1) |->
                        IF i <= p THEN s[i] ELSE IF i = p + 1 THEN e ELSE s[i - 1]]
  BY DEF Insert
<1> HIDE DEF p
<1>6. Insert(s, e) = [i \in 1 .. (Len(s) + 1) |-> IF i = Len(s) + 1 THEN e ELSE s[i]]
  BY <1>3, <1>4, <1>5
<1> DEFINE t == Insert(s, e)
<1>7. /\ t \in Seq(Events) /\ Len(t) = Len(s) + 1
      /\ \A i \in 1 .. Len(s) : t[i] = s[i]
      /\ t[Len(s) + 1] = e
  <2>1. t \in [1 .. (Len(s) + 1) -> Events]
    BY <1>3, <1>6, ListIs
  <2> QED
    BY <1>3, <1>6, <2>1
<1>8. /\ Append(s, e) \in Seq(Events) /\ Len(Append(s, e)) = Len(s) + 1
      /\ \A i \in 1 .. Len(s) : Append(s, e)[i] = s[i]
      /\ Append(s, e)[Len(s) + 1] = e
  OBVIOUS
<1>9. \A i \in 1 .. (Len(s) + 1) : i \in 1 .. Len(s) \/ i = Len(s) + 1
  BY <1>3
<1> HIDE DEF t
<1>10. t = Append(s, e)
  BY <1>7, <1>8, <1>9, SameList
<1> QED
  BY <1>10 DEF t

\* The sort of a list of events is an ordered list of the same length, with
\* events of that list only.
LEMMA SortChain ==
  ASSUME NEW s \in Seq(Events), NEW n \in Nat, n <= Len(s), NEW g, Chain("sort", g, s, n)
  PROVE  /\ g[n] \in Seq(Events) /\ Len(g[n]) = n /\ Ordered(g[n])
         /\ \A i \in 1 .. n : \E j \in 1 .. n : g[n][i] = s[j]
<1> DEFINE Good(q) == /\ g[q] \in Seq(Events) /\ Len(g[q]) = q /\ Ordered(g[q])
                      /\ \A i \in 1 .. q : \E j \in 1 .. q : g[q][i] = s[j]
           S == {q \in Nat : q <= n => Good(q)}
<1>1. g[0] = <<>> /\ \A i \in 1 .. n : g[i] = Insert(g[i - 1], s[i])
  BY ChainAt DEF Start, Step
<1>2. 0 \in S
  <2>1. g[0] \in Seq(Events) /\ Len(g[0]) = 0
    BY <1>1
  <2>2. Ordered(g[0])
    BY <2>1 DEF Ordered
  <2> QED
    BY <2>1, <2>2
<1>3. ASSUME NEW q \in Nat, q \in S PROVE q + 1 \in S
  <2> HIDE DEF Good
  <2> SUFFICES ASSUME q + 1 <= n PROVE Good(q + 1)
    OBVIOUS
  <2>0. Good(q)
    BY <1>3
  <2>1. /\ g[q] \in Seq(Events) /\ Len(g[q]) = q /\ Ordered(g[q])
        /\ \A i \in 1 .. q : \E j \in 1 .. q : g[q][i] = s[j]
    BY <2>0 DEF Good
  <2> USE DEF Good
  <2>2. q + 1 \in 1 .. n /\ (q + 1) - 1 = q /\ s[q + 1] \in Events
    OBVIOUS
  <2>3. g[q + 1] = Insert(g[q], s[q + 1])
    BY <1>1, <2>2
  <2>4. /\ g[q + 1] \in Seq(Events) /\ Len(g[q + 1]) = q + 1 /\ Ordered(g[q + 1])
        /\ \A i \in 1 .. (q + 1) : g[q + 1][i] = s[q + 1] \/ \E j \in 1 .. q : g[q + 1][i] = g[q][j]
    <3> DEFINE x == g[q]
               e == s[q + 1]
    <3>1. x \in Seq(Events) /\ Len(x) = q /\ Ordered(x) /\ e \in Events
      BY <2>1, <2>2
    <3>2. g[q + 1] = Insert(x, e)
      BY <2>3
    <3> HIDE DEF x, e
    <3>3. /\ Insert(x, e) \in Seq(Events) /\ Len(Insert(x, e)) = Len(x) + 1
          /\ Ordered(Insert(x, e))
          /\ \A i \in 1 .. (Len(x) + 1) :
               Insert(x, e)[i] = e \/ \E j \in 1 .. Len(x) : Insert(x, e)[i] = x[j]
      BY <3>1, InsertIs, Zenon
    <3> DEFINE y == Insert(x, e)
    <3> HIDE DEF y
    <3>4. /\ y \in Seq(Events) /\ Len(y) = q + 1 /\ Ordered(y)
          /\ \A i \in 1 .. (q + 1) : y[i] = e \/ \E j \in 1 .. q : y[i] = x[j]
      BY <3>1, <3>3 DEF y
    <3> QED
      BY <3>2, <3>4 DEF x, e, y
  <2>5. \A i \in 1 .. (q + 1) : \E j \in 1 .. (q + 1) : g[q + 1][i] = s[j]
    <3> SUFFICES ASSUME NEW i \in 1 .. (q + 1)
                 PROVE  \E j \in 1 .. (q + 1) : g[q + 1][i] = s[j]
      OBVIOUS
    <3>1. CASE g[q + 1][i] = s[q + 1]
      <4>1. q + 1 \in 1 .. (q + 1)
        OBVIOUS
      <4> QED
        BY <3>1, <4>1
    <3>2. CASE \E j \in 1 .. q : g[q + 1][i] = g[q][j]
      <4>1. PICK j \in 1 .. q : g[q + 1][i] = g[q][j]
        BY <3>2
      <4>2. PICK k \in 1 .. q : g[q][j] = s[k]
        BY <2>1
      <4>3. k \in 1 .. (q + 1)
        OBVIOUS
      <4> QED
        BY <4>1, <4>2, <4>3
    <3> QED
      BY <2>4, <3>1, <3>2
  <2> QED
    BY <2>4, <2>5
<1> HIDE DEF S
<1>4. Nat \subseteq S
  BY <1>2, <1>3, NatSetInduction
<1> HIDE DEF Good
<1>5. Good(n)
  BY <1>4 DEF S
<1> QED
  BY <1>5 DEF Good

LEMMA SortFacts ==
  ASSUME NEW s \in Seq(Events)
  PROVE  LET t == GlobalDurableOrder(s)
         IN  /\ t \in Seq(Events) /\ Len(t) = Len(s) /\ Ordered(t)
             /\ \A i \in 1 .. Len(t) : \E j \in 1 .. Len(s) : t[i] = s[j]
<1>1. Len(s) \in Nat /\ Len(s) <= Len(s)
  OBVIOUS
<1>2. PICK g : Chain("sort", g, s, Len(s)) /\ GlobalDurableOrder(s) = g[Len(s)]
  BY <1>1, SortIs
<1> DEFINE t == g[Len(s)]
<1>3. /\ t \in Seq(Events) /\ Len(t) = Len(s) /\ Ordered(t)
      /\ \A i \in 1 .. Len(s) : \E j \in 1 .. Len(s) : t[i] = s[j]
  BY <1>1, <1>2, SortChain
<1> QED
  BY <1>2, <1>3

\* Sorting one more event inserts it.
LEMMA SortAppend ==
  ASSUME NEW s \in Seq(Events), NEW e \in Events
  PROVE  GlobalDurableOrder(Append(s, e)) = Insert(GlobalDurableOrder(s), e)
<1> DEFINE n == Len(s)
           t == Append(s, e)
           m == n + 1
<1>1. /\ n \in Nat /\ m \in Nat /\ Len(t) = m /\ t[m] = e /\ n <= m
      /\ \A i \in 1 .. n : s[i] = t[i]
  OBVIOUS
<1>2. m \in 1 .. m /\ m - 1 = n
  OBVIOUS
<1> HIDE DEF n, t, m
<1>3. PICK g : Chain("sort", g, s, n) /\ GlobalDurableOrder(s) = g[n]
  BY <1>1, SortIs DEF n
<1>4. PICK h : Chain("sort", h, t, m) /\ GlobalDurableOrder(t) = h[m]
  BY <1>1, SortIs
<1>5. LongerThan(t, m, s, n)
  BY <1>1 DEF LongerThan
<1>6. g[n] = h[n]
  BY <1>3, <1>4, <1>5, ChainUnique
<1>7. h[m] = Insert(h[m - 1], t[m])
  BY <1>1, <1>2, <1>4, ChainAt DEF Step
<1> QED
  BY <1>1, <1>2, <1>3, <1>4, <1>6, <1>7 DEF t

\* Sorting an ordered list changes nothing.
LEMMA SortOrdered ==
  ASSUME NEW s \in Seq(Events), Ordered(s)
  PROVE  GlobalDurableOrder(s) = s
<1> DEFINE n == Len(s)
           prefix(q) == [i \in 1 .. q |-> s[i]]
<1>0. n \in Nat /\ \A i \in 1 .. n : s[i] \in Events /\ s[i].ord \in Int
  BY ListIs
<1>1. PICK g : Chain("sort", g, s, n) /\ GlobalDurableOrder(s) = g[n]
  BY <1>0, SortIs
<1>2. g[0] = <<>> /\ \A i \in 1 .. n : g[i] = Insert(g[i - 1], s[i])
  BY <1>0, <1>1, ChainAt DEF Start, Step
<1> DEFINE S == {q \in Nat : q <= n => g[q] = prefix(q)}
<1>3. 0 \in S
  BY <1>2
<1>4. ASSUME NEW q \in Nat, q \in S PROVE q + 1 \in S
  <2> SUFFICES ASSUME q + 1 <= n PROVE g[q + 1] = prefix(q + 1)
    OBVIOUS
  <2> DEFINE t == prefix(q)
             e == s[q + 1]
  <2>1. q + 1 \in 1 .. n /\ (q + 1) - 1 = q /\ q <= n
    BY <1>0
  <2>2. g[q + 1] = Insert(t, e)
    BY <1>2, <1>4, <2>1
  <2>3. t \in Seq(Events) /\ Len(t) = q /\ e \in Events
    <3>1. \A i \in 1 .. q : s[i] \in Events
      BY <1>0, <2>1
    <3> QED
      BY <1>0, <2>1, <3>1
  <2>4. \A i \in 1 .. Len(t) : t[i].ord <= e.ord
    <3> SUFFICES ASSUME NEW i \in 1 .. q PROVE s[i].ord <= s[q + 1].ord
      BY <2>3
    <3>1. i \in 1 .. n /\ i <= q + 1
      BY <1>0, <2>1
    <3> QED
      BY <2>1, <3>1 DEF Ordered
  <2>5. g[q + 1] = Append(t, e)
    BY <2>2, <2>3, <2>4, InsertLast, Zenon
  <2>6. Append(t, e) = prefix(q + 1)
    BY <2>3
  <2> QED
    BY <2>5, <2>6
<1> HIDE DEF S
<1>5. Nat \subseteq S
  BY <1>3, <1>4, NatSetInduction
<1>6. g[n] = prefix(n)
  BY <1>0, <1>5 DEF S
<1>7. prefix(n) = s
  OBVIOUS
<1> QED
  BY <1>1, <1>6, <1>7
-----------------------------------------------------------------------------
(* The session's invariant.                                                *)

\* The list is the sort of what was fed, one event at a time, and a LIVE
\* session is at its tip.
SessionInv ==
  /\ TypeOK
  /\ items = GlobalDurableOrder(fed)
  /\ mode = "LIVE" => cursor = Len(items)

\* Events reach the session one at a time.
LEMMA AppendSession ==
  ASSUME SessionInv, NEW e \in Events, AppendLive(e)
  PROVE  SessionInv'
<1>1. /\ fed \in Seq(Events) /\ items \in Seq(Events)
      /\ Len(items) = Len(fed) /\ Len(fed) < MaxFed
      /\ mode \in {"LIVE", "REPLAY"} /\ cursor \in 0 .. Len(items) /\ MaxFed \in Nat
  BY BoundsAssumption DEF SessionInv, TypeOK, AppendLive
<1>3. /\ fed' = Append(fed, e) /\ items' = GlobalDurableOrder(Append(items, e))
      /\ cursor' = IF mode = "LIVE" THEN Len(items') ELSE cursor
      /\ UNCHANGED mode
  BY DEF AppendLive, ListOf
<1>4. Ordered(items) /\ items = GlobalDurableOrder(fed)
  BY <1>1, SortFacts DEF SessionInv
<1>5. items' = Insert(items, e)
  BY <1>1, <1>3, <1>4, SortAppend, SortOrdered
<1>6. items' = GlobalDurableOrder(fed')
  BY <1>1, <1>3, <1>4, <1>5, SortAppend
<1>7. items' \in Seq(Events) /\ Len(items') = Len(items) + 1
  BY <1>1, <1>4, <1>5, InsertIs
<1>8. fed' \in Seq(Events) /\ Len(fed') = Len(fed) + 1
  BY <1>1, <1>3
<1>9. TypeOK'
  BY <1>1, <1>3, <1>7, <1>8 DEF SessionInv, TypeOK
<1> QED
  BY <1>3, <1>6, <1>9 DEF SessionInv

\* The cursor moves within the list.
LEMMA RewindSession ==
  ASSUME SessionInv, NEW c \in Int, RewindTo(c)
  PROVE  SessionInv'
<1>1. Len(items) \in Nat
  BY DEF SessionInv, TypeOK
<1>2. Clamp(c) \in 0 .. Len(items)
  BY <1>1 DEF Clamp
<1>3. /\ mode' = "REPLAY" /\ cursor' \in 0 .. Len(items)
      /\ UNCHANGED <<fed, items>>
  BY <1>2 DEF RewindTo
<1> QED
  BY <1>3 DEF SessionInv, TypeOK

\* Every step keeps the invariant.
LEMMA SessionNext == SessionInv /\ [Next]_vars => SessionInv'
<1> SUFFICES ASSUME SessionInv, [Next]_vars PROVE SessionInv'
  OBVIOUS
<1>0. Len(items) \in Nat /\ cursor \in Int
  BY DEF SessionInv, TypeOK
<1>1. CASE UNCHANGED vars
  BY <1>1 DEF vars, SessionInv, TypeOK
<1>2. ASSUME NEW c \in -1 .. (Len(items) + 1), RewindTo(c) PROVE SessionInv'
  <2>1. c \in Int
    BY <1>0
  <2> QED
    BY <1>2, <2>1, RewindSession
<1>3. CASE EnterReplay \/ StepBack(1) \/ StepForward(1)
  <2>1. cursor - 1 \in Int /\ cursor + 1 \in Int /\ Len(items) \in Int
    BY <1>0
  <2> QED
    BY <1>3, <2>1, RewindSession DEF EnterReplay, StepBack, StepForward
<1>4. CASE ResumeLive
  BY <1>0, <1>4 DEF ResumeLive, SessionInv, TypeOK
<1> QED
  BY <1>1, <1>2, <1>3, <1>4, AppendSession DEF Next

\* The session starts empty.
LEMMA SessionInit == Init => SessionInv
<1> SUFFICES ASSUME Init PROVE SessionInv
  OBVIOUS
<1>1. fed = <<>> /\ items = <<>> /\ mode = "LIVE" /\ cursor = 0
  BY DEF Init
<1>2. <<>> \in Seq(Events) /\ Len(<<>>) = 0
  OBVIOUS
<1>3. TypeOK
  BY <1>1, <1>2, BoundsAssumption DEF TypeOK
<1>5. GlobalDurableOrder(<<>>) = <<>>
  <2>1. Ordered(<<>>)
    BY <1>2 DEF Ordered
  <2> QED
    BY <1>2, <2>1, SortOrdered
<1> QED
  BY <1>1, <1>2, <1>3, <1>5 DEF SessionInv

LEMMA SessionInvariance == Spec => []SessionInv
BY SessionInit, SessionNext, PTL DEF Spec

\* The session's list, mode and cursor have their types, for any sources and
\* bounds; the cursor never leaves the list.
THEOREM SessionTypeCorrect == Spec => []TypeOK
<1>1. SessionInv => TypeOK
  BY DEF SessionInv
<1> QED
  BY <1>1, SessionInvariance, PTL

\* Sorting as events arrive is sorting them all at the end: a LIVE session
\* shows what it would show had it been given everything at once.
THEOREM ResumeIsUncorrupted == Spec => []ResumeUncorrupted
<1>1. SessionInv => ResumeUncorrupted
  <2> SUFFICES ASSUME SessionInv, mode = "LIVE"
               PROVE  Frame(cursor) = ReduceEvents(GlobalDurableOrder(fed))
    BY DEF ResumeUncorrupted
  <2>1. items \in Seq(Events) /\ cursor = Len(items) /\ items = GlobalDurableOrder(fed)
    BY DEF SessionInv, TypeOK
  <2>2. SubSeq(items, 1, Len(items)) = items
    BY <2>1
  <2> QED
    BY <2>1, <2>2 DEF Frame
<1> QED
  BY <1>1, SessionInvariance, PTL
-----------------------------------------------------------------------------
(* The reducer's steps.                                                    *)

\* A set of integers with an upper bound has a greatest element.
LEMMA IntGreatest ==
  ASSUME NEW T, T \subseteq Int, T # {}, NEW b \in Int, \A x \in T : x <= b
  PROVE  \E x \in T : \A y \in T : y <= x
<1> DEFINE U == {b - x : x \in T}
<1>1. U \subseteq Nat /\ U # {}
  <2>1. PICK x \in T : TRUE
    OBVIOUS
  <2>2. b - x \in U
    OBVIOUS
  <2>3. \A y \in T : b - y \in Nat
    OBVIOUS
  <2> QED
    BY <2>2, <2>3
<1> HIDE DEF U
<1>2. PICK u \in U : \A v \in U : ~(v < u)
  BY <1>1, NatLeast
<1>3. PICK x \in T : u = b - x
  BY <1>2 DEF U
<1>4. ASSUME NEW y \in T PROVE y <= x
  <2>1. b - y \in U
    BY DEF U
  <2> QED
    BY <1>2, <1>3, <2>1
<1> QED
  BY <1>4

GateStatuses == {"none", "passed", "approved", "released", "failed"}
Gates == [status : GateStatuses, lastEventSeq : Int, by : Int]

\* What the proofs need of a projection.
IsProjection(p) ==
  /\ DOMAIN p = {"startedAt", "lastEventAt", "gates", "nodes", "anomalies", "seen",
                 "hwSeq", "hwTime"}
  /\ p.gates \in [Targets -> Gates]
  /\ p.hwSeq \in [Sources -> Int] /\ p.hwTime \in [Sources -> Int]

\* A gate keeps its type.
LEMMA GateIs ==
  ASSUME NEW g \in Gates, NEW e \in Events, IsGateEvent(e)
  PROVE  ApplyGate(g, e) \in Gates
<1>1. e.seq \in Int /\ e.ord \in Int
  BY EventIs, BoundsAssumption DEF NoSeq
<1>2. GateStatus[e.kind.type] \in GateStatuses
  BY DEF IsGateEvent, GateStatus, GateStatuses
<1> QED
  BY <1>1, <1>2 DEF ApplyGate, Gates

\* What a step of the reducer does to the fields.
Reduced(p, e, i, q) ==
  /\ q.anomalies = p.anomalies \cup AnomaliesOf(p, e, i)
  /\ q.seen = p.seen \cup {e.ord}
  /\ q.hwSeq = [p.hwSeq EXCEPT ![e.src] = IF Advances(p, e) THEN e.seq ELSE @]
  /\ q.hwTime = [p.hwTime EXCEPT ![e.src] = IF Advances(p, e) THEN e.time ELSE @]
  /\ q.gates = [p.gates EXCEPT ![e.kind.on] = IF IsGateEvent(e) THEN ApplyGate(@, e) ELSE @]

LEMMA StepIs ==
  ASSUME NEW p, IsProjection(p), NEW e \in Events, NEW i
  PROVE  IsProjection(ReduceStep(p, e, i)) /\ Reduced(p, e, i, ReduceStep(p, e, i))
<1> DEFINE adv == Advances(p, e)
           an == AnomaliesOf(p, e, i)
           m == [p EXCEPT !.anomalies = @ \cup an,
                          !.seen = @ \cup {e.ord},
                          !.hwSeq[e.src] = IF adv THEN e.seq ELSE @,
                          !.hwTime[e.src] = IF adv THEN e.time ELSE @,
                          !.lastEventAt = IF e.time # NoTime THEN e.time ELSE @]
           q == ApplyEvent(m, e)
           gs == [p.gates EXCEPT ![e.kind.on] = IF IsGateEvent(e) THEN ApplyGate(@, e) ELSE @]
           hs == [p.hwSeq EXCEPT ![e.src] = IF adv THEN e.seq ELSE @]
           ht == [p.hwTime EXCEPT ![e.src] = IF adv THEN e.time ELSE @]
<1>1. ReduceStep(p, e, i) = q
  BY DEF ReduceStep
<1>2. e.src \in Sources /\ e.seq \in Int /\ e.time \in Int /\ e.kind.on \in Targets
  BY EventIs, BoundsAssumption DEF NoSeq, NoTime
<1> HIDE DEF adv, an
<1>3. /\ DOMAIN m = DOMAIN p /\ m.gates = p.gates
      /\ m.anomalies = p.anomalies \cup an /\ m.seen = p.seen \cup {e.ord}
      /\ m.hwSeq = hs /\ m.hwTime = ht
  BY DEF IsProjection
<1> HIDE DEF m
<1>4. /\ DOMAIN q = DOMAIN m
      /\ q.gates = [m.gates EXCEPT ![e.kind.on] = IF IsGateEvent(e) THEN ApplyGate(@, e) ELSE @]
      /\ q.anomalies = m.anomalies /\ q.seen = m.seen
      /\ q.hwSeq = m.hwSeq /\ q.hwTime = m.hwTime
  BY <1>3 DEF IsProjection, ApplyEvent
<1> HIDE DEF q
<1>5. hs \in [Sources -> Int] /\ ht \in [Sources -> Int]
  BY <1>2 DEF IsProjection
<1>6. gs \in [Targets -> Gates]
  <2>1. p.gates \in [Targets -> Gates] /\ p.gates[e.kind.on] \in Gates
    BY <1>2 DEF IsProjection
  <2>2. IsGateEvent(e) => ApplyGate(p.gates[e.kind.on], e) \in Gates
    BY <2>1, GateIs
  <2> QED
    BY <1>2, <2>1, <2>2
<1>7. IsProjection(q)
  BY <1>3, <1>4, <1>5, <1>6 DEF IsProjection
<1> QED
  BY <1>1, <1>3, <1>4, <1>7 DEF Reduced, adv, an

\* The empty projection.
LEMMA EmptyIs ==
  /\ IsProjection(EmptyProjection)
  /\ EmptyProjection.anomalies = {} /\ EmptyProjection.seen = {}
  /\ \A t \in Targets :
       EmptyProjection.gates[t] = [status |-> "none", lastEventSeq |-> -1, by |-> 0]
  /\ \A s \in Sources : EmptyProjection.hwSeq[s] = -1 /\ EmptyProjection.hwTime[s] = NoTime
BY DEF EmptyProjection, IsProjection, Gates, GateStatuses, NoTime

\* The frames of a list, one for each prefix.
Frames(g, s) ==
  /\ \A k \in 0 .. Len(s) : IsProjection(g[k])
  /\ g[0] = EmptyProjection
  /\ \A k \in 1 .. Len(s) : g[k] = ReduceStep(g[k - 1], s[k], k)

LEMMA FramesOf ==
  ASSUME NEW s \in Seq(Events)
  PROVE  \E g : Frames(g, s) /\ ReduceEvents(s) = g[Len(s)]
<1>1. Len(s) \in Nat /\ \A i \in 1 .. Len(s) : s[i] \in Events
  BY ListIs
<1>2. PICK g : Chain("reduce", g, s, Len(s)) /\ ReduceEvents(s) = g[Len(s)]
  BY <1>1, ReduceIs
<1>3. /\ g[0] = EmptyProjection
      /\ \A k \in 1 .. Len(s) : g[k] = ReduceStep(g[k - 1], s[k], k)
  BY <1>1, <1>2, ChainAt DEF Start, Step
<1> DEFINE S == {k \in Nat : k <= Len(s) => IsProjection(g[k])}
<1>4. 0 \in S
  BY <1>3, EmptyIs
<1>5. ASSUME NEW k \in Nat, k \in S PROVE k + 1 \in S
  <2> SUFFICES ASSUME k + 1 <= Len(s) PROVE IsProjection(g[k + 1])
    OBVIOUS
  <2>1. k + 1 \in 1 .. Len(s) /\ (k + 1) - 1 = k /\ k <= Len(s)
    BY <1>1
  <2>2. IsProjection(g[k]) /\ s[k + 1] \in Events
    BY <1>1, <1>5, <2>1
  <2>3. g[k + 1] = ReduceStep(g[k], s[k + 1], k + 1)
    BY <1>3, <2>1
  <2>4. IsProjection(ReduceStep(g[k], s[k + 1], k + 1))
    BY <2>2, StepIs, Zenon
  <2> QED
    BY <2>3, <2>4
<1> HIDE DEF S
<1>6. Nat \subseteq S
  BY <1>4, <1>5, NatSetInduction
<1>7. \A k \in 0 .. Len(s) : IsProjection(g[k])
  BY <1>1, <1>6 DEF S
<1> QED
  BY <1>2, <1>3, <1>7 DEF Frames
-----------------------------------------------------------------------------
(* The ledgers in a list.                                                  *)

\* An event with a sequence of that source's ledger.
Of(s, src, m) == s[m].src = src /\ s[m].seq # NoSeq

\* Of the first k events, j is the source's last one with a sequence.
LastSeq(s, src, k, j) ==
  j \in 1 .. k /\ Of(s, src, j) /\ \A m \in 1 .. k : Of(s, src, m) => m <= j

LEMMA LastSeqExists ==
  ASSUME NEW s, NEW src, NEW k \in Nat, NEW m \in 1 .. k, Of(s, src, m)
  PROVE  \E j \in 1 .. k : LastSeq(s, src, k, j)
<1> DEFINE T == {i \in 1 .. k : Of(s, src, i)}
<1>1. T \subseteq Int /\ T # {} /\ (\A x \in T : x <= k) /\ k \in Int
  OBVIOUS
<1>2. PICK j \in T : \A y \in T : y <= j
  BY <1>1, IntGreatest
<1> QED
  BY <1>2 DEF LastSeq

LEMMA LastSeqOne ==
  ASSUME NEW s, NEW src, NEW k \in Nat, NEW i, NEW j, LastSeq(s, src, k, i), LastSeq(s, src, k, j)
  PROVE  i = j
<1>1. i \in Int /\ j \in Int /\ i <= j /\ j <= i
  BY DEF LastSeq
<1> QED
  BY <1>1

\* The next event of a ledger comes directly after the last one.
Fits(s, k) ==
  /\ \A i \in 1 .. k : s[i].ord # s[k + 1].ord
  /\ \A j \in 1 .. k : s[k + 1].seq # NoSeq /\ LastSeq(s, s[k + 1].src, k, j)
       => s[k + 1].seq = s[j].seq + 1
  /\ \A j \in 1 .. k : Precedes(s, j, k + 1) /\ s[j].time # NoTime /\ s[k + 1].time # NoTime
       => s[j].time <= s[k + 1].time

CleanTo(s, k) ==
  /\ \A i, j \in 1 .. k : s[i].ord = s[j].ord => i = j
  /\ \A i, j \in 1 .. k : i < j /\ Follows(s, i, j) => s[j].seq = s[i].seq + 1
  /\ \A i, j \in 1 .. k : Precedes(s, i, j) /\ s[i].time # NoTime /\ s[j].time # NoTime
       => s[i].time <= s[j].time

\* What follows in the ledger follows the source's last event.
LEMMA FollowsLast ==
  ASSUME NEW s, NEW k \in Nat, NEW j \in 1 .. k
  PROVE  Follows(s, j, k + 1) <=> s[k + 1].seq # NoSeq /\ LastSeq(s, s[k + 1].src, k, j)
<1> DEFINE src == s[k + 1].src
<1>1. (j + 1) .. ((k + 1) - 1) = (j + 1) .. k
  OBVIOUS
<1>2. Follows(s, j, k + 1) <=>
        /\ s[j].src = src /\ s[j].seq # NoSeq /\ s[k + 1].seq # NoSeq
        /\ \A m \in (j + 1) .. k : s[m].src # s[j].src \/ s[m].seq = NoSeq
  BY <1>1 DEF Follows
<1> HIDE DEF src
<1>3. (\A m \in (j + 1) .. k : ~Of(s, src, m)) <=> (\A m \in 1 .. k : Of(s, src, m) => m <= j)
  <2>1. \A m \in 1 .. k : m \in (j + 1) .. k <=> ~(m <= j)
    OBVIOUS
  <2>2. \A m \in (j + 1) .. k : m \in 1 .. k
    OBVIOUS
  <2> QED
    BY <2>1, <2>2
<1>4. ASSUME Follows(s, j, k + 1)
      PROVE  s[k + 1].seq # NoSeq /\ LastSeq(s, src, k, j)
  <2>1. Of(s, src, j) /\ \A m \in (j + 1) .. k : ~Of(s, src, m)
    BY <1>2, <1>4 DEF Of
  <2> QED
    BY <1>2, <1>3, <1>4, <2>1 DEF LastSeq
<1>5. ASSUME s[k + 1].seq # NoSeq, LastSeq(s, src, k, j)
      PROVE  Follows(s, j, k + 1)
  <2>1. Of(s, src, j) /\ \A m \in (j + 1) .. k : ~Of(s, src, m)
    BY <1>3, <1>5 DEF LastSeq
  <2> QED
    BY <1>2, <1>5, <2>1 DEF Of
<1> QED
  BY <1>4, <1>5 DEF src

\* A list stays clean exactly when the next event fits.
LEMMA CleanMore ==
  ASSUME NEW s, NEW k \in Nat
  PROVE  CleanTo(s, k + 1) <=> CleanTo(s, k) /\ Fits(s, k)
<1>1. /\ \A i \in 1 .. k : i \in 1 .. (k + 1) /\ i < k + 1 /\ i # k + 1
      /\ \A i \in 1 .. (k + 1) : i \in 1 .. k \/ i = k + 1
      /\ k + 1 \in 1 .. (k + 1)
  OBVIOUS
<1>2. \A j \in 1 .. k :
        Follows(s, j, k + 1) <=> s[k + 1].seq # NoSeq /\ LastSeq(s, s[k + 1].src, k, j)
  BY FollowsLast
<1>3. ASSUME CleanTo(s, k + 1) PROVE CleanTo(s, k)
  BY <1>1, <1>3 DEF CleanTo
<1>4. ASSUME CleanTo(s, k + 1) PROVE Fits(s, k)
  BY <1>1, <1>2, <1>4 DEF CleanTo, Fits
<1>5. ASSUME CleanTo(s, k), Fits(s, k) PROVE CleanTo(s, k + 1)
  <2>1. ASSUME NEW i \in 1 .. (k + 1), NEW j \in 1 .. (k + 1), s[i].ord = s[j].ord PROVE i = j
    BY <1>1, <1>5, <2>1 DEF CleanTo, Fits
  <2>2. ASSUME NEW i \in 1 .. (k + 1), NEW j \in 1 .. (k + 1), i < j, Follows(s, i, j)
        PROVE  s[j].seq = s[i].seq + 1
    <3>1. i \in 1 .. k
      BY <2>2
    <3>2. CASE j \in 1 .. k
      BY <1>5, <2>2, <3>1, <3>2 DEF CleanTo
    <3>3. CASE j = k + 1
      BY <1>2, <1>5, <2>2, <3>1, <3>3 DEF Fits
    <3> QED
      BY <1>1, <3>2, <3>3
  <2>3. ASSUME NEW i \in 1 .. (k + 1), NEW j \in 1 .. (k + 1), Precedes(s, i, j),
               s[i].time # NoTime, s[j].time # NoTime
        PROVE  s[i].time <= s[j].time
    <3>1. i \in 1 .. k
      BY <2>3 DEF Precedes
    <3>2. CASE j \in 1 .. k
      BY <1>5, <2>3, <3>1, <3>2 DEF CleanTo
    <3>3. CASE j = k + 1
      BY <1>5, <2>3, <3>1, <3>3 DEF Fits
    <3> QED
      BY <1>1, <3>2, <3>3
  <2> QED
    BY <2>1, <2>2, <2>3 DEF CleanTo
<1> QED
  BY <1>3, <1>4, <1>5

\* The numbers and times of a list's events.
LEMMA Numbers ==
  ASSUME NEW s \in Seq(Events)
  PROVE  \A i \in 1 .. Len(s) :
           /\ s[i] \in Events /\ s[i].src \in Sources /\ s[i].seq \in Int /\ s[i].time \in Nat
           /\ s[i].seq # NoSeq => s[i].seq \in Nat
<1> SUFFICES ASSUME NEW i \in 1 .. Len(s)
             PROVE  /\ s[i] \in Events /\ s[i].src \in Sources /\ s[i].seq \in Int
                    /\ s[i].time \in Nat
                    /\ s[i].seq # NoSeq => s[i].seq \in Nat
  OBVIOUS
<1>1. s[i] \in Events
  OBVIOUS
<1>2. /\ s[i].src \in Sources /\ s[i].seq \in {NoSeq} \cup (0 .. MaxSeq)
      /\ s[i].time \in {NoTime} \cup (1 .. MaxTime)
  BY <1>1, EventIs
<1> QED
  BY <1>1, <1>2, BoundsAssumption DEF NoSeq, NoTime

Grows(s, k) == \A i, j \in 1 .. k : Precedes(s, i, j) => s[i].seq < s[j].seq

\* On a clean list every ledger grows.
LEMMA CleanGrows ==
  ASSUME NEW s \in Seq(Events), Clean(s)
  PROVE  Grows(s, Len(s))
<1>1. Len(s) \in Nat /\ DOMAIN s = 1 .. Len(s)
  OBVIOUS
<1>c. \A i, j \in 1 .. Len(s) : i < j /\ Follows(s, i, j) => s[j].seq = s[i].seq + 1
  BY <1>1 DEF Clean
<1>n. \A i \in 1 .. Len(s) : s[i].seq \in Int
  BY Numbers
<1> DEFINE S == {k \in Nat : k <= Len(s) => Grows(s, k)}
<1>2. 0 \in S
  BY DEF Grows
<1>3. ASSUME NEW k \in Nat, k \in S PROVE k + 1 \in S
  <2> SUFFICES ASSUME k + 1 <= Len(s), NEW i \in 1 .. (k + 1), NEW j \in 1 .. (k + 1),
                      Precedes(s, i, j)
               PROVE  s[i].seq < s[j].seq
    BY DEF Grows
  <2>1. Grows(s, k) /\ i \in 1 .. k /\ (j \in 1 .. k \/ j = k + 1) /\ k + 1 \in 1 .. Len(s)
    BY <1>1, <1>3 DEF Precedes
  <2>2. CASE j \in 1 .. k
    BY <2>1, <2>2 DEF Grows
  <2>3. CASE j = k + 1
    <3> DEFINE src == s[k + 1].src
    <3>1. Of(s, src, i) /\ s[k + 1].seq # NoSeq
      BY <2>3 DEF Of, Precedes
    <3>2. PICK m \in 1 .. k : LastSeq(s, src, k, m)
      BY <2>1, <3>1, LastSeqExists
    <3>3. Follows(s, m, k + 1)
      BY <3>1, <3>2, FollowsLast
    <3>4. m \in 1 .. Len(s) /\ i \in 1 .. Len(s) /\ m < k + 1
      BY <1>1, <2>1
    <3>5. s[k + 1].seq = s[m].seq + 1
      BY <1>c, <2>1, <3>3, <3>4
    <3>6. i <= m
      BY <2>1, <3>1, <3>2 DEF LastSeq
    <3>7. i # m => Precedes(s, i, m)
      BY <2>1, <3>1, <3>2, <3>6 DEF Precedes, LastSeq, Of
    <3>8. s[i].seq <= s[m].seq
      BY <1>n, <2>1, <3>4, <3>7 DEF Grows
    <3> QED
      BY <1>n, <2>3, <3>4, <3>5, <3>8
  <2> QED
    BY <2>1, <2>2, <2>3
<1> HIDE DEF S
<1>4. Nat \subseteq S
  BY <1>2, <1>3, NatSetInduction
<1> QED
  BY <1>1, <1>4 DEF S
-----------------------------------------------------------------------------
(* The gates.                                                              *)

OnGate(s, t, i) == s[i].kind.on = t /\ IsGateEvent(s[i])
Shown(e) == [status |-> GateStatus[e.kind.type], lastEventSeq |-> e.seq, by |-> e.ord]

\* Of the first k events, j is the last one about the gate, and it is shown.
ShowsLast(gate, s, t, k, j) ==
  /\ j \in 1 .. k /\ OnGate(s, t, j)
  /\ \A i \in 1 .. k : OnGate(s, t, i) => i <= j
  /\ gate = Shown(s[j])

GateHere(gate, s, t, k) ==
  \/ gate.status = "none" /\ \A i \in 1 .. k : ~OnGate(s, t, i)
  \/ \E j \in 1 .. k : ShowsLast(gate, s, t, k, j)

\* The ledgers grow, and the gate's events are of one ledger.
Sound(s, t) ==
  /\ Grows(s, Len(s))
  /\ \A i \in 1 .. Len(s) : OnGate(s, t, i) => s[i].seq # NoSeq
  /\ \A i, j \in 1 .. Len(s) : OnGate(s, t, i) /\ OnGate(s, t, j) => s[i].src = s[j].src

\* The gate's next event is newer than the one shown.
LEMMA GateStep ==
  ASSUME NEW s \in Seq(Events), NEW t \in Targets, Sound(s, t), NEW k \in Nat, k + 1 <= Len(s),
         NEW gate \in Gates, GateHere(gate, s, t, k)
  PROVE  GateHere(IF OnGate(s, t, k + 1) THEN ApplyGate(gate, s[k + 1]) ELSE gate, s, t, k + 1)
<1>1. /\ s \in Seq(Events) /\ Len(s) \in Nat /\ k + 1 \in 1 .. Len(s)
      /\ \A i \in 1 .. Len(s) : s[i].ord \in Int /\ s[i].seq \in Int
  BY ListIs, Numbers
<1>2. /\ \A i \in 1 .. k : i \in 1 .. (k + 1) /\ i \in 1 .. Len(s) /\ i < k + 1 /\ i <= k + 1
      /\ \A i \in 1 .. (k + 1) : i \in 1 .. k \/ i = k + 1
      /\ k + 1 \in 1 .. (k + 1)
  BY <1>1
<1>3. CASE ~OnGate(s, t, k + 1)
  <2>1. CASE gate.status = "none" /\ \A i \in 1 .. k : ~OnGate(s, t, i)
    BY <1>2, <1>3, <2>1 DEF GateHere
  <2>2. CASE \E j \in 1 .. k : ShowsLast(gate, s, t, k, j)
    <3>1. PICK j \in 1 .. k : ShowsLast(gate, s, t, k, j)
      BY <2>2
    <3>2. j \in 1 .. (k + 1) /\ ShowsLast(gate, s, t, k + 1, j)
      BY <1>2, <1>3, <3>1 DEF ShowsLast
    <3> QED
      BY <1>3, <3>2 DEF GateHere
  <2> QED
    BY <2>1, <2>2 DEF GateHere
<1>4. CASE OnGate(s, t, k + 1)
  <2>1. gate.status = "none" \/ gate.lastEventSeq <= s[k + 1].seq
    <3>1. ASSUME NEW j \in 1 .. k, ShowsLast(gate, s, t, k, j)
          PROVE  gate.lastEventSeq <= s[k + 1].seq
      <4>1. OnGate(s, t, j) /\ j \in 1 .. Len(s) /\ j < k + 1 /\ gate.lastEventSeq = s[j].seq
        BY <1>2, <3>1 DEF ShowsLast, Shown
      <4>3. s[j].seq # NoSeq /\ s[k + 1].seq # NoSeq /\ s[j].src = s[k + 1].src
        BY <1>1, <1>4, <4>1 DEF Sound
      <4>4. Precedes(s, j, k + 1)
        BY <4>1, <4>3 DEF Precedes
      <4>5. s[j].seq < s[k + 1].seq
        BY <1>1, <4>1, <4>4 DEF Sound, Grows
      <4> QED
        BY <1>1, <4>1, <4>5
    <3> QED
      BY <3>1 DEF GateHere
  <2>2. ApplyGate(gate, s[k + 1]) = Shown(s[k + 1])
    BY <2>1 DEF ApplyGate, Shown
  <2>3. ShowsLast(Shown(s[k + 1]), s, t, k + 1, k + 1)
    BY <1>2, <1>4 DEF ShowsLast
  <2> QED
    BY <1>2, <1>4, <2>2, <2>3 DEF GateHere
<1> QED
  BY <1>3, <1>4

\* So the tip shows the gate's last event.
LEMMA GateTip ==
  ASSUME NEW s \in Seq(Events), NEW t \in Targets, Sound(s, t)
  PROVE  GateHere(ReduceEvents(s).gates[t], s, t, Len(s))
<1>1. s \in Seq(Events) /\ Len(s) \in Nat /\ \A i \in 1 .. Len(s) : s[i] \in Events
  BY ListIs
<1>2. PICK g : Frames(g, s) /\ ReduceEvents(s) = g[Len(s)]
  BY <1>1, FramesOf
<1> DEFINE Good(k) == GateHere(g[k].gates[t], s, t, k)
           S == {k \in Nat : k <= Len(s) => Good(k)}
<1>3. 0 \in S
  <2>1. g[0].gates[t].status = "none"
    BY <1>2, EmptyIs DEF Frames
  <2>2. \A i \in 1 .. 0 : FALSE
    OBVIOUS
  <2> QED
    BY <2>1, <2>2 DEF GateHere
<1>4. ASSUME NEW k \in Nat, k \in S PROVE k + 1 \in S
  <2> SUFFICES ASSUME k + 1 <= Len(s) PROVE Good(k + 1)
    OBVIOUS
  <2> DEFINE p == g[k]
             e == s[k + 1]
  <2>1. k + 1 \in 1 .. Len(s) /\ (k + 1) - 1 = k /\ k <= Len(s) /\ k \in 0 .. Len(s)
    BY <1>1
  <2>2. GateHere(p.gates[t], s, t, k)
    BY <1>4, <2>1
  <2>3. IsProjection(p) /\ e \in Events /\ g[k + 1] = ReduceStep(p, e, k + 1)
    BY <1>1, <1>2, <2>1 DEF Frames
  <2> HIDE DEF p, e
  <2>4. g[k + 1].gates =
          [p.gates EXCEPT ![e.kind.on] = IF IsGateEvent(e) THEN ApplyGate(@, e) ELSE @]
    <3>1. Reduced(p, e, k + 1, g[k + 1])
      BY <2>3, StepIs
    <3> QED
      BY <3>1 DEF Reduced
  <2>5. p.gates \in [Targets -> Gates] /\ p.gates[t] \in Gates
    BY <2>3 DEF IsProjection
  <2>6. g[k + 1].gates[t] = IF OnGate(s, t, k + 1) THEN ApplyGate(p.gates[t], s[k + 1])
                                                   ELSE p.gates[t]
    BY <2>4, <2>5 DEF OnGate, e
  <2>7. GateHere(IF OnGate(s, t, k + 1) THEN ApplyGate(p.gates[t], s[k + 1]) ELSE p.gates[t],
                 s, t, k + 1)
    BY <2>2, <2>5, GateStep, Zenon
  <2> QED
    BY <2>6, <2>7
<1> HIDE DEF S
<1>5. Nat \subseteq S
  BY <1>3, <1>4, NatSetInduction
<1>6. Good(Len(s))
  BY <1>1, <1>5 DEF S
<1> QED
  BY <1>2, <1>6

\* The definitions of the properties, in terms of the gate's events.
LEMMA GateEventsAre ==
  ASSUME NEW s \in Seq(Events), NEW t \in Targets,
         OneLedger(s, About(s, t, IsGateEvent)), Clean(s)
  PROVE  /\ \A i : i \in About(s, t, IsGateEvent) <=> i \in 1 .. Len(s) /\ OnGate(s, t, i)
         /\ Sound(s, t)
<1>1. DOMAIN s = 1 .. Len(s)
  OBVIOUS
<1>2. \A i : i \in About(s, t, IsGateEvent) <=> i \in 1 .. Len(s) /\ OnGate(s, t, i)
  BY <1>1 DEF About, OnGate
<1> QED
  BY <1>1, <1>2, CleanGrows DEF Sound, OneLedger

\* The last of a set of positions.
LEMMA LastIs ==
  ASSUME NEW S, NEW n \in Nat, S \subseteq 1 .. n, NEW j \in S, \A i \in S : i <= j
  PROVE  LastOf(S) = j
<1>1. \A i \in S : i \in Int
  OBVIOUS
<1>2. LastOf(S) \in S /\ \A i \in S : i <= LastOf(S)
  BY DEF LastOf
<1>3. LastOf(S) \in Int /\ j \in Int /\ LastOf(S) <= j /\ j <= LastOf(S)
  BY <1>1, <1>2
<1> QED
  BY <1>3

\* With a gate event there is a last one, and the tip shows it.
LEMMA GateShown ==
  ASSUME NEW s \in Seq(Events), NEW t \in Targets, About(s, t, IsGateEvent) # {},
         OneLedger(s, About(s, t, IsGateEvent)), Clean(s)
  PROVE  LET S == About(s, t, IsGateEvent)
         IN  /\ LastOf(S) \in S /\ \A i \in S : i <= LastOf(S)
             /\ ReduceEvents(s).gates[t] = Shown(s[LastOf(S)])
<1> DEFINE S == About(s, t, IsGateEvent)
           gate == ReduceEvents(s).gates[t]
<1>1. (\A i : i \in S <=> i \in 1 .. Len(s) /\ OnGate(s, t, i)) /\ Sound(s, t)
  BY GateEventsAre, Zenon
<1>2. GateHere(gate, s, t, Len(s))
  BY <1>1, GateTip
<1>3. Len(s) \in Nat
  OBVIOUS
<1>4. S # {}
  OBVIOUS
<1> HIDE DEF S, gate
<1>5. PICK j \in 1 .. Len(s) : ShowsLast(gate, s, t, Len(s), j)
  BY <1>1, <1>2, <1>4 DEF GateHere
<1>6. /\ S \subseteq 1 .. Len(s) /\ j \in S /\ (\A i \in S : i <= j) /\ gate = Shown(s[j])
  BY <1>1, <1>5 DEF ShowsLast
<1>7. LastOf(S) = j
  BY <1>3, <1>6, LastIs
<1>8. LastOf(S) \in S /\ (\A i \in S : i <= LastOf(S)) /\ gate = Shown(s[LastOf(S)])
  BY <1>6, <1>7
<1> QED
  BY <1>8 DEF S, gate

\* On a clean list a gate of one ledger shows what its last event said, and
\* that event's actor and authority: for any interleaving of the ledgers and
\* any number of events.
THEOREM GatesFollowLedgers == Spec => []GateFollowsLedger
<1>1. SessionInv => GateFollowsLedger
  <2> SUFFICES ASSUME SessionInv, NEW t \in Targets, About(items, t, IsGateEvent) # {},
                      OneLedger(items, About(items, t, IsGateEvent)), Clean(items)
               PROVE  LET last == items[LastOf(About(items, t, IsGateEvent))]
                      IN  /\ Tip.gates[t].status = GateStatus[last.kind.type]
                          /\ Tip.gates[t].by = last.ord
    BY DEF GateFollowsLedger
  <2>1. items \in Seq(Events)
    BY DEF SessionInv, TypeOK
  <2>2. ReduceEvents(items).gates[t] = Shown(items[LastOf(About(items, t, IsGateEvent))])
    BY <2>1, GateShown
  <2> QED
    BY <2>2 DEF Tip, Shown
<1> QED
  BY <1>1, SessionInvariance, PTL

\* The last failure of a gate counts as recovered when a later event of the
\* gate says something else; on a clean list that is what the gate shows.
LEMMA ReviewAgrees ==
  ASSUME NEW s \in Seq(Events), NEW t \in Targets, NEW F,
         F = {i \in About(s, t, IsGateEvent) : s[i].kind.type \in Failures}, F # {},
         OneLedger(s, About(s, t, IsGateEvent)), Clean(s), About(s, t, IsNodeEvent) = {}
  PROVE  Recovered(s, LastOf(F)) <=> ReduceEvents(s).gates[t].status # "failed"
<1> DEFINE S == About(s, t, IsGateEvent)
           j == LastOf(S)
           f == LastOf(F)
           n == Len(s)
<1>1. (\A i : i \in S <=> i \in 1 .. n /\ OnGate(s, t, i)) /\ Sound(s, t)
  BY GateEventsAre, Zenon
<1>2. S # {}
  OBVIOUS
<1>3. j \in S /\ (\A i \in S : i <= j) /\ ReduceEvents(s).gates[t] = Shown(s[j])
  BY <1>2, GateShown
<1>4. n \in Nat /\ DOMAIN s = 1 .. n
  OBVIOUS
<1>5. \A i \in 1 .. n : s[i].kind.on = t => ~IsNodeEvent(s[i])
  BY <1>4 DEF About
<1>6. /\ \A i : i \in F <=> i \in S /\ s[i].kind.type = "gate_failed"
      /\ \A i \in S : s[i].kind.type \in {"gate_passed", "gate_approved", "gate_released",
                                          "gate_failed"}
  <2>1. \A i \in S : s[i].kind.type \in {"gate_passed", "gate_approved", "gate_released",
                                         "gate_failed"}
    BY <1>1 DEF OnGate, IsGateEvent, GateStatus
  <2> QED
    BY <2>1 DEF Failures
<1> HIDE DEF S, n
<1>7. f \in F /\ \A i \in F : i <= f
  <2>1. F \subseteq Int /\ (\A i \in F : i <= n) /\ n \in Int
    BY <1>1, <1>4, <1>6
  <2>2. \E i \in F : \A m \in F : m <= i
    BY <2>1, IntGreatest
  <2> QED
    BY <2>2 DEF LastOf
<1> HIDE DEF j, f
<1>8. ReduceEvents(s).gates[t].status # "failed" <=> j \notin F
  BY <1>3, <1>6 DEF Shown, GateStatus
<1>9. s[f].kind.on = t /\ f \in 1 .. n /\ f \in S /\ j \in 1 .. n
  BY <1>1, <1>3, <1>6, <1>7 DEF OnGate
<1>10. ASSUME Recovered(s, f) PROVE j \notin F
  <2>1. PICK m \in (f + 1) .. n : s[m].kind.type \in Recoveries /\ s[m].kind.on = t
    BY <1>9, <1>10 DEF Recovered, Recovers, n
  <2>2. m \in 1 .. n /\ f < m
    BY <1>4, <1>9
  <2>3. IsGateEvent(s[m])
    BY <1>5, <2>1, <2>2 DEF Recoveries, IsNodeEvent, NodeEvents, IsGateEvent, GateStatus
  <2>4. m <= j
    BY <1>1, <1>3, <2>1, <2>2, <2>3 DEF OnGate
  <2> QED
    BY <1>7, <1>9, <2>2, <2>4
<1>11. ASSUME j \notin F PROVE Recovered(s, f)
  <2>1. f <= j /\ f # j
    BY <1>3, <1>7, <1>9, <1>11
  <2>2. j \in (f + 1) .. n
    BY <1>9, <2>1
  <2>3. s[j].kind.type \in Recoveries /\ s[j].kind.on = t
    BY <1>1, <1>3, <1>6, <1>11 DEF OnGate, Recoveries
  <2> QED
    BY <1>9, <2>2, <2>3 DEF Recovered, Recovers, n
<1> QED
  BY <1>8, <1>10, <1>11 DEF f

\* The review's recoveries and the replayed gates tell the same story.
THEOREM ReviewAndReplayAgree == Spec => []ReviewAgreesWithReplay
<1>1. SessionInv => ReviewAgreesWithReplay
  <2> SUFFICES ASSUME SessionInv, NEW t \in Targets, NEW F,
                      F = {i \in About(items, t, IsGateEvent) : items[i].kind.type \in Failures},
                      F # {}, OneLedger(items, About(items, t, IsGateEvent)), Clean(items),
                      About(items, t, IsNodeEvent) = {}
               PROVE  Recovered(items, LastOf(F)) <=> Tip.gates[t].status # "failed"
    BY DEF ReviewAgreesWithReplay
  <2>1. items \in Seq(Events)
    BY DEF SessionInv, TypeOK
  <2> QED
    BY <2>1, ReviewAgrees DEF Tip
<1> QED
  BY <1>1, SessionInvariance, PTL
-----------------------------------------------------------------------------
(* The anomalies.                                                          *)

\* The four conditions of an event's anomalies.
Repeated(p, e) == e.ord \in p.seen
Backwards(p, e, i) ==
  e.seq # NoSeq /\ i > 1 /\ p.hwSeq[e.src] >= 0 /\ e.seq < p.hwSeq[e.src]
Stale(p, e) ==
  /\ e.seq # NoSeq
  /\ p.hwTime[e.src] # NoTime /\ e.time # NoTime
  /\ e.time < p.hwTime[e.src] \/ (e.time = p.hwTime[e.src] /\ e.seq < p.hwSeq[e.src])
Missing(p, e, i) ==
  e.seq # NoSeq /\ i > 1 /\ p.hwSeq[e.src] >= 0 /\ e.seq > p.hwSeq[e.src] + 1

LEMMA NoAnomaly ==
  ASSUME NEW p, NEW e, NEW i
  PROVE  AnomaliesOf(p, e, i) = {} <=>
           ~Repeated(p, e) /\ ~Backwards(p, e, i) /\ ~Stale(p, e) /\ ~Missing(p, e, i)
<1> DEFINE holds(k) ==
             CASE k = "DUPLICATE"    -> Repeated(p, e)
               [] k = "OUT_OF_ORDER" -> Backwards(p, e, i)
               [] k = "STALE"        -> Stale(p, e)
               [] k = "GAP"          -> Missing(p, e, i)
           H == {a \in AnomalyKinds : holds(a)}
<1>1. AnomaliesOf(p, e, i) = {<<k, i>> : k \in H}
  BY DEF AnomaliesOf, Repeated, Backwards, Stale, Missing
<1>2. /\ holds("DUPLICATE") <=> Repeated(p, e)
      /\ holds("OUT_OF_ORDER") <=> Backwards(p, e, i)
      /\ holds("STALE") <=> Stale(p, e)
      /\ holds("GAP") <=> Missing(p, e, i)
  OBVIOUS
<1> HIDE DEF holds
<1>3. H = {} <=> ~Repeated(p, e) /\ ~Backwards(p, e, i) /\ ~Stale(p, e) /\ ~Missing(p, e, i)
  BY <1>2 DEF AnomalyKinds
<1> HIDE DEF H
<1>4. {<<k, i>> : k \in H} = {} <=> H = {}
  OBVIOUS
<1> QED
  BY <1>1, <1>3, <1>4

Seen(p, s, k) == p.seen = {s[i].ord : i \in 1 .. k}

\* Nothing of the source so far.
Unknown(p, s, src, k) ==
  (\A m \in 1 .. k : ~Of(s, src, m)) /\ p.hwSeq[src] = -1 /\ p.hwTime[src] = NoTime

\* What no anomaly so far says of the high-water: no time is past it, and its
\* sequence is that of the source's last event, or the one before, when an
\* event without a time did not advance it.
EndsAt(p, s, src, k, j) ==
  /\ LastSeq(s, src, k, j)
  /\ \A m \in 1 .. k : Of(s, src, m) => s[m].time <= p.hwTime[src]
  /\ \/ p.hwSeq[src] = s[j].seq
     \/ /\ s[j].seq = p.hwSeq[src] + 1
        /\ \E h \in 1 .. k : Of(s, src, h) /\ s[h].seq = p.hwSeq[src]

Tails(p, s, k) ==
  \A src \in Sources : Unknown(p, s, src, k) \/ \E j \in 1 .. k : EndsAt(p, s, src, k, j)

\* With sources that keep recording times, the high-water is the last event.
Exact(p, s, src, k, j) ==
  LastSeq(s, src, k, j) /\ p.hwSeq[src] = s[j].seq /\ p.hwTime[src] = s[j].time

HighWater(p, s, k) ==
  \A src \in Sources : Unknown(p, s, src, k) \/ \E j \in 1 .. k : Exact(p, s, src, k, j)

\* Positions up to the next one.
LEMMA Positions ==
  ASSUME NEW k \in Nat
  PROVE  /\ \A i \in 1 .. k : i \in 1 .. (k + 1) /\ i < k + 1 /\ i <= k + 1
         /\ \A i \in 1 .. (k + 1) : i \in 1 .. k \/ i = k + 1
         /\ k + 1 \in 1 .. (k + 1) /\ k + 1 <= k + 1
OBVIOUS

\* An event of one source leaves what is known of the others.
LEMMA OtherSources ==
  ASSUME NEW s, NEW k \in Nat, NEW src, ~Of(s, src, k + 1), NEW p, NEW q,
         q.hwSeq[src] = p.hwSeq[src], q.hwTime[src] = p.hwTime[src]
  PROVE  /\ Unknown(p, s, src, k) => Unknown(q, s, src, k + 1)
         /\ \A j \in 1 .. k : LastSeq(s, src, k, j) => LastSeq(s, src, k + 1, j)
         /\ \A j \in 1 .. k : EndsAt(p, s, src, k, j) => EndsAt(q, s, src, k + 1, j)
         /\ \A j \in 1 .. k : Exact(p, s, src, k, j) => Exact(q, s, src, k + 1, j)
<1>1. Unknown(p, s, src, k) => Unknown(q, s, src, k + 1)
  BY Positions DEF Unknown
<1>2. \A j \in 1 .. k : LastSeq(s, src, k, j) => LastSeq(s, src, k + 1, j)
  BY Positions DEF LastSeq
<1>3. ASSUME NEW j \in 1 .. k, EndsAt(p, s, src, k, j) PROVE EndsAt(q, s, src, k + 1, j)
  <2>1. \A m \in 1 .. (k + 1) : Of(s, src, m) => s[m].time <= q.hwTime[src]
    BY <1>3, Positions DEF EndsAt
  <2> QED
    BY <1>2, <1>3, <2>1, Positions DEF EndsAt
<1>4. \A j \in 1 .. k : Exact(p, s, src, k, j) => Exact(q, s, src, k + 1, j)
  BY <1>2 DEF Exact
<1> QED
  BY <1>1, <1>2, <1>3, <1>4

\* What a step does to the high-waters.
LEMMA Marks ==
  ASSUME NEW s \in Seq(Events), NEW k \in Nat, k + 1 <= Len(s), NEW p, IsProjection(p), NEW q,
         Reduced(p, s[k + 1], k + 1, q)
  PROVE  \A src \in Sources :
           IF Of(s, src, k + 1) /\ Advances(p, s[k + 1])
           THEN q.hwSeq[src] = s[k + 1].seq /\ q.hwTime[src] = s[k + 1].time
           ELSE q.hwSeq[src] = p.hwSeq[src] /\ q.hwTime[src] = p.hwTime[src]
<1> DEFINE e == s[k + 1]
<1>1. k + 1 \in 1 .. Len(s)
  OBVIOUS
<1>2. e.src \in Sources
  BY <1>1, Numbers
<1>3. /\ q.hwSeq = [p.hwSeq EXCEPT ![e.src] = IF Advances(p, e) THEN e.seq ELSE @]
      /\ q.hwTime = [p.hwTime EXCEPT ![e.src] = IF Advances(p, e) THEN e.time ELSE @]
  BY DEF Reduced
<1>4. p.hwSeq \in [Sources -> Int] /\ p.hwTime \in [Sources -> Int]
  BY DEF IsProjection
<1>5. Advances(p, e) => e.seq # NoSeq
  BY DEF Advances
<1> QED
  BY <1>2, <1>3, <1>4, <1>5 DEF Of

\* An event that raises no anomaly fits, when numbers are used once.
LEMMA Unalarmed ==
  ASSUME NEW s \in Seq(Events), NumbersOnce(s), NEW k \in Nat, k + 1 <= Len(s), NEW p,
         IsProjection(p), Seen(p, s, k), Tails(p, s, k), AnomaliesOf(p, s[k + 1], k + 1) = {}
  PROVE  /\ Fits(s, k)
         /\ \A j \in 1 .. k : s[k + 1].seq # NoSeq /\ EndsAt(p, s, s[k + 1].src, k, j)
              => p.hwSeq[s[k + 1].src] = s[j].seq
<1> DEFINE e == s[k + 1]
           src == e.src
           hw == p.hwSeq[src]
           at == p.hwTime[src]
<1>1. k + 1 \in 1 .. Len(s) /\ DOMAIN s = 1 .. Len(s) /\ Len(s) \in Nat
  OBVIOUS
<1>2. /\ src \in Sources /\ e.time \in Nat /\ (e.seq # NoSeq => e.seq \in Nat)
      /\ hw \in Int /\ at \in Int
  BY <1>1, Numbers DEF IsProjection
<1>3. /\ ~Repeated(p, e) /\ ~Backwards(p, e, k + 1) /\ ~Stale(p, e) /\ ~Missing(p, e, k + 1)
  BY NoAnomaly
<1>4. \A i \in 1 .. k : s[i].ord # e.ord
  BY <1>3 DEF Repeated, Seen
<1>5. \A i \in 1 .. k : i \in 1 .. Len(s) /\ i < k + 1
  BY <1>1
<1>6. \A i \in 1 .. k : Of(s, src, i) /\ e.seq # NoSeq => s[i].seq # e.seq /\ s[i].seq \in Nat
  <2> SUFFICES ASSUME NEW i \in 1 .. k, Of(s, src, i), e.seq # NoSeq
               PROVE  s[i].seq # e.seq /\ s[i].seq \in Nat
    OBVIOUS
  <2>1. Precedes(s, i, k + 1) /\ s[i].seq # NoSeq
    BY <1>5 DEF Precedes, Of
  <2>2. s[i].seq = e.seq => s[i].ord = e.ord
    BY <1>1, <1>5, <2>1 DEF NumbersOnce
  <2> QED
    BY <1>4, <1>5, <2>1, <2>2, Numbers
<1> HIDE DEF e, src, hw, at
<1>7. ASSUME NEW j \in 1 .. k, e.seq # NoSeq, EndsAt(p, s, src, k, j)
      PROVE  hw = s[j].seq /\ e.seq = s[j].seq + 1
  <2>1. Of(s, src, j)
    BY <1>7 DEF EndsAt, LastSeq
  <2>2. s[j].seq # e.seq /\ s[j].seq \in Nat /\ e.seq \in Nat
    BY <1>2, <1>6, <1>7, <2>1
  <2>3. CASE hw = s[j].seq
    <3>1. k + 1 > 1 /\ hw >= 0
      BY <2>2, <2>3
    <3>2. ~(e.seq < hw) /\ ~(e.seq > hw + 1)
      BY <1>3, <1>7, <3>1 DEF Backwards, Missing, hw, src
    <3> QED
      BY <2>2, <2>3, <3>2
  <2>4. ASSUME s[j].seq = hw + 1, NEW h \in 1 .. k, Of(s, src, h), s[h].seq = hw
        PROVE  FALSE
    <3>1. hw \in Nat /\ e.seq # hw /\ e.seq # hw + 1
      BY <1>6, <1>7, <2>2, <2>4
    <3>2. k + 1 > 1 /\ hw >= 0
      BY <3>1
    <3>3. ~(e.seq < hw) /\ ~(e.seq > hw + 1)
      BY <1>3, <1>7, <3>2 DEF Backwards, Missing, hw, src
    <3> QED
      BY <2>2, <3>1, <3>3
  <2>5. \/ hw = s[j].seq
        \/ s[j].seq = hw + 1 /\ \E h \in 1 .. k : Of(s, src, h) /\ s[h].seq = hw
    BY <1>7 DEF EndsAt, hw
  <2> QED
    BY <2>3, <2>4, <2>5
<1>8. ASSUME NEW j \in 1 .. k, e.seq # NoSeq, LastSeq(s, src, k, j)
      PROVE  EndsAt(p, s, src, k, j)
  <2>1. ~Unknown(p, s, src, k)
    BY <1>8 DEF Unknown, LastSeq
  <2>2. PICK i \in 1 .. k : EndsAt(p, s, src, k, i)
    BY <1>2, <2>1 DEF Tails
  <2>3. i = j
    BY <1>8, <2>2, LastSeqOne DEF EndsAt
  <2> QED
    BY <2>2, <2>3
<1>9. ASSUME NEW m \in 1 .. k, Precedes(s, m, k + 1), s[m].time # NoTime, e.time # NoTime
      PROVE  s[m].time <= e.time
  <2>1. Of(s, src, m) /\ e.seq # NoSeq
    BY <1>9 DEF Precedes, Of, src, e
  <2>2. PICK j \in 1 .. k : LastSeq(s, src, k, j)
    BY <2>1, LastSeqExists
  <2>3. s[m].time <= at
    BY <1>8, <2>1, <2>2 DEF EndsAt, at
  <2>4. s[m].time \in Nat
    BY <1>5, Numbers
  <2>5. at # NoTime
    BY <1>2, <1>9, <2>3, <2>4 DEF NoTime
  <2>6. ~(e.time < at)
    BY <1>3, <1>9, <2>1, <2>5 DEF Stale, at, src
  <2> QED
    BY <1>2, <2>3, <2>4, <2>6
<1>10. Fits(s, k)
  BY <1>4, <1>7, <1>8, <1>9 DEF Fits, e, src
<1> QED
  BY <1>7, <1>10 DEF e, src, hw

\* And what the high-waters are after it.
LEMMA TailsMore ==
  ASSUME NEW s \in Seq(Events), NumbersOnce(s), NEW k \in Nat, k + 1 <= Len(s), NEW p,
         IsProjection(p), Seen(p, s, k), Tails(p, s, k), AnomaliesOf(p, s[k + 1], k + 1) = {},
         NEW q, Reduced(p, s[k + 1], k + 1, q)
  PROVE  Tails(q, s, k + 1)
<1> DEFINE e == s[k + 1]
<1>1. k + 1 \in 1 .. Len(s) /\ \A i \in 1 .. k : i \in 1 .. Len(s)
  OBVIOUS
<1>2. /\ Fits(s, k)
      /\ \A j \in 1 .. k : e.seq # NoSeq /\ EndsAt(p, s, e.src, k, j) => p.hwSeq[e.src] = s[j].seq
  BY Unalarmed
<1>3. ~Stale(p, e)
  BY NoAnomaly
<1> SUFFICES ASSUME NEW src \in Sources
             PROVE  Unknown(q, s, src, k + 1) \/ \E j \in 1 .. (k + 1) : EndsAt(q, s, src, k + 1, j)
  BY DEF Tails
<1>4. IF Of(s, src, k + 1) /\ Advances(p, e)
      THEN q.hwSeq[src] = e.seq /\ q.hwTime[src] = e.time
      ELSE q.hwSeq[src] = p.hwSeq[src] /\ q.hwTime[src] = p.hwTime[src]
  BY Marks
<1>5. Unknown(p, s, src, k) \/ \E j \in 1 .. k : EndsAt(p, s, src, k, j)
  BY DEF Tails
<1> HIDE DEF e
<1>6. CASE ~Of(s, src, k + 1)
  BY <1>4, <1>5, <1>6, OtherSources, Positions
<1>7. CASE Of(s, src, k + 1)
  <2> DEFINE hw == p.hwSeq[src]
             at == p.hwTime[src]
  <2>1. src = e.src /\ e.seq # NoSeq /\ LastSeq(s, src, k + 1, k + 1)
    BY <1>7, Positions DEF Of, e, LastSeq
  <2>2. e.time \in Nat /\ e.seq \in Nat /\ at \in Int /\ hw \in Int
    BY <1>1, <2>1, Numbers DEF e, IsProjection
  <2>3. \A m \in 1 .. k : s[m].time \in Nat
    BY <1>1, Numbers
  <2>4. CASE Unknown(p, s, src, k)
    <3>1. Advances(p, e)
      BY <2>1, <2>4 DEF Unknown, Advances
    <3>2. q.hwSeq[src] = e.seq /\ q.hwTime[src] = e.time
      BY <1>4, <1>7, <3>1
    <3>3. \A m \in 1 .. (k + 1) : Of(s, src, m) => s[m].time <= q.hwTime[src]
      BY <2>2, <2>4, <3>2, Positions DEF Unknown, e
    <3> QED
      BY <2>1, <3>2, <3>3, Positions DEF EndsAt, e
  <2>5. ASSUME NEW j \in 1 .. k, EndsAt(p, s, src, k, j)
        PROVE  EndsAt(q, s, src, k + 1, k + 1)
    <3>1. hw = s[j].seq /\ Of(s, src, j) /\ LastSeq(s, src, k, j)
      BY <1>2, <2>1, <2>5 DEF EndsAt, LastSeq
    <3>2. e.seq = hw + 1
      BY <1>2, <2>1, <3>1 DEF Fits, e
    <3>3. \A m \in 1 .. k : Of(s, src, m) => s[m].time <= at
      BY <2>5 DEF EndsAt
    <3>4. CASE Advances(p, e)
      <4>1. q.hwSeq[src] = e.seq /\ q.hwTime[src] = e.time
        BY <1>4, <1>7, <3>4
      <4>2. at <= e.time
        BY <2>1, <2>2, <3>4 DEF Advances, NoTime
      <4>3. \A m \in 1 .. (k + 1) : Of(s, src, m) => s[m].time <= q.hwTime[src]
        <5>1. \A m \in 1 .. k : Of(s, src, m) => s[m].time <= e.time
          BY <2>2, <2>3, <3>3, <4>2
        <5> QED
          BY <2>2, <4>1, <5>1, Positions DEF e
      <4> QED
        BY <2>1, <4>1, <4>3 DEF EndsAt, e
    <3>5. CASE ~Advances(p, e)
      <4>1. q.hwSeq[src] = hw /\ q.hwTime[src] = at
        BY <1>4, <3>5
      <4>2. at # NoTime /\ e.time = NoTime
        <5>1. at # NoTime /\ ~(e.time # NoTime /\ (e.time > at \/ (e.time = at /\ e.seq > hw)))
          BY <2>1, <3>5 DEF Advances
        <5>2. e.time # NoTime => ~(e.time < at)
          BY <1>3, <2>1, <5>1 DEF Stale
        <5>3. e.seq > hw
          BY <2>2, <3>2
        <5> QED
          BY <2>2, <5>1, <5>2, <5>3
      <4>3. at >= 0
        BY <2>2, <2>3, <3>1, <3>3
      <4>4. \A m \in 1 .. (k + 1) : Of(s, src, m) => s[m].time <= q.hwTime[src]
        BY <2>2, <3>3, <4>1, <4>2, <4>3, Positions DEF e, NoTime
      <4>5. s[k + 1].seq = q.hwSeq[src] + 1 /\ j \in 1 .. (k + 1) /\ s[j].seq = q.hwSeq[src]
        BY <3>1, <3>2, <4>1, Positions DEF e
      <4> QED
        BY <2>1, <3>1, <4>4, <4>5 DEF EndsAt
    <3> QED
      BY <3>4, <3>5
  <2> QED
    BY <1>5, <2>4, <2>5, Positions
<1> QED
  BY <1>6, <1>7

\* No anomaly at the tip: every event fitted.
LEMMA TipIsClean ==
  ASSUME NEW s \in Seq(Events), NumbersOnce(s), ReduceEvents(s).anomalies = {}
  PROVE  CleanTo(s, Len(s))
<1>1. Len(s) \in Nat /\ \A i \in 1 .. Len(s) : s[i] \in Events
  BY ListIs
<1>2. PICK g : Frames(g, s) /\ ReduceEvents(s) = g[Len(s)]
  BY FramesOf
<1> DEFINE Good(k) == /\ Seen(g[k], s, k)
                      /\ g[k].anomalies = {} => CleanTo(s, k) /\ Tails(g[k], s, k)
           S == {k \in Nat : k <= Len(s) => Good(k)}
<1>3. 0 \in S
  <2>1. g[0] = EmptyProjection
    BY <1>2 DEF Frames
  <2>2. \A i \in 1 .. 0 : FALSE
    OBVIOUS
  <2>3. Seen(g[0], s, 0) /\ Tails(g[0], s, 0)
    BY <2>1, <2>2, EmptyIs DEF Seen, Tails, Unknown
  <2>4. CleanTo(s, 0)
    BY <2>2 DEF CleanTo
  <2> QED
    BY <2>3, <2>4
<1>4. ASSUME NEW k \in Nat, k \in S PROVE k + 1 \in S
  <2> SUFFICES ASSUME k + 1 <= Len(s) PROVE Good(k + 1)
    OBVIOUS
  <2> DEFINE p == g[k]
             e == s[k + 1]
             q == g[k + 1]
  <2>1. k + 1 \in 1 .. Len(s) /\ (k + 1) - 1 = k /\ k <= Len(s) /\ k \in 0 .. Len(s)
    BY <1>1
  <2>2. Seen(p, s, k) /\ (p.anomalies = {} => CleanTo(s, k) /\ Tails(p, s, k))
    BY <1>4, <2>1
  <2>3. IsProjection(p) /\ e \in Events /\ q = ReduceStep(p, e, k + 1)
    BY <1>1, <1>2, <2>1 DEF Frames
  <2> HIDE DEF p, q
  <2>4. Reduced(p, e, k + 1, q)
    BY <2>3, StepIs
  <2>5. q.seen = p.seen \cup {e.ord} /\ q.anomalies = p.anomalies \cup AnomaliesOf(p, e, k + 1)
    BY <2>4 DEF Reduced
  <2>6. Seen(q, s, k + 1)
    BY <2>2, <2>5, Positions DEF Seen
  <2>7. ASSUME q.anomalies = {} PROVE CleanTo(s, k + 1) /\ Tails(q, s, k + 1)
    <3>1. CleanTo(s, k) /\ Tails(p, s, k) /\ AnomaliesOf(p, e, k + 1) = {}
      BY <2>2, <2>5, <2>7
    <3>2. Fits(s, k)
      BY <2>2, <2>3, <3>1, Unalarmed
    <3>3. Tails(q, s, k + 1)
      BY <2>2, <2>3, <2>4, <3>1, TailsMore
    <3> QED
      BY <3>1, <3>2, <3>3, CleanMore
  <2> QED
    BY <2>6, <2>7 DEF q
<1> HIDE DEF S, Good
<1>5. Nat \subseteq S
  BY <1>3, <1>4, NatSetInduction
<1>6. Good(Len(s))
  BY <1>1, <1>5 DEF S
<1> QED
  BY <1>2, <1>6 DEF Good

\* An event that fits raises no anomaly and becomes its source's high-water,
\* when the source keeps recording times.
LEMMA Alarmless ==
  ASSUME NEW s \in Seq(Events), KeepsTiming(s), NEW k \in Nat, k + 1 <= Len(s), NEW p,
         IsProjection(p), Seen(p, s, k), HighWater(p, s, k), Fits(s, k)
  PROVE  /\ AnomaliesOf(p, s[k + 1], k + 1) = {}
         /\ s[k + 1].seq # NoSeq => Advances(p, s[k + 1])
<1> DEFINE e == s[k + 1]
           src == e.src
           hw == p.hwSeq[src]
           at == p.hwTime[src]
<1>1. k + 1 \in 1 .. Len(s) /\ DOMAIN s = 1 .. Len(s) /\ \A i \in 1 .. k : i \in 1 .. Len(s)
  OBVIOUS
<1>2. src \in Sources /\ e.time \in Nat /\ (e.seq # NoSeq => e.seq \in Nat)
  BY <1>1, Numbers
<1>3. ~Repeated(p, e)
  BY DEF Fits, Repeated, Seen
<1>4. CASE e.seq = NoSeq
  <2>1. ~Backwards(p, e, k + 1) /\ ~Stale(p, e) /\ ~Missing(p, e, k + 1)
    BY <1>4 DEF Backwards, Stale, Missing
  <2> QED
    BY <1>3, <1>4, <2>1, NoAnomaly
<1>5. CASE e.seq # NoSeq /\ Unknown(p, s, src, k)
  <2>1. hw = -1 /\ at = NoTime
    BY <1>5 DEF Unknown
  <2>2. ~Backwards(p, e, k + 1) /\ ~Stale(p, e) /\ ~Missing(p, e, k + 1) /\ Advances(p, e)
    BY <1>5, <2>1 DEF Backwards, Stale, Missing, Advances
  <2> QED
    BY <1>3, <2>2, NoAnomaly
<1>6. ASSUME e.seq # NoSeq, NEW j \in 1 .. k, Exact(p, s, src, k, j)
      PROVE  AnomaliesOf(p, e, k + 1) = {} /\ Advances(p, e)
  <2>1. hw = s[j].seq /\ at = s[j].time /\ LastSeq(s, src, k, j)
    BY <1>6 DEF Exact
  <2>2. Precedes(s, j, k + 1)
    BY <1>6, <2>1 DEF LastSeq, Of, Precedes
  <2>3. e.seq = hw + 1
    BY <1>6, <2>1 DEF Fits
  <2>4. at # NoTime => e.time # NoTime
    BY <1>1, <2>1, <2>2 DEF KeepsTiming
  <2>5. at # NoTime /\ e.time # NoTime => at <= e.time
    BY <2>1, <2>2 DEF Fits
  <2>6. hw \in Nat /\ at \in Nat /\ e.seq \in Nat
    <3>1. s[j].seq # NoSeq /\ j \in 1 .. Len(s)
      BY <1>1, <2>1 DEF LastSeq, Of
    <3> QED
      BY <1>2, <1>6, <2>1, <3>1, Numbers
  <2> HIDE DEF hw, at, e, src
  <2>7. /\ ~(e.seq < hw) /\ ~(e.seq > hw + 1) /\ e.seq > hw
        /\ at # NoTime => e.time > at \/ (e.time = at /\ e.seq > hw)
        /\ ~(at # NoTime /\ e.time # NoTime /\ (e.time < at \/ (e.time = at /\ e.seq < hw)))
    BY <1>2, <2>3, <2>4, <2>5, <2>6
  <2>8. ~Backwards(p, e, k + 1) /\ ~Stale(p, e) /\ ~Missing(p, e, k + 1)
    BY <2>7 DEF Backwards, Stale, Missing, hw, at, src
  <2>9. Advances(p, e)
    BY <1>6, <2>4, <2>7 DEF Advances, hw, at, src
  <2> QED
    BY <1>3, <2>8, <2>9, NoAnomaly
<1>7. Unknown(p, s, src, k) \/ \E j \in 1 .. k : Exact(p, s, src, k, j)
  BY <1>2 DEF HighWater
<1> QED
  BY <1>4, <1>5, <1>6, <1>7

LEMMA HighWaterMore ==
  ASSUME NEW s \in Seq(Events), NEW k \in Nat, k + 1 <= Len(s), NEW p, IsProjection(p),
         HighWater(p, s, k), s[k + 1].seq # NoSeq => Advances(p, s[k + 1]),
         NEW q, Reduced(p, s[k + 1], k + 1, q)
  PROVE  HighWater(q, s, k + 1)
<1> DEFINE e == s[k + 1]
<1> SUFFICES ASSUME NEW src \in Sources
             PROVE  Unknown(q, s, src, k + 1) \/ \E j \in 1 .. (k + 1) : Exact(q, s, src, k + 1, j)
  BY DEF HighWater
<1>1. IF Of(s, src, k + 1) /\ Advances(p, e)
      THEN q.hwSeq[src] = e.seq /\ q.hwTime[src] = e.time
      ELSE q.hwSeq[src] = p.hwSeq[src] /\ q.hwTime[src] = p.hwTime[src]
  BY Marks
<1>2. Unknown(p, s, src, k) \/ \E j \in 1 .. k : Exact(p, s, src, k, j)
  BY DEF HighWater
<1>3. CASE ~Of(s, src, k + 1)
  BY <1>1, <1>2, <1>3, OtherSources, Positions
<1>4. CASE Of(s, src, k + 1)
  <2>1. LastSeq(s, src, k + 1, k + 1) /\ Advances(p, e)
    BY <1>4, Positions DEF LastSeq, Of
  <2> QED
    BY <1>1, <1>4, <2>1, Positions DEF Exact
<1> QED
  BY <1>3, <1>4

\* A clean list raises no alarm.
LEMMA CleanIsQuiet ==
  ASSUME NEW s \in Seq(Events), KeepsTiming(s), CleanTo(s, Len(s))
  PROVE  ReduceEvents(s).anomalies = {}
<1>1. Len(s) \in Nat /\ \A i \in 1 .. Len(s) : s[i] \in Events
  BY ListIs
<1>2. PICK g : Frames(g, s) /\ ReduceEvents(s) = g[Len(s)]
  BY FramesOf
<1>f. ASSUME NEW k \in Nat, k + 1 <= Len(s) PROVE Fits(s, k)
  <2>1. CleanTo(s, k + 1)
    <3>1. \A i \in 1 .. (k + 1) : i \in 1 .. Len(s)
      BY <1>1, <1>f
    <3> QED
      BY <3>1 DEF CleanTo
  <2> QED
    BY <2>1, CleanMore
<1> DEFINE Good(k) == Seen(g[k], s, k) /\ g[k].anomalies = {} /\ HighWater(g[k], s, k)
           S == {k \in Nat : k <= Len(s) => Good(k)}
<1>3. 0 \in S
  <2>1. g[0] = EmptyProjection
    BY <1>2 DEF Frames
  <2>2. \A i \in 1 .. 0 : FALSE
    OBVIOUS
  <2>3. Seen(g[0], s, 0) /\ HighWater(g[0], s, 0) /\ g[0].anomalies = {}
    BY <2>1, <2>2, EmptyIs DEF Seen, HighWater, Unknown
  <2> QED
    BY <2>3
<1>4. ASSUME NEW k \in Nat, k \in S PROVE k + 1 \in S
  <2> SUFFICES ASSUME k + 1 <= Len(s) PROVE Good(k + 1)
    OBVIOUS
  <2> DEFINE p == g[k]
             e == s[k + 1]
             q == g[k + 1]
  <2>1. k + 1 \in 1 .. Len(s) /\ (k + 1) - 1 = k /\ k <= Len(s) /\ k \in 0 .. Len(s)
    BY <1>1
  <2>2. Seen(p, s, k) /\ p.anomalies = {} /\ HighWater(p, s, k)
    BY <1>4, <2>1
  <2>3. IsProjection(p) /\ e \in Events /\ q = ReduceStep(p, e, k + 1)
    BY <1>1, <1>2, <2>1 DEF Frames
  <2> HIDE DEF p, q
  <2>4. Reduced(p, e, k + 1, q)
    BY <2>3, StepIs
  <2>5. q.seen = p.seen \cup {e.ord} /\ q.anomalies = p.anomalies \cup AnomaliesOf(p, e, k + 1)
    BY <2>4 DEF Reduced
  <2>6. Seen(q, s, k + 1)
    BY <2>2, <2>5, Positions DEF Seen
  <2>7. AnomaliesOf(p, e, k + 1) = {} /\ (e.seq # NoSeq => Advances(p, e))
    BY <1>f, <2>2, <2>3, Alarmless
  <2>8. HighWater(q, s, k + 1)
    BY <2>2, <2>3, <2>4, <2>7, HighWaterMore
  <2> QED
    BY <2>2, <2>5, <2>6, <2>7, <2>8 DEF q
<1> HIDE DEF S, Good
<1>5. Nat \subseteq S
  BY <1>3, <1>4, NatSetInduction
<1>6. Good(Len(s))
  BY <1>1, <1>5 DEF S
<1> QED
  BY <1>2, <1>6 DEF Good

\* Anomalies, for any number of sources and of events, whatever numbers and
\* times the sources record: with numbers used once, a missing, repeated,
\* reordered or backdated event never goes unreported; with times kept up,
\* interleaved ledgers raise no alarm.
THEOREM AnomaliesAreExact == Spec => []AnomaliesExact
<1>1. SessionInv => AnomaliesExact
  <2> SUFFICES ASSUME SessionInv PROVE AnomaliesExact
    OBVIOUS
  <2>1. items \in Seq(Events)
    BY DEF SessionInv, TypeOK
  <2>2. CleanTo(items, Len(items)) <=> Clean(items)
    BY <2>1 DEF CleanTo, Clean
  <2>3. NumbersOnce(items) /\ ReduceEvents(items).anomalies = {} => CleanTo(items, Len(items))
    BY <2>1, TipIsClean
  <2>4. CleanTo(items, Len(items)) /\ KeepsTiming(items) => ReduceEvents(items).anomalies = {}
    BY <2>1, CleanIsQuiet
  <2> QED
    BY <2>2, <2>3, <2>4 DEF AnomaliesExact, Tip
<1> QED
  BY <1>1, SessionInvariance, PTL
=============================================================================
