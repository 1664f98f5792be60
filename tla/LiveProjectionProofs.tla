------------------------ MODULE LiveProjectionProofs ------------------------
(***************************************************************************)
(* The live projection for any number of sources, rows, loads and joins:   *)
(* its types, that no row is listed twice, that the high-water marks are   *)
(* exact, that a hole in a source's listed sequence was flagged, that      *)
(* CATCHING_UP always has a load out, and that the console implements the  *)
(* view of a durable log.                                                  *)
(*                                                                         *)
(* One inductive invariant carries all of it.  The parts that are not      *)
(* properties themselves: the sources number their rows (Numbered), and a  *)
(* client whose history is not confirmed has the load out that will        *)
(* confirm it (UnreadyIsLoading).                                          *)
(***************************************************************************)
EXTENDS LiveProjection, TLAPS

UnreadyIsLoading ==
  durableReady \/ fails > 0 \/ \E i \in LoadIds : load[i].kind \in {"boot", "reconnect"}

IInv ==
  /\ TypeOK
  /\ Numbered
  /\ ShownOnce
  /\ HighWaterExact
  /\ HolesAreFlagged
  /\ UnreadyIsLoading
  /\ CatchUpIsPending

RowType == [src : Sources, seq : {NoSeq} \cup Nat]

\* What is on screen after recomputeState is a LiveState.
LEMMA RecomputeType ==
  ASSUME NEW some, NEW durable, NEW transport
  PROVE  RecomputeState(some, durable, transport) \in LiveStates
BY DEF RecomputeState, LiveStates

\* CATCHING_UP is recomputed only while the history is not confirmed.
LEMMA RecomputeCatchingUp ==
  ASSUME NEW some, NEW durable, NEW transport,
         RecomputeState(some, durable, transport) = "CATCHING_UP"
  PROVE  ~durable
BY DEF RecomputeState

\* A new load takes a free slot and leaves the others alone.
LEMMA StartLoadEffect ==
  ASSUME TypeOK, NEW kind \in {"boot", "gap", "reconnect"}, StartLoad(kind)
  PROVE  /\ load' \in [LoadIds -> Loads]
         /\ \A i \in LoadIds : load'[i].snap <= Len(rows)
         /\ \A i \in LoadIds : load[i].kind # "none" => load'[i] = load[i]
         /\ \E i \in LoadIds : load'[i].kind = kind
<1>1. PICK i \in FreeLoads : load' = [load EXCEPT ![i] = [kind |-> kind, snap |-> Unread]]
  BY DEF StartLoad
<1>2. i \in LoadIds /\ load[i].kind = "none"
  BY DEF FreeLoads
<1>3. [kind |-> kind, snap |-> Unread] \in Loads
  BY DEF Loads
<1>4. load \in [LoadIds -> Loads] /\ rows \in Seq(RowType)
      /\ \A j \in LoadIds : load[j].snap <= Len(rows)
  BY DEF TypeOK, RowType
<1>5. Len(rows) \in Nat
  BY <1>4
<1>6. \A j \in LoadIds : load'[j] = IF j = i THEN [kind |-> kind, snap |-> Unread] ELSE load[j]
  BY <1>1, <1>4
<1>7. load' \in [LoadIds -> Loads]
  BY <1>1, <1>3, <1>4
<1>8. \A j \in LoadIds : load'[j].snap <= Len(rows)
  BY <1>4, <1>5, <1>6 DEF Unread
<1>9. \A j \in LoadIds : load[j].kind # "none" => load'[j] = load[j]
  BY <1>2, <1>6
<1>10. load'[i].kind = kind
  BY <1>2, <1>6
<1> QED BY <1>2, <1>7, <1>8, <1>9, <1>10

-----------------------------------------------------------------------------
(***************************************************************************)
(* receiveLive.                                                            *)
(***************************************************************************)
\* The shown row numbers are row numbers.
LEMMA OnScreenRows ==
  ASSUME TypeOK, ShownOnce
  PROVE  /\ OnScreen \subseteq 1 .. Len(rows)
         /\ Len(rows) \in Nat
         /\ DOMAIN rows = 1 .. Len(rows)
         /\ \A o \in 1 .. Len(rows) : rows[o] \in RowType
         /\ 1 .. Len(rows) \subseteq Ordinals
<1>1. rows \in Seq(RowType) /\ Len(rows) <= MaxRows
  BY DEF TypeOK, RowType
<1>2. Len(rows) \in Nat /\ DOMAIN rows = 1 .. Len(rows)
      /\ \A o \in 1 .. Len(rows) : rows[o] \in RowType
  BY <1>1
<1>3. MaxRows \in Nat
  BY BoundsAssumption
<1>4. OnScreen \subseteq 1 .. Len(rows)
  BY <1>2, <1>3 DEF OnScreen, ShownOnce, Ordinals
<1> QED BY <1>1, <1>2, <1>3, <1>4 DEF Ordinals

\* A frame that receiveLive lists adds exactly its row to the screen.
LEMMA ShowEffect ==
  ASSUME TypeOK, ShownOnce, NEW f \in 1 .. Len(rows), f \notin OnScreen,
         Show(f), rows' = rows
  PROVE  /\ shown' \in [Ordinals -> Nat]
         /\ ShownOnce'
         /\ OnScreen' = OnScreen \cup {f}
         /\ state' \in LiveStates
         /\ state' = "CATCHING_UP" => ~durableReady
<1>1. f \in Ordinals /\ shown \in [Ordinals -> Nat]
  BY OnScreenRows DEF TypeOK
<1>2. shown[f] = 0
  BY <1>1 DEF OnScreen
<1>3. shown' = [shown EXCEPT ![f] = 1]
  BY <1>1, <1>2 DEF Show
<1>4. shown' \in [Ordinals -> Nat] /\ \A o \in Ordinals : shown'[o] = IF o = f THEN 1 ELSE shown[o]
  BY <1>1, <1>3
<1>5. ShownOnce'
  BY <1>4 DEF ShownOnce
<1>6. OnScreen' = OnScreen \cup {f}
  <2>1. \A o \in Ordinals : shown'[o] > 0 <=> shown[o] > 0 \/ o = f
    BY <1>1, <1>2, <1>4
  <2>2. ASSUME NEW o PROVE o \in OnScreen' <=> o \in OnScreen \cup {f}
    BY <1>1, <2>1 DEF OnScreen
  <2> QED BY <2>2
<1>7. state' \in LiveStates /\ (state' = "CATCHING_UP" => ~durableReady)
  BY RecomputeType, RecomputeCatchingUp DEF Show
<1> QED BY <1>4, <1>5, <1>6, <1>7

\* receiveLive keeps the types of what it changes.
LEMMA ReceiveType ==
  ASSUME TypeOK, ShownOnce, NEW f \in {BadFrame} \cup 1 .. Len(rows), Receive(f), rows' = rows
  PROVE  /\ load' \in [LoadIds -> Loads]
         /\ \A i \in LoadIds : load'[i].snap <= Len(rows)
         /\ state' \in LiveStates
         /\ shown' \in [Ordinals -> Nat]
         /\ highWater' \in [Sources -> {-1} \cup Nat]
         /\ anomalies' \subseteq {"GAP", "STALE"} \X Sources
         /\ buffer' \in Seq({BadFrame} \cup 1 .. Len(rows))
<1> USE DEF TypeOK
<1>1. CASE Buffered(f)
  BY <1>1 DEF Buffered
<1>2. CASE IgnoredFrame(f)
  BY <1>2 DEF IgnoredFrame
<1>3. CASE Unsequenced(f)
  <2>1. f \in 1 .. Len(rows) /\ f \notin OnScreen
    BY <1>3 DEF Unsequenced, Duplicate
  <2> QED BY <1>3, <2>1, ShowEffect DEF Unsequenced
<1>4. CASE Gap(f)
  <2>1. f \in 1 .. Len(rows)
    BY <1>4 DEF Gap
  <2>2. rows[f].src \in Sources
    BY <2>1, OnScreenRows DEF RowType
  <2>3. anomalies' \subseteq {"GAP", "STALE"} \X Sources
    BY <1>4, <2>2 DEF Gap
  <2>4. state' \in LiveStates
    BY <1>4 DEF Gap, LiveStates
  <2>5. load' \in [LoadIds -> Loads] /\ \A i \in LoadIds : load'[i].snap <= Len(rows)
    BY <1>4, StartLoadEffect DEF Gap
  <2> QED BY <1>4, <2>3, <2>4, <2>5 DEF Gap
<1>5. CASE Appended(f)
  <2>1. f \in 1 .. Len(rows) /\ f \notin OnScreen /\ Show(f)
    BY <1>5 DEF Appended, Duplicate
  <2>2. rows[f].src \in Sources /\ rows[f].seq \in Nat
    BY <1>5, <2>1, OnScreenRows DEF RowType, Appended, Sequenced
  <2>3. anomalies' \subseteq {"GAP", "STALE"} \X Sources
    BY <1>5, <2>2 DEF Appended
  <2>4. highWater' \in [Sources -> {-1} \cup Nat]
    BY <1>5, <2>2 DEF Appended
  <2> QED BY <1>5, <2>1, <2>3, <2>4, ShowEffect DEF Appended
<1> QED BY <1>1, <1>2, <1>3, <1>4, <1>5 DEF Receive

\* The same marks, without the set of sequences.
Marks(r, h, S) ==
  \A s \in Sources :
    /\ \A o \in S : r[o].src = s => r[o].seq <= h[s]
    /\ h[s] = -1 \/ \E o \in S : r[o].src = s /\ r[o].seq = h[s]

LEMMA MarksNow == HighWaterExact <=> Marks(rows, highWater, OnScreen)
BY DEF HighWaterExact, HighWaterOf, Marks

LEMMA MarksNext == HighWaterExact' <=> Marks(rows', highWater', OnScreen')
BY DEF HighWaterExact, HighWaterOf, Marks

\* A row that is listed keeps the marks exact.
LEMMA AppendMarks ==
  ASSUME TypeOK, ShownOnce, HighWaterExact,
         NEW f \in 1 .. Len(rows), Appended(f), rows' = rows
  PROVE  HighWaterExact'
<1> DEFINE s == rows[f].src
           q == rows[f].seq
<1>1. f \notin OnScreen /\ Show(f) /\ q # NoSeq
      /\ highWater' = [highWater EXCEPT ![s] = IF q > highWater[s] THEN q ELSE highWater[s]]
  BY DEF Appended, Duplicate, Sequenced
<1>2. OnScreen' = OnScreen \cup {f}
  BY <1>1, ShowEffect
<1>3. s \in Sources /\ q \in Nat
  BY <1>1, OnScreenRows DEF RowType, NoSeq
<1>4. highWater \in [Sources -> {-1} \cup Nat]
  BY DEF TypeOK
<1>5. \A o \in OnScreen : rows[o].src \in Sources /\ rows[o].seq \in {-1} \cup Nat
  BY OnScreenRows DEF RowType, NoSeq
<1>6. Marks(rows, highWater, OnScreen)
  BY MarksNow
<1> HIDE DEF s, q
<1>7. ASSUME NEW t \in Sources
      PROVE  /\ \A o \in OnScreen' : rows[o].src = t => rows[o].seq <= highWater'[t]
             /\ highWater'[t] = -1
                \/ \E o \in OnScreen' : rows[o].src = t /\ rows[o].seq = highWater'[t]
  <2>1. CASE t = s
    <3>1. highWater'[t] = IF q > highWater[t] THEN q ELSE highWater[t]
      BY <1>1, <1>3, <1>4, <2>1
    <3>2. highWater[t] \in {-1} \cup Nat
      BY <1>4
    <3>3. \A o \in OnScreen : rows[o].src = t => rows[o].seq <= highWater[t]
      BY <1>6 DEF Marks
    <3>4. \A o \in OnScreen' : rows[o].src = t => rows[o].seq <= highWater'[t]
      BY <1>2, <1>3, <1>5, <3>1, <3>2, <3>3 DEF q
    <3>5. highWater'[t] = -1
          \/ \E o \in OnScreen' : rows[o].src = t /\ rows[o].seq = highWater'[t]
      BY <1>2, <1>6, <2>1, <3>1 DEF Marks, q, s
    <3> QED BY <3>4, <3>5
  <2>2. CASE t # s
    <3>1. highWater'[t] = highWater[t]
      BY <1>1, <1>3, <1>4, <2>2
    <3> QED BY <1>2, <1>6, <2>2, <3>1 DEF Marks, s
  <2> QED BY <2>1, <2>2
<1> QED BY <1>7, MarksNext DEF Marks

\* Two rows of a source with the same sequence are the same row.
LEMMA SequencesUnique ==
  ASSUME TypeOK, ShownOnce, Numbered,
         NEW o \in 1 .. Len(rows), NEW p \in 1 .. Len(rows),
         rows[o].src = rows[p].src, rows[o].seq = rows[p].seq, Sequenced(o)
  PROVE  o = p
<1>1. Sequenced(p)
  BY DEF Sequenced
<1>2. rows[o].seq \in Nat
  BY OnScreenRows DEF RowType, Sequenced
<1>3. ~(o < p) /\ ~(p < o)
  BY <1>1, <1>2, OnScreenRows DEF Numbered
<1> QED BY <1>3, OnScreenRows

\* The sequences of a source on screen, as in HolesAreFlagged.
Filled(r, S, s, a, b) ==
  \A q \in a .. b : \E o \in S : r[o].src = s /\ r[o].seq = q

\* A row that is listed leaves no hole, or is flagged as STALE.
LEMMA AppendHoles ==
  ASSUME TypeOK, ShownOnce, Numbered, HighWaterExact, HolesAreFlagged,
         NEW f \in 1 .. Len(rows), Appended(f), rows' = rows
  PROVE  HolesAreFlagged'
<1> DEFINE s == rows[f].src
           x == rows[f].seq
           hw == highWater[s]
<1>1. f \notin OnScreen /\ Show(f) /\ x # NoSeq /\ ~(hw >= 0 /\ x > hw + 1)
      /\ anomalies' = IF x < hw /\ hw >= 0 THEN anomalies \cup {<<"STALE", s>>} ELSE anomalies
  BY DEF Appended, Duplicate, Sequenced, IsGap
<1>2. OnScreen' = OnScreen \cup {f}
  BY <1>1, ShowEffect
<1>3. s \in Sources /\ x \in Nat /\ hw \in {-1} \cup Nat
  BY <1>1, OnScreenRows DEF RowType, NoSeq, TypeOK
<1>4. \A o \in OnScreen : rows[o].src \in Sources /\ rows[o].seq \in {-1} \cup Nat
  BY OnScreenRows DEF RowType, NoSeq
<1>5. \A o \in OnScreen : rows[o].src = s => rows[o].seq <= hw
  BY MarksNow, <1>3 DEF Marks
<1>6. hw = -1 \/ \E o \in OnScreen : rows[o].src = s /\ rows[o].seq = hw
  BY MarksNow, <1>3 DEF Marks
<1>7. SUFFICES ASSUME NEW o \in OnScreen', NEW p \in OnScreen',
                      rows[o].src = rows[p].src, rows[o].seq # NoSeq, rows[p].seq # NoSeq,
                      <<"STALE", rows[o].src>> \notin anomalies',
                      NEW q \in rows[o].seq .. rows[p].seq
               PROVE  \E r \in OnScreen' : rows[r].src = rows[o].src /\ rows[r].seq = q
  BY DEF HolesAreFlagged, Sequenced
<1>8. anomalies \subseteq anomalies'
  BY <1>1
<1>9. \A a, b \in OnScreen :
        rows[a].src = rows[b].src /\ rows[a].src = rows[o].src
        /\ rows[a].seq # NoSeq /\ rows[b].seq # NoSeq
        => Filled(rows, OnScreen, rows[o].src, rows[a].seq, rows[b].seq)
  <2> SUFFICES ASSUME NEW a \in OnScreen, NEW b \in OnScreen,
                      rows[a].src = rows[b].src, rows[a].src = rows[o].src,
                      Sequenced(a), Sequenced(b)
               PROVE  Filled(rows, OnScreen, rows[o].src, rows[a].seq, rows[b].seq)
    BY DEF Sequenced
  <2>1. <<"STALE", rows[a].src>> \notin anomalies
    BY <1>7, <1>8
  <2>2. \A y \in rows[a].seq .. rows[b].seq :
          \E r \in OnScreen : rows[r].src = rows[a].src /\ rows[r].seq = y
    BY <2>1 DEF HolesAreFlagged
  <2> QED BY <2>2 DEF Filled
<1>10. rows[o].seq \in Nat /\ rows[p].seq \in Nat
  BY <1>2, <1>3, <1>4, <1>7 DEF NoSeq
<1>11. CASE rows[o].src # s
  <2>1. o \in OnScreen /\ p \in OnScreen
    BY <1>2, <1>7, <1>11
  <2> QED BY <1>2, <1>7, <1>9, <2>1 DEF Filled
<1>12. CASE rows[o].src = s
  <2>1. ~(x < hw /\ hw >= 0)
    BY <1>1, <1>7, <1>12
  <2>2. x # hw
    <3>1. SUFFICES ASSUME x = hw PROVE FALSE
      OBVIOUS
    <3>2. PICK a \in OnScreen : rows[a].src = s /\ rows[a].seq = hw
      BY <1>3, <1>6, <3>1
    <3>3. a = f
      BY <1>1, <3>1, <3>2, SequencesUnique, OnScreenRows DEF Sequenced
    <3> QED BY <1>1, <3>2, <3>3
  <2>3. hw = -1 \/ x = hw + 1
    BY <1>1, <1>3, <2>1, <2>2
  <2>4. CASE q = x
    BY <1>2, <1>12, <2>4
  <2>5. CASE q # x
    <3>1. rows[p].seq <= x /\ (p # f => rows[p].seq <= hw) /\ (o # f => rows[o].seq <= hw)
      <4>1. p # f => rows[p].seq <= hw
        BY <1>2, <1>5, <1>7, <1>12
      <4>2. o # f => rows[o].seq <= hw
        BY <1>2, <1>5, <1>12
      <4>3. hw <= x
        BY <1>3, <2>3
      <4>4. rows[p].seq <= x
        BY <1>3, <1>10, <4>1, <4>3
      <4> QED BY <4>1, <4>2, <4>4
    <3>2. q \in Nat /\ q < x /\ rows[o].seq <= q
      BY <1>3, <1>7, <1>10, <2>5, <3>1
    <3>3. o # f
      BY <1>3, <3>2
    <3>4. o \in OnScreen /\ hw \in Nat /\ x = hw + 1
      BY <1>2, <1>3, <1>7, <1>10, <2>3, <3>1, <3>3
    <3>5. PICK a \in OnScreen : rows[a].src = s /\ rows[a].seq = hw
      BY <1>6, <3>4
    <3>6. Filled(rows, OnScreen, rows[o].src, rows[o].seq, hw)
      BY <1>7, <1>9, <1>12, <3>4, <3>5 DEF NoSeq
    <3>7. q \in rows[o].seq .. hw
      BY <1>3, <1>10, <3>2, <3>4
    <3> QED BY <1>2, <3>6, <3>7 DEF Filled
  <2> QED BY <2>4, <2>5
<1> QED BY <1>11, <1>12

\* A frame leaves the screen alone or adds its row.
LEMMA ReceiveScreen ==
  ASSUME TypeOK, ShownOnce, NEW f \in {BadFrame} \cup 1 .. Len(rows), Receive(f), rows' = rows
  PROVE  \/ OnScreen' = OnScreen
         \/ f \in (1 .. Len(rows)) \ OnScreen /\ OnScreen' = OnScreen \cup {f}
<1>1. CASE Buffered(f) \/ IgnoredFrame(f) \/ Gap(f)
  BY <1>1 DEF Buffered, IgnoredFrame, Gap, OnScreen
<1>2. CASE Unsequenced(f) \/ Appended(f)
  <2>1. f \in 1 .. Len(rows) /\ f \notin OnScreen /\ Show(f)
    BY <1>2 DEF Unsequenced, Appended, Duplicate
  <2> QED BY <2>1, ShowEffect
<1> QED BY <1>1, <1>2 DEF Receive

\* receiveLive keeps the invariants about the list.
LEMMA ReceiveList ==
  ASSUME IInv, NEW f \in {BadFrame} \cup 1 .. Len(rows), Receive(f), rows' = rows
  PROVE  ShownOnce' /\ HighWaterExact' /\ HolesAreFlagged'
<1>0. TypeOK /\ Numbered /\ ShownOnce /\ HighWaterExact /\ HolesAreFlagged
  BY DEF IInv
<1>1. CASE Buffered(f) \/ IgnoredFrame(f)
  <2>1. UNCHANGED <<shown, highWater, anomalies, rows>>
    BY <1>1 DEF Buffered, IgnoredFrame
  <2> QED BY <1>0, <2>1 DEF ShownOnce, HighWaterExact, HolesAreFlagged, HighWaterOf,
                           OnScreen, Sequenced
<1>2. CASE Gap(f)
  <2>1. UNCHANGED <<shown, highWater, rows>> /\ anomalies \subseteq anomalies'
    BY <1>2 DEF Gap
  <2>2. OnScreen' = OnScreen
    BY <2>1 DEF OnScreen
  <2>3. ShownOnce' /\ HighWaterExact'
    BY <1>0, <2>1, <2>2 DEF ShownOnce, HighWaterExact, HighWaterOf
  <2>4. HolesAreFlagged'
    BY <1>0, <2>1, <2>2 DEF HolesAreFlagged, Sequenced
  <2> QED BY <2>3, <2>4
<1>3. CASE Appended(f)
  <2>1. f \in 1 .. Len(rows) /\ f \notin OnScreen /\ Show(f)
    BY <1>3 DEF Appended, Duplicate
  <2> QED BY <1>0, <1>3, <2>1, ShowEffect, AppendMarks, AppendHoles
<1>4. CASE Unsequenced(f)
  <2>1. f \in 1 .. Len(rows) /\ f \notin OnScreen /\ Show(f) /\ rows[f].seq = NoSeq
        /\ UNCHANGED <<highWater, anomalies>>
    BY <1>4 DEF Unsequenced, Duplicate, Sequenced
  <2>2. ShownOnce' /\ OnScreen' = OnScreen \cup {f}
    BY <1>0, <2>1, ShowEffect
  <2>3. highWater \in [Sources -> {-1} \cup Nat]
    BY <1>0 DEF TypeOK
  <2>4. Marks(rows, highWater, OnScreen)
    BY <1>0, MarksNow
  <2>5. Marks(rows', highWater', OnScreen')
    BY <2>1, <2>2, <2>3, <2>4 DEF Marks, NoSeq
  <2>6. HolesAreFlagged'
    BY <1>0, <2>1, <2>2 DEF HolesAreFlagged, Sequenced
  <2> QED BY <2>2, <2>5, <2>6, MarksNext
<1> QED BY <1>1, <1>2, <1>3, <1>4 DEF Receive

\* receiveLive keeps the invariants about the loads under way.
LEMMA ReceiveLoads ==
  ASSUME IInv, NEW f \in {BadFrame} \cup 1 .. Len(rows), Receive(f), rows' = rows,
         UNCHANGED <<durableReady, fails>>
  PROVE  UnreadyIsLoading' /\ CatchUpIsPending'
<1>0. TypeOK /\ ShownOnce /\ UnreadyIsLoading /\ CatchUpIsPending
  BY DEF IInv
<1>1. CASE Buffered(f) \/ IgnoredFrame(f)
  BY <1>0, <1>1 DEF Buffered, IgnoredFrame, UnreadyIsLoading, CatchUpIsPending
<1>2. CASE Gap(f)
  <2>1. /\ \A i \in LoadIds : load[i].kind # "none" => load'[i] = load[i]
        /\ \E i \in LoadIds : load'[i].kind = "gap"
    BY <1>0, <1>2, StartLoadEffect DEF Gap
  <2> QED BY <1>0, <2>1 DEF UnreadyIsLoading, CatchUpIsPending
<1>3. CASE Unsequenced(f) \/ Appended(f)
  <2>1. f \in 1 .. Len(rows) /\ f \notin OnScreen /\ Show(f) /\ load' = load
    BY <1>3 DEF Unsequenced, Appended, Duplicate
  <2>2. state' = "CATCHING_UP" => ~durableReady
    BY <1>0, <2>1, ShowEffect
  <2> QED BY <1>0, <2>1, <2>2 DEF UnreadyIsLoading, CatchUpIsPending
<1> QED BY <1>1, <1>2, <1>3 DEF Receive

-----------------------------------------------------------------------------
(***************************************************************************)
(* The steps.                                                              *)
(***************************************************************************)
\* What a step that touches neither the rows nor the list keeps.
LEMMA ListKept ==
  ASSUME IInv, UNCHANGED <<rows, ledger, shown, highWater, anomalies>>
  PROVE  Numbered' /\ ShownOnce' /\ HighWaterExact' /\ HolesAreFlagged' /\ OnScreen' = OnScreen
<1>1. OnScreen' = OnScreen
  BY DEF OnScreen
<1> QED BY <1>1 DEF IInv, Numbered, ShownOnce, HighWaterExact, HighWaterOf, HolesAreFlagged,
                    Sequenced

LEMMA DeliverStep ==
  ASSUME IInv, NEW f \in Frames, Deliver(f)
  PROVE  IInv'
<1>1. f \in {BadFrame} \cup 1 .. Len(rows) /\ Receive(f) /\ net' \subseteq net
      /\ UNCHANGED <<storeVars, chan, latchVars, bootstrapped, job, tail, countVars>>
  BY DEF IInv, TypeOK, Deliver
<1>2. TypeOK'
  BY <1>1, ReceiveType DEF IInv, TypeOK, storeVars, latchVars, countVars
<1>3. Numbered'
  BY <1>1 DEF IInv, Numbered, Sequenced, storeVars
<1> QED BY <1>1, <1>2, <1>3, ReceiveList, ReceiveLoads DEF IInv, storeVars, latchVars, countVars

LEMMA ReplayFrameStep ==
  ASSUME IInv, ReplayFrame
  PROVE  IInv'
<1>0. job \in Seq({BadFrame} \cup 1 .. Len(rows)) /\ job # <<>>
  BY DEF IInv, TypeOK, ReplayFrame
<1>1. Head(job) \in {BadFrame} \cup 1 .. Len(rows)
      /\ job' \in Seq({BadFrame} \cup 1 .. Len(rows))
  BY <1>0 DEF ReplayFrame
<1>2. Receive(Head(job)) /\ UNCHANGED <<storeVars, chan, net, latchVars, bootstrapped, tail, countVars>>
  BY DEF ReplayFrame
<1>3. TypeOK'
  BY <1>1, <1>2, ReceiveType DEF IInv, TypeOK, storeVars, latchVars, countVars
<1>4. Numbered'
  BY <1>2 DEF IInv, Numbered, Sequenced, storeVars
<1> QED BY <1>1, <1>2, <1>3, <1>4, ReceiveList, ReceiveLoads
        DEF IInv, storeVars, latchVars, countVars

\* A new row has the largest sequence of its source and is not listed yet.
LEMMA InsertStep ==
  ASSUME IInv, NEW s \in Sources, NEW q \in {NoSeq, ledger[s]}, Insert(s, q)
  PROVE  IInv' /\ OnScreen' = OnScreen /\ Len(rows') = Len(rows) + 1
<1> DEFINE n == Len(rows)
           row == [src |-> s, seq |-> q]
<1>0. TypeOK /\ Numbered /\ ShownOnce /\ HighWaterExact /\ HolesAreFlagged
      /\ UnreadyIsLoading /\ CatchUpIsPending
  BY DEF IInv
<1>1. rows' = Append(rows, row) /\ n < MaxRows
      /\ ledger' = [ledger EXCEPT ![s] = IF q = NoSeq THEN @ ELSE @ + 1]
      /\ net' \subseteq net \cup {n + 1}
      /\ UNCHANGED <<page, chan, load, state, shown, highWater, anomalies, latchVars,
                     bootstrapped, buffer, job, tail, countVars>>
  BY DEF Insert
<1>2. rows \in Seq(RowType) /\ ledger \in [Sources -> Nat] /\ n \in Nat /\ MaxRows \in Nat
  BY <1>0, BoundsAssumption DEF TypeOK, RowType
<1>3. q \in {NoSeq} \cup Nat /\ row \in RowType
  BY <1>2 DEF RowType
<1>4. rows' \in Seq(RowType) /\ Len(rows') = n + 1 /\ DOMAIN rows' = 1 .. (n + 1)
      /\ rows'[n + 1] = row /\ \A o \in 1 .. n : rows'[o] = rows[o]
  BY <1>1, <1>2, <1>3
<1>5. ledger' \in [Sources -> Nat]
      /\ \A t \in Sources : ledger'[t] = IF t = s /\ q # NoSeq THEN ledger[t] + 1 ELSE ledger[t]
  BY <1>1, <1>2
<1>6. 1 .. n \subseteq 1 .. (n + 1)
  BY <1>2
<1>7. {BadFrame} \cup 1 .. n \subseteq {BadFrame} \cup 1 .. (n + 1)
  BY <1>6
<1>8. TypeOK'
  <2>1. buffer \in Seq({BadFrame} \cup 1 .. (n + 1)) /\ job \in Seq({BadFrame} \cup 1 .. (n + 1))
    BY <1>0, <1>7 DEF TypeOK
  <2>2. net' \subseteq 1 .. (n + 1) /\ page \in 0 .. (n + 1)
    BY <1>0, <1>1, <1>2 DEF TypeOK
  <2>3. \A i \in LoadIds : load[i].snap <= n + 1
    <3>1. \A i \in LoadIds : load[i] \in Loads /\ load[i].snap <= n
      BY <1>0 DEF TypeOK
    <3>2. \A i \in LoadIds : load[i].snap \in Int
      BY <1>2, <3>1 DEF Loads, Unread
    <3> QED BY <1>2, <3>1, <3>2
  <2>4. rows' \in Seq([src : Sources, seq : {NoSeq} \cup Nat]) /\ Len(rows') <= MaxRows
    BY <1>1, <1>2, <1>4 DEF RowType
  <2> QED BY <1>0, <1>1, <1>4, <1>5, <2>1, <2>2, <2>3, <2>4 DEF TypeOK, latchVars, countVars
<1>9. \A o \in 1 .. n : rows[o].src \in Sources /\ rows[o].seq \in {NoSeq} \cup Nat
  BY <1>0, OnScreenRows DEF RowType
<1>10. Numbered'
  <2>0. DOMAIN rows = 1 .. n
    BY <1>2
  <2>1. ASSUME NEW o \in 1 .. (n + 1)
        PROVE  rows'[o].seq = NoSeq \/ rows'[o].seq \in 0 .. (ledger'[rows'[o].src] - 1)
    <3>1. CASE o = n + 1
      BY <1>2, <1>3, <1>4, <1>5, <3>1
    <3>2. CASE o # n + 1
      <4>1. o \in 1 .. n /\ rows'[o] = rows[o]
        BY <1>2, <1>4, <3>2
      <4>2. rows[o].seq = NoSeq \/ rows[o].seq \in 0 .. (ledger[rows[o].src] - 1)
        BY <1>0, <2>0, <4>1 DEF Numbered
      <4> QED BY <1>2, <1>5, <1>9, <4>1, <4>2
    <3> QED BY <3>1, <3>2
  <2>2. ASSUME NEW t \in Sources, NEW x \in 0 .. (ledger'[t] - 1)
        PROVE  \E o \in 1 .. (n + 1) : rows'[o].src = t /\ rows'[o].seq = x
    <3>1. CASE x \in 0 .. (ledger[t] - 1)
      <4>1. PICK o \in 1 .. n : rows[o].src = t /\ rows[o].seq = x
        BY <1>0, <2>0, <3>1 DEF Numbered
      <4> QED BY <1>4, <1>6, <4>1
    <3>2. CASE x \notin 0 .. (ledger[t] - 1)
      <4>1. t = s /\ q # NoSeq /\ x = ledger[s]
        BY <1>2, <1>5, <3>2
      <4>2. rows'[n + 1].src = t /\ rows'[n + 1].seq = x /\ n + 1 \in 1 .. (n + 1)
        BY <1>2, <1>4, <4>1
      <4> QED BY <4>2
    <3> QED BY <3>1, <3>2
  <2>3. ASSUME NEW o \in 1 .. (n + 1), NEW p \in 1 .. (n + 1), o < p,
               rows'[o].src = rows'[p].src, rows'[o].seq # NoSeq, rows'[p].seq # NoSeq
        PROVE  rows'[o].seq < rows'[p].seq
    <3>1. o \in 1 .. n /\ rows'[o] = rows[o]
      BY <1>2, <1>4, <2>3
    <3>2. CASE p = n + 1
      <4>1. rows[o].seq \in 0 .. (ledger[rows[o].src] - 1)
        BY <1>0, <2>0, <2>3, <3>1 DEF Numbered
      <4>2. rows[o].src = s /\ rows'[p].seq = ledger[s]
        BY <1>4, <2>3, <3>1, <3>2
      <4> QED BY <1>2, <3>1, <4>1, <4>2
    <3>3. CASE p # n + 1
      <4>1. p \in 1 .. n /\ rows'[p] = rows[p]
        BY <1>2, <1>4, <3>3
      <4> QED BY <1>0, <2>0, <2>3, <3>1, <4>1 DEF Numbered, Sequenced
    <3> QED BY <3>2, <3>3
  <2> QED BY <1>4, <2>1, <2>2, <2>3 DEF Numbered, Sequenced
<1>11. OnScreen' = OnScreen /\ OnScreen \subseteq 1 .. n
  BY <1>0, <1>1, OnScreenRows DEF OnScreen
<1>12. ShownOnce'
  BY <1>0, <1>1, <1>2, <1>4 DEF ShownOnce, Ordinals
<1>13. HighWaterExact'
  <2>1. Marks(rows, highWater, OnScreen)
    BY <1>0, MarksNow
  <2>2. Marks(rows', highWater', OnScreen')
    BY <1>1, <1>4, <1>11, <2>1 DEF Marks
  <2> QED BY <2>2, MarksNext
<1>14. HolesAreFlagged'
  <2>1. \A o \in OnScreen : rows'[o] = rows[o]
    BY <1>4, <1>11
  <2> QED BY <1>0, <1>1, <1>11, <2>1 DEF HolesAreFlagged, Sequenced
<1>15. UnreadyIsLoading' /\ CatchUpIsPending'
  BY <1>0, <1>1 DEF UnreadyIsLoading, CatchUpIsPending, latchVars, countVars
<1> QED BY <1>4, <1>8, <1>10, <1>11, <1>12, <1>13, <1>14, <1>15 DEF IInv

LEMMA StoreReadStep ==
  ASSUME IInv, NEW i \in LoadIds, StoreRead(i)
  PROVE  IInv'
<1> DEFINE v == IF FixedStore THEN page ELSE Len(rows)
<1>0. TypeOK /\ UnreadyIsLoading /\ CatchUpIsPending
  BY DEF IInv
<1>1. load' = [load EXCEPT ![i].snap = v]
      /\ UNCHANGED <<storeVars, chan, net, state, shown, highWater, anomalies, latchVars,
                     bootstrapped, buffer, job, tail, countVars>>
  BY DEF StoreRead
<1>2. Len(rows) \in Nat /\ Len(rows) <= MaxRows /\ page \in 0 .. Len(rows) /\ MaxRows \in Nat
      /\ load \in [LoadIds -> Loads]
  BY <1>0, BoundsAssumption DEF TypeOK
<1>3. v \in 0 .. MaxRows /\ v <= Len(rows)
  BY <1>2
<1>4. load' \in [LoadIds -> Loads]
  BY <1>1, <1>2, <1>3 DEF Loads
<1>5. \A j \in LoadIds : load'[j].kind = load[j].kind
                          /\ load'[j].snap = IF j = i THEN v ELSE load[j].snap
  BY <1>1, <1>2 DEF Loads
<1>6. \A j \in LoadIds : load'[j].snap <= Len(rows)
  BY <1>0, <1>3, <1>5 DEF TypeOK
<1>7. TypeOK'
  BY <1>0, <1>1, <1>4, <1>6 DEF TypeOK, storeVars, latchVars, countVars
<1>8. UnreadyIsLoading' /\ CatchUpIsPending'
  BY <1>0, <1>1, <1>5 DEF UnreadyIsLoading, CatchUpIsPending, latchVars, countVars
<1> QED BY <1>1, <1>7, <1>8, ListKept DEF IInv, storeVars

\* After a load the list is a prefix of the rows, whose sources have no hole.
LEMMA PrefixHasNoHole ==
  ASSUME TypeOK, ShownOnce, Numbered, NEW n \in 0 .. Len(rows), NEW o \in 1 .. n, NEW p \in 1 .. n,
         rows[o].src = rows[p].src, Sequenced(o), Sequenced(p),
         NEW q \in rows[o].seq .. rows[p].seq
  PROVE  \E r \in 1 .. n : rows[r].src = rows[o].src /\ rows[r].seq = q
<1>1. Len(rows) \in Nat /\ DOMAIN rows = 1 .. Len(rows)
      /\ \A r \in 1 .. Len(rows) : rows[r].src \in Sources /\ rows[r].seq \in {NoSeq} \cup Nat
  BY OnScreenRows DEF RowType
<1>2. o \in 1 .. Len(rows) /\ p \in 1 .. Len(rows)
  BY <1>1
<1>3. rows[o].seq \in Nat /\ rows[p].seq \in Nat
  BY <1>1, <1>2 DEF Sequenced
<1>4. rows[p].seq \in 0 .. (ledger[rows[p].src] - 1)
  BY <1>1, <1>2 DEF Numbered, Sequenced
<1>5. ledger[rows[p].src] \in Nat
  BY <1>1, <1>2 DEF TypeOK
<1>6. q \in 0 .. (ledger[rows[p].src] - 1) /\ q \in Nat /\ q <= rows[p].seq
  BY <1>3, <1>4, <1>5
<1>7. PICK r \in 1 .. Len(rows) : rows[r].src = rows[p].src /\ rows[r].seq = q
  BY <1>1, <1>2, <1>6 DEF Numbered
<1>8. ~(p < r)
  <2>1. SUFFICES ASSUME p < r PROVE FALSE
    OBVIOUS
  <2>2. Sequenced(r)
    BY <1>6, <1>7 DEF Sequenced, NoSeq
  <2>3. rows[p].seq < rows[r].seq
    BY <1>1, <1>2, <1>7, <2>1, <2>2 DEF Numbered
  <2> QED BY <1>3, <1>6, <1>7, <2>3
<1>9. r \in 1 .. n
  BY <1>1, <1>7, <1>8
<1> QED BY <1>7, <1>9

LEMMA LoadDoneStep ==
  ASSUME IInv, NEW i \in LoadIds, LoadDone(i)
  PROVE  IInv' /\ load[i].snap \in 0 .. Len(rows) /\ OnScreen' = 1 .. load[i].snap
<1> DEFINE n == load[i].snap
<1>0. TypeOK /\ Numbered /\ ShownOnce /\ UnreadyIsLoading /\ CatchUpIsPending
  BY DEF IInv
<1>1. /\ n # Unread
      /\ shown' = Snapshot(n)
      /\ RebuildHighWater(n)
      /\ durableReady' = TRUE
      /\ bootstrapped' = (bootstrapped \/ load[i].kind = "boot")
      /\ state' = RecomputeState(n > 0, TRUE, transportReady)
      /\ job' = buffer
      /\ buffer' = <<>>
      /\ tail' = IF load[i].kind = "reconnect" THEN Append(tail, "ok") ELSE tail
      /\ load' = [load EXCEPT ![i] = NoLoad]
      /\ UNCHANGED <<storeVars, chan, net, anomalies, transportReady, hasConnected, countVars>>
  BY DEF LoadDone
<1>2. Len(rows) \in Nat /\ Len(rows) <= MaxRows /\ MaxRows \in Nat /\ load \in [LoadIds -> Loads]
      /\ n <= Len(rows) /\ tail \in Seq({"ok", "failed"}) /\ bootstrapped \in BOOLEAN
  BY <1>0, BoundsAssumption DEF TypeOK
<1>3. n \in 0 .. Len(rows)
  BY <1>1, <1>2 DEF Loads
<1>4. shown' \in [Ordinals -> Nat] /\ \A o \in Ordinals : shown'[o] = IF o <= n THEN 1 ELSE 0
  BY <1>1 DEF Snapshot
<1>5. OnScreen' = 1 .. n
  <2>1. ASSUME NEW o PROVE o \in OnScreen' <=> o \in 1 .. n
    BY <1>2, <1>3, <1>4 DEF OnScreen, Ordinals
  <2> QED BY <2>1
<1>6. NoLoad \in Loads /\ NoLoad.snap = -1 /\ NoLoad.kind = "none"
  BY DEF NoLoad, Loads, Unread
<1>7. load' \in [LoadIds -> Loads] /\ \A j \in LoadIds : load'[j].snap <= Len(rows)
  BY <1>0, <1>1, <1>2, <1>6 DEF TypeOK
<1>8. highWater' \in [Sources -> -1 .. MaxRows] /\ HighWaterOf(highWater', 1 .. n)
  BY <1>1 DEF RebuildHighWater
<1>9. TypeOK'
  <2>1. highWater' \in [Sources -> {-1} \cup Nat]
    BY <1>2, <1>8
  <2>2. tail' \in Seq({"ok", "failed"})
    BY <1>1, <1>2
  <2>4. bootstrapped' \in BOOLEAN /\ durableReady' \in BOOLEAN
    BY <1>1
  <2>3. state' \in LiveStates
    BY <1>1, RecomputeType
  <2>5. job' = buffer /\ buffer' = <<>>
        /\ UNCHANGED <<storeVars, chan, net, anomalies, transportReady, hasConnected, countVars>>
    BY <1>1
  <2> QED BY <1>0, <1>4, <1>7, <2>1, <2>2, <2>3, <2>4, <2>5 DEF TypeOK, storeVars, countVars
<1>10. Numbered'
  BY <1>0, <1>1 DEF Numbered, Sequenced, storeVars
<1>11. ShownOnce'
  BY <1>1, <1>2, <1>3, <1>4 DEF ShownOnce, Ordinals, storeVars
<1>12. HighWaterExact'
  BY <1>1, <1>5, <1>8 DEF HighWaterExact, HighWaterOf, storeVars
<1>13. HolesAreFlagged'
  BY <1>0, <1>1, <1>3, <1>5, PrefixHasNoHole DEF HolesAreFlagged, Sequenced, storeVars
<1>14. UnreadyIsLoading' /\ CatchUpIsPending'
  BY <1>1, RecomputeCatchingUp DEF UnreadyIsLoading, CatchUpIsPending
<1> QED BY <1>3, <1>5, <1>9, <1>10, <1>11, <1>12, <1>13, <1>14 DEF IInv

LEMMA LoadFailStep ==
  ASSUME IInv, NEW i \in LoadIds, LoadFail(i)
  PROVE  IInv'
<1>0. TypeOK
  BY DEF IInv
<1>1. /\ fails < MaxFails /\ fails' = fails + 1
      /\ load' = [load EXCEPT ![i] = NoLoad]
      /\ UNCHANGED <<storeVars, chan, net, shown, highWater, anomalies, durableReady,
                     hasConnected, bootstrapped, buffer, job, joins>>
  BY DEF LoadFail
<1>2. tail' \in Seq({"ok", "failed"})
  <2>1. tail' = tail \/ tail' = Append(tail, "failed")
    BY DEF LoadFail
  <2>2. tail \in Seq({"ok", "failed"})
    BY <1>0 DEF TypeOK
  <2> QED BY <2>1, <2>2
<1>9. transportReady' \in BOOLEAN
  BY <1>0 DEF LoadFail, TypeOK
<1>3. state' \in LiveStates
  BY <1>0, RecomputeType DEF LoadFail, LiveStates
<1>4. Len(rows) \in Nat /\ load \in [LoadIds -> Loads] /\ fails \in 0 .. MaxFails /\ MaxFails \in Nat
  BY <1>0, BoundsAssumption DEF TypeOK
<1>5. NoLoad \in Loads /\ NoLoad.snap = -1
  BY DEF NoLoad, Loads, Unread
<1>6. load' \in [LoadIds -> Loads] /\ \A j \in LoadIds : load'[j].snap <= Len(rows)
  BY <1>0, <1>1, <1>4, <1>5 DEF TypeOK
<1>7. fails' \in 0 .. MaxFails /\ fails' > 0
  BY <1>1, <1>4
<1>8. TypeOK'
  BY <1>0, <1>1, <1>2, <1>3, <1>6, <1>7, <1>9 DEF TypeOK, storeVars
<1> QED BY <1>1, <1>7, <1>8, ListKept DEF IInv, UnreadyIsLoading, CatchUpIsPending, storeVars

LEMMA ReconnectTailStep ==
  ASSUME IInv, ReconnectTail
  PROVE  IInv'
<1>0. TypeOK /\ UnreadyIsLoading /\ CatchUpIsPending
  BY DEF IInv
<1>1. tail \in Seq({"ok", "failed"}) /\ tail # <<>>
  BY <1>0 DEF TypeOK, ReconnectTail
<1>2. transportReady' \in BOOLEAN /\ tail' \in Seq({"ok", "failed"})
  <2>1. transportReady' \in BOOLEAN
    BY DEF ReconnectTail
  <2> QED BY <1>1, <2>1 DEF ReconnectTail
<1>3. UNCHANGED <<storeVars, chan, net, load, shown, highWater, anomalies, durableReady,
                 hasConnected, bootstrapped, buffer, job, countVars>>
  BY DEF ReconnectTail
<1>4. state' \in LiveStates /\ (state' = "CATCHING_UP" => ~durableReady \/ state = "CATCHING_UP")
  BY <1>0, RecomputeType, RecomputeCatchingUp DEF ReconnectTail, TypeOK
<1>5. TypeOK'
  BY <1>0, <1>2, <1>3, <1>4 DEF TypeOK, storeVars, countVars
<1>6. UnreadyIsLoading' /\ CatchUpIsPending'
  BY <1>0, <1>3, <1>4 DEF UnreadyIsLoading, CatchUpIsPending, countVars
<1> QED BY <1>3, <1>5, <1>6, ListKept DEF IInv, storeVars

LEMMA SubscribedStep ==
  ASSUME IInv, Subscribed
  PROVE  IInv'
<1>0. TypeOK /\ UnreadyIsLoading /\ CatchUpIsPending
  BY DEF IInv
<1>1. /\ joins < MaxJoins /\ joins' = joins + 1 /\ chan' = "joined"
      /\ UNCHANGED <<storeVars, net, shown, highWater, anomalies, bootstrapped, buffer,
                     job, tail, fails>>
  BY DEF Subscribed
<1>2. joins' \in 0 .. MaxJoins
  BY <1>0, <1>1, BoundsAssumption DEF TypeOK
<1>3. CASE FirstJoin
  <2>1. UNCHANGED <<load, durableReady>> /\ hasConnected' = TRUE /\ transportReady' = TRUE
    BY <1>3 DEF FirstJoin
  <2>2. state' \in LiveStates /\ (state' = "CATCHING_UP" => ~durableReady)
    BY <1>3, RecomputeType, RecomputeCatchingUp DEF FirstJoin
  <2>3. TypeOK'
    BY <1>0, <1>1, <1>2, <2>1, <2>2 DEF TypeOK, storeVars
  <2>4. UnreadyIsLoading' /\ CatchUpIsPending'
    BY <1>0, <1>1, <2>1, <2>2 DEF UnreadyIsLoading, CatchUpIsPending
  <2> QED BY <1>1, <2>3, <2>4, ListKept DEF IInv, storeVars
<1>4. CASE Reconnect
  <2>1. state' = "CATCHING_UP" /\ transportReady' = FALSE /\ durableReady' = FALSE
        /\ StartLoad("reconnect") /\ UNCHANGED hasConnected
    BY <1>4 DEF Reconnect
  <2>2. load' \in [LoadIds -> Loads] /\ (\A i \in LoadIds : load'[i].snap <= Len(rows))
        /\ \E i \in LoadIds : load'[i].kind = "reconnect"
    BY <1>0, <2>1, StartLoadEffect
  <2>3. TypeOK'
    BY <1>0, <1>1, <1>2, <2>1, <2>2 DEF TypeOK, storeVars, LiveStates
  <2>4. UnreadyIsLoading' /\ CatchUpIsPending'
    BY <2>2 DEF UnreadyIsLoading, CatchUpIsPending
  <2> QED BY <1>1, <2>3, <2>4, ListKept DEF IInv, storeVars
<1> QED BY <1>3, <1>4 DEF Subscribed

LEMMA ChannelStep ==
  ASSUME IInv, ChannelDown \/ OtherStatus \/ Unmount
  PROVE  IInv'
<1>0. TypeOK /\ UnreadyIsLoading /\ CatchUpIsPending
  BY DEF IInv
<1>1. UNCHANGED <<storeVars, load, shown, highWater, anomalies, durableReady,
                 hasConnected, bootstrapped, buffer, job, tail, countVars>>
  BY DEF ChannelDown, OtherStatus, Unmount, latchVars
<1>2. net' \subseteq net /\ transportReady' \in BOOLEAN
      /\ chan' \in {"idle", "connecting", "joined", "down", "left"}
  BY <1>0 DEF ChannelDown, OtherStatus, Unmount, latchVars, TypeOK
<1>3. state' \in LiveStates /\ (state' = "CATCHING_UP" => ~durableReady \/ state = "CATCHING_UP")
  BY <1>0, RecomputeType, RecomputeCatchingUp
     DEF ChannelDown, OtherStatus, Unmount, TypeOK, LiveStates
<1>4. TypeOK'
  BY <1>0, <1>1, <1>2, <1>3 DEF TypeOK, storeVars, countVars
<1>5. UnreadyIsLoading' /\ CatchUpIsPending'
  BY <1>0, <1>1, <1>3 DEF UnreadyIsLoading, CatchUpIsPending, countVars
<1> QED BY <1>1, <1>4, <1>5, ListKept DEF IInv, storeVars

-----------------------------------------------------------------------------
(***************************************************************************)
(* The invariant and what it gives.                                        *)
(***************************************************************************)
LEMMA InitInv == Init => IInv
<1> SUFFICES ASSUME Init PROVE IInv
  OBVIOUS
<1>1. PICK n \in 0 .. MaxRows :
        /\ \E src \in [1 .. n -> Sources], seq \in [1 .. n -> NoSeq .. (MaxRows - 1)] :
             rows = [o \in 1 .. n |-> [src |-> src[o], seq |-> seq[o]]]
        /\ ledger \in [Sources -> 0 .. MaxRows]
        /\ Numbered
        /\ page = IF FixedStore THEN n ELSE 0
  BY DEF Init
<1>2. MaxRows \in Nat /\ MaxLoads \in Nat \ {0} /\ MaxJoins \in Nat /\ MaxFails \in Nat
  BY BoundsAssumption
<1>3. PICK src \in [1 .. n -> Sources], seq \in [1 .. n -> NoSeq .. (MaxRows - 1)] :
        rows = [o \in 1 .. n |-> [src |-> src[o], seq |-> seq[o]]]
  BY <1>1
<1>4. \A o \in 1 .. n : seq[o] \in {NoSeq} \cup Nat
  BY <1>2, <1>3 DEF NoSeq
<1>5. rows \in Seq(RowType) /\ Len(rows) = n
  BY <1>2, <1>3, <1>4 DEF RowType
<1>6. load = [i \in LoadIds |-> IF i = 1 THEN [NoLoad EXCEPT !.kind = "boot"] ELSE NoLoad]
  BY DEF Init
<1>7. NoLoad \in Loads /\ [NoLoad EXCEPT !.kind = "boot"] \in Loads
      /\ NoLoad.snap = -1 /\ [NoLoad EXCEPT !.kind = "boot"].snap = -1
      /\ [NoLoad EXCEPT !.kind = "boot"].kind = "boot"
  BY DEF NoLoad, Loads, Unread
<1>8. load \in [LoadIds -> Loads] /\ 1 \in LoadIds /\ load[1].kind = "boot"
      /\ \A i \in LoadIds : load[i].snap = -1
  BY <1>2, <1>6, <1>7 DEF LoadIds
<1>9. OnScreen = {} /\ shown \in [Ordinals -> Nat] /\ \A o \in Ordinals : shown[o] = 0
  BY DEF Init, Hidden, OnScreen
<1>10. TypeOK
  <2>1. rows \in Seq([src : Sources, seq : {NoSeq} \cup Nat]) /\ Len(rows) <= MaxRows
    BY <1>1, <1>2, <1>5 DEF RowType
  <2>2. ledger \in [Sources -> Nat] /\ page \in 0 .. Len(rows)
    BY <1>1, <1>2, <1>5
  <2>3. \A i \in LoadIds : load[i].snap <= Len(rows)
    BY <1>1, <1>2, <1>5, <1>8
  <2>4. highWater \in [Sources -> {-1} \cup Nat] /\ joins \in 0 .. MaxJoins /\ fails \in 0 .. MaxFails
    BY <1>2 DEF Init
  <2>5. state \in LiveStates /\ chan \in {"idle", "connecting", "joined", "down", "left"}
    BY DEF Init, LiveStates
  <2>6. /\ net = {} /\ anomalies = {} /\ buffer = <<>> /\ job = <<>> /\ tail = <<>>
        /\ durableReady = FALSE /\ transportReady = FALSE
        /\ hasConnected = FALSE /\ bootstrapped = FALSE
    BY DEF Init
  <2>7. /\ net \subseteq 1 .. Len(rows) /\ anomalies \subseteq {"GAP", "STALE"} \X Sources
        /\ buffer \in Seq({BadFrame} \cup 1 .. Len(rows))
        /\ job \in Seq({BadFrame} \cup 1 .. Len(rows))
        /\ tail \in Seq({"ok", "failed"})
    BY <2>6
  <2>8. durableReady \in BOOLEAN /\ transportReady \in BOOLEAN
        /\ hasConnected \in BOOLEAN /\ bootstrapped \in BOOLEAN
    BY <2>6
  <2> QED BY <1>8, <1>9, <2>1, <2>2, <2>3, <2>4, <2>5, <2>7, <2>8 DEF TypeOK
<1>11. Marks(rows, highWater, OnScreen)
  BY <1>9 DEF Marks, Init
<1>12. ShownOnce /\ HolesAreFlagged
  BY <1>9 DEF ShownOnce, HolesAreFlagged
<1>13. UnreadyIsLoading /\ CatchUpIsPending
  BY <1>8 DEF UnreadyIsLoading, CatchUpIsPending
<1> QED BY <1>1, <1>10, <1>11, <1>12, <1>13, MarksNow DEF IInv

LEMMA NextInv == IInv /\ [Next]_vars => IInv'
<1> SUFFICES ASSUME IInv, [Next]_vars PROVE IInv'
  OBVIOUS
<1>1. ASSUME NEW s \in Sources, NEW q \in {NoSeq, ledger[s]}, Insert(s, q) PROVE IInv'
  BY <1>1, InsertStep
<1>2. ASSUME NEW f \in Frames, Deliver(f) PROVE IInv'
  BY <1>2, DeliverStep
<1>3. ASSUME NEW i \in LoadIds, StoreRead(i) \/ LoadDone(i) \/ LoadFail(i) PROVE IInv'
  BY <1>3, StoreReadStep, LoadDoneStep, LoadFailStep
<1>4. CASE ReplayFrame \/ ReconnectTail \/ Subscribed
  BY <1>4, ReplayFrameStep, ReconnectTailStep, SubscribedStep
<1>5. CASE ChannelDown \/ OtherStatus \/ Unmount
  BY <1>5, ChannelStep
<1>6. CASE UNCHANGED vars
  <2>1. TypeOK' /\ UnreadyIsLoading' /\ CatchUpIsPending'
    BY <1>6 DEF vars, IInv, TypeOK, UnreadyIsLoading, CatchUpIsPending
  <2> QED BY <1>6, <2>1, ListKept DEF vars, IInv
<1> QED BY <1>1, <1>2, <1>3, <1>4, <1>5, <1>6 DEF Next

LEMMA Invariance == Spec => []IInv
BY InitInv, NextInv, PTL DEF Spec

\* Type correctness, for any sources and bounds.
THEOREM LiveTypes == Spec => []TypeOK
BY Invariance, PTL DEF IInv

\* No interleaving of frames, loads and reconnects lists a row twice or lists
\* a row that was not committed.
THEOREM NoDuplicates == Spec => []ShownOnce
BY Invariance, PTL DEF IInv

\* The marks of the gap test are the largest listed sequences.
THEOREM MarksExact == Spec => []HighWaterExact
BY Invariance, PTL DEF IInv

\* A hole in a source's listed sequence was flagged STALE.
THEOREM HolesFlagged == Spec => []HolesAreFlagged
BY Invariance, PTL DEF IInv

\* CATCHING_UP always has a load out, until a load fails.
THEOREM CatchUpPending == Spec => []CatchUpIsPending
BY Invariance, PTL DEF IInv

-----------------------------------------------------------------------------
(***************************************************************************)
(* The console implements the view of a durable log.                       *)
(***************************************************************************)
LEMMA InitRefines == Init => View!Init
<1> SUFFICES ASSUME Init PROVE View!Init
  OBVIOUS
<1>1. Len(rows) \in Nat
  BY InitInv DEF IInv, TypeOK
<1>2. OnScreen = {}
  BY DEF Init, Hidden, OnScreen
<1> QED BY <1>1, <1>2 DEF View!Init

LEMMA FrameRefines ==
  ASSUME IInv, NEW f \in {BadFrame} \cup 1 .. Len(rows), Receive(f), UNCHANGED rows
  PROVE  View!Learn \/ UNCHANGED <<Len(rows), OnScreen>>
BY ReceiveScreen DEF IInv, View!Learn

\* Every step of the console is a commit, a lesson, a reload or no step of
\* the abstract view.
LEMMA NextRefines == IInv /\ [Next]_vars => [View!Next]_<<Len(rows), OnScreen>>
<1> SUFFICES ASSUME IInv, [Next]_vars PROVE [View!Next]_<<Len(rows), OnScreen>>
  OBVIOUS
<1>1. ASSUME NEW s \in Sources, NEW q \in {NoSeq, ledger[s]}, Insert(s, q)
      PROVE  View!Commit
  BY <1>1, InsertStep DEF View!Commit
<1>2. ASSUME NEW f \in Frames, Deliver(f)
      PROVE  View!Learn \/ UNCHANGED <<Len(rows), OnScreen>>
  <2>1. f \in {BadFrame} \cup 1 .. Len(rows) /\ Receive(f) /\ UNCHANGED rows
    BY <1>2 DEF IInv, TypeOK, Deliver, storeVars
  <2> QED BY <2>1, FrameRefines
<1>3. ASSUME ReplayFrame
      PROVE  View!Learn \/ UNCHANGED <<Len(rows), OnScreen>>
  <2>1. job \in Seq({BadFrame} \cup 1 .. Len(rows)) /\ job # <<>>
    BY <1>3 DEF IInv, TypeOK, ReplayFrame
  <2>2. Head(job) \in {BadFrame} \cup 1 .. Len(rows)
    BY <2>1
  <2>3. Receive(Head(job)) /\ UNCHANGED rows
    BY <1>3 DEF ReplayFrame, storeVars
  <2> QED BY <2>2, <2>3, FrameRefines
<1>4. ASSUME NEW i \in LoadIds, LoadDone(i)
      PROVE  View!Reload
  <2>1. load[i].snap \in 0 .. Len(rows) /\ OnScreen' = 1 .. load[i].snap
    BY <1>4, LoadDoneStep
  <2>2. UNCHANGED rows
    BY <1>4 DEF LoadDone, storeVars
  <2> QED BY <2>1, <2>2 DEF View!Reload
<1>5. ASSUME NEW i \in LoadIds, StoreRead(i) \/ LoadFail(i)
      PROVE  UNCHANGED <<Len(rows), OnScreen>>
  BY <1>5 DEF StoreRead, LoadFail, storeVars, OnScreen
<1>6. CASE ReconnectTail \/ Subscribed \/ ChannelDown \/ OtherStatus \/ Unmount
  BY <1>6 DEF ReconnectTail, Subscribed, ChannelDown, OtherStatus, Unmount, storeVars, OnScreen
<1>7. CASE UNCHANGED vars
  BY <1>7 DEF vars, OnScreen
<1> QED BY <1>1, <1>2, <1>3, <1>4, <1>5, <1>6, <1>7 DEF Next, View!Next

\* The live projection implements DurableView.
THEOREM ImplementsDurableView == Spec => ShowsDurableLog
<1>1. Init /\ [][Next]_vars /\ []IInv => View!Init /\ [][View!Next]_<<Len(rows), OnScreen>>
  BY InitRefines, NextRefines, PTL
<1> QED BY <1>1, Invariance, PTL DEF Spec, ShowsDurableLog, View!Spec
=============================================================================
