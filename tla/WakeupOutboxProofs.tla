------------------------- MODULE WakeupOutboxProofs -------------------------
(***************************************************************************)
(* What the wakeup outbox guarantees for any number of delivery processes, *)
(* intents, attempts, retries and crashes.                                 *)
(***************************************************************************)
EXTENDS WakeupOutbox, TLAPS

\* A process never holds a number beyond the next free one, and the number it
\* is about to record an unaccepted pointer under is within the policy.
NumbersHeld ==
  \A w \in Workers :
    /\ pc[w] \in {"check", "call", "record", "fallback", "recordFallback"}
         => job[w].n \in 1..(Len(attempts[job[w].intent]) + 1)
    /\ pc[w] \in {"check", "call", "record"} => job[w].n <= MaxAttempts

\* A process that recorded or is about to record a success called the
\* recipient.
AcceptedIsTaken ==
  \A w \in Workers :
    pc[w] \in {"record", "recordFallback"} /\ job[w].outcome = "accepted"
      => job[w].intent \in woken

Inv == TypeOK /\ NumbersHeld /\ AcceptedIsTaken /\ SummaryMatchesLog /\ DeliveredWasTaken

\* The three ways record_delivery_attempt can go, as one relation.
RecordStep(i, n, st) == Recorded(i, n, st) \/ AlreadyRecorded(i, n, st) \/ RecordRefused(i, n)

\* The empty outbox satisfies the invariant.
LEMMA InitInv == Init => Inv
<1> SUFFICES ASSUME Init PROVE Inv
  OBVIOUS
<1>1. TypeOK
  BY BudgetAssumption DEF Init, TypeOK, IntentState, AttemptState, PC, Job
<1>2. NumbersHeld /\ AcceptedIsTaken
  BY DEF Init, NumbersHeld, AcceptedIsTaken
<1>3. SummaryMatchesLog
  BY DEF Init, SummaryMatchesLog
<1>4. DeliveredWasTaken
  BY DEF Init, DeliveredWasTaken
<1> QED
  BY <1>1, <1>2, <1>3, <1>4 DEF Inv

\* Appending a row keeps the types and grows the log by one.
LEMMA RecordedFacts ==
  ASSUME TypeOK, NEW i \in Intents, NEW n \in Nat, NEW st \in AttemptState,
         Recorded(i, n, st)
  PROVE  /\ state' \in [Intents -> IntentState \cup {"ABSENT"}]
         /\ count' \in [Intents -> Nat]
         /\ attempts' \in [Intents -> Seq(AttemptState)]
         /\ attempts'[i] = Append(attempts[i], st)
         /\ Len(attempts'[i]) = n /\ n = Len(attempts[i]) + 1
         /\ count'[i] = n
         /\ state'[i] = IntentStateOf(st)
         /\ attempts'[i][n] = st
         /\ \A k \in 1..Len(attempts[i]) : attempts'[i][k] = attempts[i][k]
         /\ \A j \in Intents : j # i => /\ attempts'[j] = attempts[j]
                                        /\ count'[j] = count[j]
                                        /\ state'[j] = state[j]
<1>1. attempts[i] \in Seq(AttemptState)
  BY DEF TypeOK
<1>2. IntentStateOf(st) \in IntentState
  BY DEF IntentStateOf, IntentState, AttemptState, Success
<1>3. attempts'[i] = Append(attempts[i], st)
  BY DEF TypeOK, Recorded
<1>4. Append(attempts[i], st) \in Seq(AttemptState)
  BY <1>1
<1>5. /\ Len(Append(attempts[i], st)) = Len(attempts[i]) + 1
      /\ Append(attempts[i], st)[Len(attempts[i]) + 1] = st
      /\ \A k \in 1..Len(attempts[i]) : Append(attempts[i], st)[k] = attempts[i][k]
  BY <1>1
<1>6. attempts' \in [Intents -> Seq(AttemptState)]
  BY <1>3, <1>4 DEF TypeOK, Recorded
<1>7. /\ state' \in [Intents -> IntentState \cup {"ABSENT"}]
      /\ count' \in [Intents -> Nat]
      /\ count'[i] = n
      /\ state'[i] = IntentStateOf(st)
      /\ n = Len(attempts[i]) + 1
  BY <1>2 DEF TypeOK, Recorded
<1>8. \A j \in Intents : j # i => /\ attempts'[j] = attempts[j]
                                  /\ count'[j] = count[j]
                                  /\ state'[j] = state[j]
  BY DEF TypeOK, Recorded
<1> QED
  BY <1>3, <1>5, <1>6, <1>7, <1>8

\* A job with one field replaced is a job.
LEMMA JobUpdate ==
  ASSUME job \in [Workers -> Job], NEW w \in Workers
  PROVE  /\ \A i \in Intents : [job EXCEPT ![w].intent = i] \in [Workers -> Job]
         /\ \A n \in Nat : [job EXCEPT ![w].n = n] \in [Workers -> Job]
         /\ \A n \in Nat : [job EXCEPT ![w].seen = n] \in [Workers -> Job]
         /\ [job EXCEPT ![w].outcome = "accepted"] \in [Workers -> Job]
         /\ [job EXCEPT ![w].outcome = "rejected"] \in [Workers -> Job]
<1>1. job[w] \in Job
  OBVIOUS
<1>2. /\ \A i \in Intents : [job[w] EXCEPT !.intent = i] \in Job
      /\ \A n \in Nat : [job[w] EXCEPT !.n = n] \in Job
      /\ \A n \in Nat : [job[w] EXCEPT !.seen = n] \in Job
      /\ [job[w] EXCEPT !.outcome = "accepted"] \in Job
      /\ [job[w] EXCEPT !.outcome = "rejected"] \in Job
  BY <1>1 DEF Job
<1> QED
  BY <1>2

DbTypes ==
  /\ state \in [Intents -> IntentState \cup {"ABSENT"}]
  /\ count \in [Intents -> Nat]
  /\ attempts \in [Intents -> Seq(AttemptState)]

\* record_delivery_attempt keeps the log and the summary together, and never
\* shortens the log.
LEMMA RecordKeeps ==
  ASSUME TypeOK, SummaryMatchesLog, DeliveredWasTaken, UNCHANGED woken,
         NEW i \in Intents, NEW n \in Nat, NEW st \in AttemptState,
         st \in Success => i \in woken,
         RecordStep(i, n, st)
  PROVE  /\ DbTypes' /\ SummaryMatchesLog' /\ DeliveredWasTaken'
         /\ \A j \in Intents : Len(attempts[j]) <= Len(attempts'[j])
<1>0. \A j \in Intents : Len(attempts[j]) \in Nat
  BY DEF TypeOK
<1>1. CASE UNCHANGED db
  BY <1>0, <1>1 DEF TypeOK, DbTypes, SummaryMatchesLog, DeliveredWasTaken, db
<1>2. CASE Recorded(i, n, st)
  <2>1. DbTypes'
    BY <1>2, RecordedFacts DEF DbTypes
  <2>2. SummaryMatchesLog'
    <3> SUFFICES ASSUME NEW j \in Intents
                 PROVE  /\ count'[j] = Len(attempts'[j])
                        /\ state'[j] = "DELIVERED" =>
                             /\ attempts'[j] # <<>>
                             /\ attempts'[j][Len(attempts'[j])] \in Success
      BY DEF SummaryMatchesLog
    <3>1. CASE j # i
      <4>1. attempts'[j] = attempts[j] /\ count'[j] = count[j] /\ state'[j] = state[j]
        BY <3>1, <1>2, RecordedFacts, ZenonT(30)
      <4> QED
        BY <4>1 DEF SummaryMatchesLog
    <3>2. CASE j = i
      <4>1. count'[j] = Len(attempts'[j])
        BY <3>2, <1>2, RecordedFacts
      <4>2. ASSUME state'[j] = "DELIVERED" PROVE st \in Success
        <5>1. IntentStateOf(st) = "DELIVERED"
          BY <3>2, <4>2, <1>2, RecordedFacts
        <5> QED
          BY <5>1 DEF IntentStateOf, Success
      <4>3. attempts'[j] # <<>>
        <5>1. Len(attempts'[j]) = Len(attempts[j]) + 1
          BY <3>2, <1>2, RecordedFacts
        <5> QED
          BY <5>1, <1>0
      <4>4. attempts'[j][Len(attempts'[j])] = st
        BY <3>2, <1>2, RecordedFacts
      <4> QED
        BY <4>1, <4>2, <4>3, <4>4
    <3> QED
      BY <3>1, <3>2
  <2>3. DeliveredWasTaken'
    <3> SUFFICES ASSUME NEW j \in Intents,
                        state'[j] = "DELIVERED"
                          \/ \E k \in DOMAIN attempts'[j] : attempts'[j][k] \in Success
                 PROVE  j \in woken
      BY DEF DeliveredWasTaken
    <3>1. CASE j # i
      <4>1. state'[j] = state[j] /\ attempts'[j] = attempts[j]
        BY <3>1, <1>2, RecordedFacts
      <4> QED
        BY <4>1 DEF DeliveredWasTaken
    <3>2. CASE j = i
      <4>1. state'[j] = "DELIVERED" => st \in Success
        <5>1. state'[j] = IntentStateOf(st)
          BY <3>2, <1>2, RecordedFacts
        <5> QED
          BY <5>1 DEF IntentStateOf, Success
      <4>2. ASSUME NEW k \in DOMAIN attempts'[j], attempts'[j][k] \in Success
            PROVE  j \in woken
        <5>1. /\ attempts'[j] \in Seq(AttemptState) /\ attempts[j] \in Seq(AttemptState)
              /\ Len(attempts'[j]) = n /\ n = Len(attempts[j]) + 1
              /\ attempts'[j][n] = st
              /\ \A m \in 1..Len(attempts[j]) : attempts'[j][m] = attempts[j][m]
          BY <3>2, <1>2, RecordedFacts DEF TypeOK
        <5>2. k \in 1..n
          BY <5>1
        <5>3. CASE k = n
          BY <5>1, <5>3, <4>2, <3>2
        <5>4. CASE k # n
          <6>1. k \in DOMAIN attempts[j] /\ attempts[j][k] = attempts'[j][k]
            BY <5>1, <5>2, <5>4
          <6> QED
            BY <6>1, <4>2 DEF DeliveredWasTaken
        <5> QED
          BY <5>3, <5>4
      <4> QED
        BY <4>1, <4>2, <3>2
    <3> QED
      BY <3>1, <3>2
  <2>4. \A j \in Intents : Len(attempts[j]) <= Len(attempts'[j])
    <3> SUFFICES ASSUME NEW j \in Intents PROVE Len(attempts[j]) <= Len(attempts'[j])
      OBVIOUS
    <3>1. CASE j = i
      <4>1. Len(attempts'[j]) = Len(attempts[j]) + 1
        BY <3>1, <1>2, RecordedFacts
      <4> QED
        BY <4>1, <1>0
    <3>2. CASE j # i
      BY <3>2, <1>0, <1>2, RecordedFacts
    <3> QED
      BY <3>1, <3>2
  <2> QED
    BY <2>1, <2>2, <2>3, <2>4
<1> QED
  BY <1>1, <1>2 DEF RecordStep, AlreadyRecorded, RecordRefused

\* A step of one worker that reads only, or calls a callback.
LEMMA ReadStepInv ==
  ASSUME Inv, NEW w \in Workers,
         ListAttempts(w) \/ Check(w) \/ CallPrimary(w) \/ CallFallback(w)
           \/ BlockRead(w) \/ Crash(w) \/ \E i \in Intents : Start(w, i)
  PROVE  Inv'
<1>0. UNCHANGED db /\ woken \subseteq woken' /\ woken' \subseteq Intents
  BY DEF Inv, TypeOK, Job, ListAttempts, Check, CallPrimary, CallFallback, Invoke, BlockRead,
         Crash, Start
<1>1. DbTypes'
  BY <1>0 DEF Inv, TypeOK, DbTypes, db
<1>2. SummaryMatchesLog'
  BY <1>0 DEF Inv, SummaryMatchesLog, db
<1>3. DeliveredWasTaken'
  BY <1>0 DEF Inv, DeliveredWasTaken, db
<1>4. \A j \in Intents : Len(attempts[j]) \in Nat
  BY DEF Inv, TypeOK
<1>5. /\ pc' \in [Workers -> PC]
      /\ job' \in [Workers -> Job]
      /\ budget' \in [retry : Nat, crash : Nat]
  <2>1. CASE ListAttempts(w)
    <3>1. Len(attempts[job[w].intent]) + 1 \in Nat
      BY <1>4 DEF Inv, TypeOK, Job
    <3>2. job' \in [Workers -> Job]
      BY <2>1, <3>1, JobUpdate DEF Inv, TypeOK, ListAttempts, Job
    <3> QED
      BY <2>1, <3>2 DEF Inv, TypeOK, ListAttempts, Goto, PC
  <2>2. CASE Check(w)
    BY <2>2 DEF Inv, TypeOK, Check, Goto, PC
  <2>3. CASE CallPrimary(w) \/ CallFallback(w)
    <3>0. job' \in {[job EXCEPT ![w].outcome = "accepted"], [job EXCEPT ![w].outcome = "rejected"]}
      BY <2>3 DEF CallPrimary, CallFallback, Invoke
    <3>1. job \in [Workers -> Job]
      BY DEF Inv, TypeOK
    <3>2. /\ [job EXCEPT ![w].outcome = "accepted"] \in [Workers -> Job]
          /\ [job EXCEPT ![w].outcome = "rejected"] \in [Workers -> Job]
      BY <3>1, JobUpdate, Zenon
    <3>3. job' \in [Workers -> Job]
      BY <3>0, <3>2, Zenon
    <3> QED
      BY <2>3, <3>3 DEF Inv, TypeOK, CallPrimary, CallFallback, Invoke, Goto, PC
  <2>4. CASE BlockRead(w)
    <3>0. count[job[w].intent] \in Nat
      BY DEF Inv, TypeOK, Job
    <3>1. job' \in [Workers -> Job]
      BY <2>4, <3>0, JobUpdate DEF Inv, TypeOK, BlockRead, Job
    <3> QED
      BY <2>4, <3>1 DEF Inv, TypeOK, BlockRead, Goto, PC
  <2>5. CASE Crash(w)
    BY <2>5 DEF Inv, TypeOK, Crash, Goto, PC
  <2>6. CASE \E i \in Intents : Start(w, i)
    <3>0. PICK i \in Intents : job' = [job EXCEPT ![w].intent = i]
      BY <2>6 DEF Start
    <3>1. job' \in [Workers -> Job]
      BY <3>0, JobUpdate DEF Inv, TypeOK
    <3> QED
      BY <2>6, <3>1 DEF Inv, TypeOK, Start, Goto, PC
  <2> QED
    BY <2>1, <2>2, <2>3, <2>4, <2>5, <2>6
<1>6. TypeOK'
  BY <1>0, <1>1, <1>5 DEF TypeOK, DbTypes
<1>7. NumbersHeld' /\ AcceptedIsTaken'
  <2>0. \A v \in Workers : v # w => pc'[v] = pc[v] /\ job'[v] = job[v]
    BY DEF Inv, TypeOK, ListAttempts, Check, CallPrimary, CallFallback, Invoke, BlockRead,
           Crash, Start, Goto
  <2>1. \A v \in Workers : v # w =>
          /\ pc'[v] \in {"check", "call", "record", "fallback", "recordFallback"}
               => job'[v].n \in 1..(Len(attempts'[job'[v].intent]) + 1)
          /\ pc'[v] \in {"check", "call", "record"} => job'[v].n <= MaxAttempts
          /\ pc'[v] \in {"record", "recordFallback"} /\ job'[v].outcome = "accepted"
               => job'[v].intent \in woken'
    BY <2>0, <1>0 DEF Inv, NumbersHeld, AcceptedIsTaken, db
  <2>2. /\ pc'[w] \in {"check", "call", "record", "fallback", "recordFallback"}
             => job'[w].n \in 1..(Len(attempts'[job'[w].intent]) + 1)
        /\ pc'[w] \in {"check", "call", "record"} => job'[w].n <= MaxAttempts
        /\ pc'[w] \in {"record", "recordFallback"} /\ job'[w].outcome = "accepted"
             => job'[w].intent \in woken'
    <3>0. job[w].intent \in Intents
      BY DEF Inv, TypeOK, Job
    <3>1. CASE ListAttempts(w)
      <4>1. /\ job'[w].n = Len(attempts[job[w].intent]) + 1
            /\ job'[w].intent = job[w].intent
            /\ pc'[w] \in {"check", "fallback", "blockRead"}
            /\ pc'[w] = "check" => job'[w].n <= MaxAttempts
        BY <3>1, <3>0 DEF Inv, TypeOK, ListAttempts, Goto, Job
      <4> QED
        BY <4>1, <3>0, <1>0, <1>4 DEF db
    <3>2. CASE Check(w)
      BY <3>2, <1>0 DEF Inv, TypeOK, NumbersHeld, Check, Goto, db
    <3>3. CASE CallPrimary(w)
      <4>1. /\ pc[w] = "call"
            /\ job'[w].n = job[w].n /\ job'[w].intent = job[w].intent
            /\ job'[w].outcome = "accepted" => job[w].intent \in woken'
        BY <3>3 DEF Inv, TypeOK, Job, CallPrimary, Invoke
      <4>2. pc'[w] = "record"
        BY <3>3 DEF Inv, TypeOK, CallPrimary, Invoke, Goto
      <4> QED
        BY <4>1, <4>2, <1>0 DEF Inv, NumbersHeld, db
    <3>4. CASE CallFallback(w)
      <4>1. /\ pc[w] = "fallback"
            /\ job'[w].n = job[w].n /\ job'[w].intent = job[w].intent
            /\ job'[w].outcome = "accepted" => job[w].intent \in woken'
        BY <3>4 DEF Inv, TypeOK, Job, CallFallback, Invoke
      <4>2. pc'[w] = "recordFallback"
        BY <3>4 DEF Inv, TypeOK, CallFallback, Invoke, Goto
      <4> QED
        BY <4>1, <4>2, <1>0 DEF Inv, NumbersHeld, db
    <3>5. CASE BlockRead(w)
      BY <3>5 DEF Inv, TypeOK, BlockRead, Goto
    <3>6. CASE Crash(w)
      BY <3>6 DEF Inv, TypeOK, Crash, Goto
    <3>7. CASE \E i \in Intents : Start(w, i)
      BY <3>7 DEF Inv, TypeOK, Start, Goto
    <3> QED
      BY <3>1, <3>2, <3>3, <3>4, <3>5, <3>6, <3>7
  <2> QED
    BY <2>1, <2>2 DEF NumbersHeld, AcceptedIsTaken
<1> QED
  BY <1>2, <1>3, <1>6, <1>7 DEF Inv

\* Recording the outcome of a callback.
LEMMA RecordStepInv ==
  ASSUME Inv, NEW w \in Workers, RecordPrimary(w) \/ RecordFallback(w)
  PROVE  Inv'
<1> DEFINE i == job[w].intent
           n == job[w].n
<1>0. i \in Intents /\ n \in Nat /\ UNCHANGED <<woken, budget>>
  BY DEF Inv, TypeOK, Job, RecordPrimary, RecordFallback
<1>1. PICK st \in AttemptState : /\ RecordStep(i, n, st)
                                 /\ st \in Success => job[w].outcome = "accepted"
  <2>1. CASE RecordPrimary(w)
    <3>1. PrimaryState(job[w]) \in AttemptState
      BY DEF PrimaryState, AttemptState
    <3>2. PrimaryState(job[w]) \in Success => job[w].outcome = "accepted"
      BY DEF PrimaryState, Success
    <3> QED
      BY <2>1, <3>1, <3>2 DEF RecordPrimary, RecordStep
  <2>2. CASE RecordFallback(w)
    <3>1. FallbackState(job[w]) \in AttemptState
      BY DEF FallbackState, AttemptState
    <3>2. FallbackState(job[w]) \in Success => job[w].outcome = "accepted"
      BY DEF FallbackState, Success
    <3> QED
      BY <2>2, <3>1, <3>2 DEF RecordFallback, RecordStep
  <2> QED
    BY <2>1, <2>2
<1>2. job[w].outcome = "accepted" => i \in woken
  BY DEF Inv, AcceptedIsTaken, RecordPrimary, RecordFallback
<1>3. /\ DbTypes' /\ SummaryMatchesLog' /\ DeliveredWasTaken'
      /\ \A j \in Intents : Len(attempts[j]) <= Len(attempts'[j])
  <2> HIDE DEF i, n
  <2> QED
    BY <1>0, <1>1, <1>2, RecordKeeps DEF Inv
<1>4. \A j \in Intents : Len(attempts[j]) \in Nat /\ Len(attempts'[j]) \in Nat
  BY <1>3 DEF Inv, TypeOK, DbTypes
<1>5. /\ pc' \in [Workers -> PC]
      /\ job' \in [Workers -> Job]
  <2>1. pc' \in [Workers -> PC]
    BY DEF Inv, TypeOK, RecordPrimary, RecordFallback, Continue, Goto, PC
  <2>2. job' = job \/ job' = [job EXCEPT ![w].n = n + 1]
    BY DEF RecordPrimary, RecordFallback, Continue
  <2>3. n + 1 \in Nat
    BY <1>0
  <2>4. [job EXCEPT ![w].n = n + 1] \in [Workers -> Job]
    <3>1. \A m \in Nat : [job EXCEPT ![w].n = m] \in [Workers -> Job]
      BY <1>0, JobUpdate DEF Inv, TypeOK
    <3> QED
      BY <2>3, <3>1
  <2> QED
    BY <2>1, <2>2, <2>4 DEF Inv, TypeOK
<1>6. \A v \in Workers : v # w => pc'[v] = pc[v] /\ job'[v] = job[v]
  BY DEF Inv, TypeOK, RecordPrimary, RecordFallback, Continue, Goto
<1>7. NumbersHeld'
  <2>1. \A v \in Workers : v # w =>
          /\ pc'[v] \in {"check", "call", "record", "fallback", "recordFallback"}
               => job'[v].n \in 1..(Len(attempts'[job'[v].intent]) + 1)
          /\ pc'[v] \in {"check", "call", "record"} => job'[v].n <= MaxAttempts
    <3> SUFFICES ASSUME NEW v \in Workers, v # w
                 PROVE  /\ pc[v] \in {"check", "call", "record", "fallback", "recordFallback"}
                             => job[v].n \in 1..(Len(attempts'[job[v].intent]) + 1)
                        /\ pc[v] \in {"check", "call", "record"} => job[v].n <= MaxAttempts
      BY <1>6
    <3>1. job[v].intent \in Intents /\ job[v].n \in Nat
      BY DEF Inv, TypeOK, Job
    <3> QED
      BY <3>1, <1>3, <1>4 DEF Inv, NumbersHeld
  <2>2. CASE pc'[w] = "idle"
    BY <2>1, <2>2 DEF NumbersHeld
  <2>3. CASE pc'[w] # "idle"
    <3>0. RecordPrimary(w)
      BY <2>3 DEF Inv, TypeOK, RecordFallback, Goto
    <3>1. /\ n \in DOMAIN attempts[i] \/ Len(attempts'[i]) = n
          /\ n <= MaxAttempts
      <4>1. n <= MaxAttempts
        BY <3>0 DEF Inv, NumbersHeld, RecordPrimary
      <4>2. CASE Recorded(i, n, st)
        <5> HIDE DEF i, n
        <5> QED
          BY <4>1, <4>2, <1>0, RecordedFacts DEF Inv
      <4> QED
        BY <4>1, <4>2, <1>1 DEF RecordStep, AlreadyRecorded, RecordRefused
    <3>2. n <= Len(attempts'[i])
      <4>1. attempts[i] \in Seq(AttemptState)
        BY <1>0 DEF Inv, TypeOK
      <4> QED
        BY <3>1, <4>1, <1>0, <1>3, <1>4
    <3>3. /\ job'[w].n = n + 1 /\ job'[w].intent = i
          /\ pc'[w] \in {"check", "fallback"}
          /\ pc'[w] = "check" => n < MaxAttempts
      BY <3>0, <2>3 DEF Inv, TypeOK, Job, RecordPrimary, Continue, Goto
    <3>4. /\ job'[w].n \in 1..(Len(attempts'[job'[w].intent]) + 1)
          /\ pc'[w] = "check" => job'[w].n <= MaxAttempts
      BY <3>2, <3>3, <1>0, <1>4, PolicyAssumption
    <3> QED
      BY <2>1, <3>3, <3>4 DEF NumbersHeld
  <2> QED
    BY <2>2, <2>3
<1>8. AcceptedIsTaken'
  <2>1. pc'[w] \notin {"record", "recordFallback"}
    BY DEF Inv, TypeOK, RecordPrimary, RecordFallback, Continue, Goto
  <2> QED
    BY <2>1, <1>6, <1>0 DEF Inv, AcceptedIsTaken
<1> QED
  BY <1>0, <1>3, <1>5, <1>7, <1>8 DEF Inv, TypeOK, DbTypes

\* A transaction that only sets the state column, and not to DELIVERED.
LEMMA StateStepInv ==
  ASSUME Inv,
         (\E i \in Intents : CreateIntent(i) \/ PrepareRetry(i)) \/ \E w \in Workers : Block(w)
  PROVE  Inv'
<1>1. /\ UNCHANGED <<count, attempts, job, woken>>
      /\ state' \in [Intents -> IntentState \cup {"ABSENT"}]
      /\ \A j \in Intents : state'[j] = "DELIVERED" => state[j] = "DELIVERED"
  <2>1. CASE \E i \in Intents : CreateIntent(i)
    BY <2>1 DEF Inv, TypeOK, CreateIntent, IntentState
  <2>2. CASE \E i \in Intents : PrepareRetry(i)
    BY <2>2 DEF Inv, TypeOK, PrepareRetry, IntentState
  <2>3. CASE \E w \in Workers : Block(w)
    <3>1. PICK w \in Workers : Block(w)
      BY <2>3
    <3>2. PICK t \in IntentState \cup {"ABSENT"} :
            /\ state' = [state EXCEPT ![job[w].intent] = t]
            /\ t = "DELIVERED" => state[job[w].intent] = "DELIVERED"
      <4>1. job[w].intent \in Intents
        BY DEF Inv, TypeOK, Job
      <4>2. CASE count[job[w].intent] = job[w].seen
        BY <3>1, <4>2 DEF Block, IntentState
      <4>3. CASE count[job[w].intent] # job[w].seen
        BY <3>1, <4>1, <4>3 DEF Inv, TypeOK, Block
      <4> QED
        BY <4>2, <4>3
    <3>3. job[w].intent \in Intents
      BY DEF Inv, TypeOK, Job
    <3>4. UNCHANGED <<count, attempts, job, woken>>
      BY <3>1 DEF Block
    <3> QED
      BY <3>2, <3>3, <3>4 DEF Inv, TypeOK
  <2> QED
    BY <2>1, <2>2, <2>3
<1>2. /\ pc' \in [Workers -> PC]
      /\ budget' \in [retry : Nat, crash : Nat]
      /\ \A v \in Workers : pc'[v] \in {pc[v], "idle"}
  <2>1. CASE \E i \in Intents : CreateIntent(i)
    BY <2>1 DEF Inv, TypeOK, CreateIntent
  <2>2. CASE \E i \in Intents : PrepareRetry(i)
    <3>1. budget.retry \in Nat /\ budget.retry - 1 \in Nat
      BY <2>2 DEF Inv, TypeOK, PrepareRetry
    <3>2. budget' = [budget EXCEPT !.retry = budget.retry - 1] /\ UNCHANGED pc
      BY <2>2 DEF PrepareRetry
    <3> QED
      BY <3>1, <3>2 DEF Inv, TypeOK
  <2>3. CASE \E w \in Workers : Block(w)
    BY <2>3 DEF Inv, TypeOK, Block, Goto, PC
  <2> QED
    BY <2>1, <2>2, <2>3
<1>3. TypeOK'
  BY <1>1, <1>2 DEF Inv, TypeOK
<1>4. SummaryMatchesLog' /\ DeliveredWasTaken'
  BY <1>1 DEF Inv, SummaryMatchesLog, DeliveredWasTaken
<1>5. NumbersHeld' /\ AcceptedIsTaken'
  BY <1>1, <1>2 DEF Inv, NumbersHeld, AcceptedIsTaken
<1> QED
  BY <1>3, <1>4, <1>5 DEF Inv

\* Every step keeps the invariant.
LEMMA NextInv == Inv /\ [Next]_vars => Inv'
<1> SUFFICES ASSUME Inv, [Next]_vars PROVE Inv'
  OBVIOUS
<1>1. CASE UNCHANGED vars
  BY <1>1 DEF Inv, TypeOK, NumbersHeld, AcceptedIsTaken, SummaryMatchesLog, DeliveredWasTaken,
              vars
<1>2. CASE Next
  BY <1>2, ReadStepInv, RecordStepInv, StateStepInv DEF Next, Deliver
<1> QED
  BY <1>1, <1>2

\* The invariant holds in every behaviour of the outbox.
LEMMA Invariance == Spec => []Inv
  BY InitInv, NextInv, PTL DEF Spec

\* Type correctness of the outbox, for any number of processes and intents.
THEOREM OutboxTypes == Spec => []TypeOK
<1>1. Inv => TypeOK
  BY DEF Inv
<1> QED
  BY <1>1, Invariance, PTL

\* record_delivery_attempt keeps attempt_count, the state column and the log
\* of attempts together whatever the processes do.
THEOREM SummarySound == Spec => []SummaryMatchesLog
<1>1. Inv => SummaryMatchesLog
  BY DEF Inv
<1> QED
  BY <1>1, Invariance, PTL

\* No intent is recorded delivered whose recipient did not take the pointer.
THEOREM NoFalseDelivery == Spec => []DeliveredWasTaken
<1>1. Inv => DeliveredWasTaken
  BY DEF Inv
<1> QED
  BY <1>1, Invariance, PTL
-----------------------------------------------------------------------------
\* Without a fallback, a process holding a delivered intent can no longer
\* change it: its attempt number is taken, or the summary it read is old.
Stale(i, label, n, seen) ==
  i \notin HasFallback =>
    /\ label \notin {"fallback", "recordFallback"}
    /\ label \in {"call", "record"} /\ state[i] = "DELIVERED" => n <= Len(attempts[i])
    /\ label = "block" => seen <= count[i]
    /\ label = "block" /\ state[i] = "DELIVERED" => seen < count[i]

HeldIsStale == \A w \in Workers : Stale(job[w].intent, pc[w], job[w].n, job[w].seen)

\* What HeldIsStale is for: the database under a step that is not taken by w.
DbStep ==
  \A i \in Intents :
    /\ Len(attempts[i]) <= Len(attempts'[i])
    /\ count[i] <= count'[i]
    /\ state'[i] = "DELIVERED" =>
         state[i] = "DELIVERED" \/ (/\ Len(attempts'[i]) = Len(attempts[i]) + 1
                                    /\ count'[i] = count[i] + 1)

\* What one process holds of an intent stays stale under such a step.
LEMMA StaleKept ==
  ASSUME Inv, Inv', DbStep, NEW w \in Workers, HeldIsStale,
         pc'[w] = pc[w], job'[w] = job[w]
  PROVE  Stale(job[w].intent, pc[w], job[w].n, job[w].seen)'
<1>1. job[w].intent \in Intents /\ job[w].n \in Nat /\ job[w].seen \in Nat
  BY DEF Inv, TypeOK, Job
<1> DEFINE i == job[w].intent
<1>2. /\ Len(attempts[i]) \in Nat /\ Len(attempts'[i]) \in Nat
      /\ count[i] \in Nat /\ count'[i] \in Nat
  BY <1>1 DEF Inv, TypeOK
<1>3. /\ Len(attempts[i]) <= Len(attempts'[i])
      /\ count[i] <= count'[i]
      /\ state'[i] = "DELIVERED" =>
           state[i] = "DELIVERED" \/ (/\ Len(attempts'[i]) = Len(attempts[i]) + 1
                                      /\ count'[i] = count[i] + 1)
  BY <1>1 DEF DbStep
<1>4. Stale(i, pc[w], job[w].n, job[w].seen)
  BY DEF HeldIsStale
<1>5. pc[w] \in {"call", "record"} => job[w].n <= Len(attempts[i]) + 1
  BY <1>1, <1>2 DEF Inv, NumbersHeld
<1> HIDE DEF i
<1>6. Stale(i, pc[w], job[w].n, job[w].seen)'
  <2> SUFFICES ASSUME i \notin HasFallback
               PROVE  Stale(i, pc[w], job[w].n, job[w].seen)'
    BY DEF Stale, i
  <2>1. pc[w] \notin {"fallback", "recordFallback"}
    BY <1>4 DEF Stale
  <2>2. pc[w] \in {"call", "record"} /\ state'[i] = "DELIVERED" => job[w].n <= Len(attempts'[i])
    BY <1>1, <1>2, <1>3, <1>4, <1>5 DEF Stale
  <2>3. pc[w] = "block" => job[w].seen <= count'[i]
    BY <1>1, <1>2, <1>3, <1>4 DEF Stale
  <2>4. pc[w] = "block" /\ state'[i] = "DELIVERED" => job[w].seen < count'[i]
    BY <1>1, <1>2, <1>3, <1>4 DEF Stale
  <2>5. i' = i
    BY DEF i
  <2> QED
    BY <2>1, <2>2, <2>3, <2>4, <2>5 DEF Stale
<1> QED
  BY <1>6 DEF i

\* Reads leave the database as it is.
LEMMA SameDb == ASSUME Inv, UNCHANGED db PROVE DbStep
<1>1. \A i \in Intents : Len(attempts[i]) \in Nat /\ count[i] \in Nat
  BY DEF Inv, TypeOK
<1> QED
  BY <1>1 DEF DbStep, db

\* A recorded attempt grows the log and the count together.
LEMMA RecordDbStep ==
  ASSUME Inv, NEW i \in Intents, NEW n \in Nat, NEW st \in AttemptState, RecordStep(i, n, st)
  PROVE  DbStep
<1>1. CASE UNCHANGED db
  BY <1>1, SameDb
<1>2. CASE Recorded(i, n, st)
  <2> SUFFICES ASSUME NEW j \in Intents
               PROVE  /\ Len(attempts[j]) <= Len(attempts'[j])
                      /\ count[j] <= count'[j]
                      /\ state'[j] = "DELIVERED" =>
                           state[j] = "DELIVERED" \/ (/\ Len(attempts'[j]) = Len(attempts[j]) + 1
                                                      /\ count'[j] = count[j] + 1)
    BY DEF DbStep
  <2>1. Len(attempts[j]) \in Nat /\ count[j] = Len(attempts[j])
    BY DEF Inv, TypeOK, SummaryMatchesLog
  <2>2. CASE j = i
    <3>1. Len(attempts'[j]) = Len(attempts[j]) + 1 /\ count'[j] = Len(attempts[j]) + 1
      BY <1>2, <2>2, RecordedFacts DEF Inv
    <3> QED
      BY <2>1, <3>1
  <2>3. CASE j # i
    <3>1. Len(attempts'[j]) = Len(attempts[j]) /\ count'[j] = count[j] /\ state'[j] = state[j]
      BY <1>2, <2>3, RecordedFacts DEF Inv
    <3> QED
      BY <2>1, <3>1
  <2> QED
    BY <2>2, <2>3
<1> QED
  BY <1>1, <1>2 DEF RecordStep, AlreadyRecorded, RecordRefused

\* The own step of a process.
LEMMA OwnStep ==
  ASSUME Inv, Inv', HeldIsStale, NEW w \in Workers,
         Deliver(w) \/ Crash(w) \/ \E i \in Intents : Start(w, i)
  PROVE  /\ DbStep
         /\ \A v \in Workers : v # w => pc'[v] = pc[v] /\ job'[v] = job[v]
         /\ Stale(job[w].intent, pc[w], job[w].n, job[w].seen)'
         /\ \A i \in Intents \ HasFallback : state[i] = "DELIVERED" => state'[i] = "DELIVERED"
<1> DEFINE i == job[w].intent
           n == job[w].n
<1>0. /\ i \in Intents /\ n \in Nat /\ Len(attempts[i]) \in Nat
      /\ job[w].seen \in Nat /\ count[i] \in Nat
  <2>1. i \in Intents /\ n \in Nat /\ job[w].seen \in Nat
    BY DEF Inv, TypeOK, Job
  <2> HIDE DEF i, n
  <2> QED
    BY <2>1 DEF Inv, TypeOK
<1>1. \A v \in Workers : v # w => pc'[v] = pc[v] /\ job'[v] = job[v]
  BY DEF Inv, TypeOK, Deliver, ListAttempts, Check, CallPrimary, CallFallback, Invoke,
         RecordPrimary, RecordFallback, Continue, BlockRead, Block, Crash, Start, Goto
<1>2. Stale(i, pc[w], n, job[w].seen)
  BY DEF HeldIsStale
<1>3. CallFallback(w) \/ RecordFallback(w) => i \in HasFallback
  BY <1>2 DEF Stale, CallFallback, Invoke, RecordFallback
<1>4. CASE pc'[w] \in {"idle", "list", "check", "blockRead"} /\ UNCHANGED db
  BY <1>1, <1>4, SameDb DEF Stale, db
<1>5. CASE Crash(w) \/ \E k \in Intents : Start(w, k)
  <2>1. UNCHANGED db /\ pc'[w] \in {"idle", "list", "check", "blockRead"}
    BY <1>5 DEF Inv, TypeOK, Crash, Start, Goto
  <2> QED
    BY <2>1, <1>4
<1>11. CASE ListAttempts(w)
  <2>1. UNCHANGED db /\ pc'[w] \in {"check", "fallback", "blockRead"}
    BY <1>11 DEF Inv, TypeOK, ListAttempts, Goto
  <2>2. pc'[w] = "fallback" => i \in HasFallback /\ job'[w].intent = i
    BY <1>11 DEF Inv, TypeOK, Job, ListAttempts, Goto
  <2>3. Stale(job[w].intent, pc[w], job[w].n, job[w].seen)'
    BY <2>1, <2>2 DEF Stale
  <2> QED
    BY <1>1, <2>1, <2>3, SameDb DEF db
<1>12. CASE CallFallback(w)
  <2>1. UNCHANGED db
    BY <1>12 DEF CallFallback, Invoke
  <2>2. job'[w].intent = i
    <3>1. \/ job' = [job EXCEPT ![w].outcome = "accepted"]
          \/ job' = [job EXCEPT ![w].outcome = "rejected"]
      BY <1>12 DEF CallFallback, Invoke
    <3>2. job \in [Workers -> Job] /\ job[w] \in Job
      BY DEF Inv, TypeOK
    <3> QED
      BY <3>1, <3>2 DEF Job
  <2>3. Stale(job[w].intent, pc[w], job[w].n, job[w].seen)'
    BY <1>3, <1>12, <2>2 DEF Stale
  <2> QED
    BY <1>1, <2>1, <2>3, SameDb DEF db
<1>13. CASE RecordFallback(w)
  <2>1. PICK st \in AttemptState : RecordStep(i, n, st)
    <3>1. FallbackState(job[w]) \in AttemptState
      BY DEF FallbackState, AttemptState
    <3> QED
      BY <1>13, <3>1 DEF RecordFallback, RecordStep
  <2>2. DbStep
    <3> HIDE DEF i, n
    <3> QED
      BY <1>0, <2>1, RecordDbStep
  <2>3. pc'[w] = "idle"
    BY <1>13 DEF Inv, TypeOK, RecordFallback, Goto
  <2>4. \A k \in Intents \ HasFallback : state'[k] = state[k]
    <3>1. CASE UNCHANGED db
      BY <3>1 DEF db
    <3>2. CASE Recorded(i, n, st)
      <4>1. i \in HasFallback
        BY <1>3, <1>13
      <4> HIDE DEF i, n
      <4> QED
        BY <4>1, <3>2, <1>0, RecordedFacts DEF Inv
    <3> QED
      BY <3>1, <3>2, <2>1 DEF RecordStep, AlreadyRecorded, RecordRefused
  <2>5. Stale(job[w].intent, pc[w], job[w].n, job[w].seen)'
    BY <2>3 DEF Stale
  <2> QED
    BY <1>1, <2>2, <2>4, <2>5
<1>6. CASE Check(w)
  <2>1. UNCHANGED db /\ UNCHANGED job /\ pc'[w] \in {"idle", "call"}
    BY <1>6 DEF Inv, TypeOK, Check, Goto
  <2>2. pc'[w] = "call" => state[i] # "DELIVERED"
    BY <1>6 DEF Inv, TypeOK, Check, Goto, Terminal
  <2> QED
    BY <1>1, <2>1, <2>2, SameDb DEF Stale, db
<1>7. CASE CallPrimary(w)
  <2>1. /\ UNCHANGED db /\ pc[w] = "call" /\ pc'[w] = "record"
        /\ job'[w].intent = i /\ job'[w].n = n
    <3>1. UNCHANGED db /\ pc[w] = "call" /\ pc'[w] = "record"
      BY <1>7 DEF Inv, TypeOK, CallPrimary, Invoke, Goto
    <3>2. \/ job' = [job EXCEPT ![w].outcome = "accepted"]
          \/ job' = [job EXCEPT ![w].outcome = "rejected"]
      BY <1>7 DEF CallPrimary, Invoke
    <3>3. job \in [Workers -> Job] /\ job[w] \in Job
      BY DEF Inv, TypeOK
    <3>4. \/ job'[w] = [job[w] EXCEPT !.outcome = "accepted"]
          \/ job'[w] = [job[w] EXCEPT !.outcome = "rejected"]
      BY <3>2, <3>3
    <3>5. job'[w].intent = i /\ job'[w].n = n
      BY <3>3, <3>4 DEF Job
    <3> QED
      BY <3>1, <3>5
  <2> QED
    BY <1>1, <1>2, <2>1, SameDb DEF Stale, db
<1>8. CASE BlockRead(w)
  <2>1. /\ UNCHANGED db /\ pc'[w] \in {"idle", "block"}
        /\ job'[w].intent = i /\ job'[w].seen = count[i]
    BY <1>8 DEF Inv, TypeOK, Job, BlockRead, Goto
  <2>2. pc'[w] = "block" => state[i] # "DELIVERED"
    BY <1>8 DEF Inv, TypeOK, BlockRead, Goto, Terminal
  <2>3. Stale(job[w].intent, pc[w], job[w].n, job[w].seen)'
    BY <1>0, <2>1, <2>2 DEF Stale, db
  <2> QED
    BY <1>1, <2>1, <2>3, SameDb DEF db
<1>9. CASE Block(w)
  <2>1. /\ pc[w] = "block" /\ pc'[w] = "idle" /\ UNCHANGED <<count, attempts>>
        /\ state' = [state EXCEPT ![i] = IF count[i] = job[w].seen THEN "BLOCKED" ELSE @]
    BY <1>9 DEF Inv, TypeOK, Block, Goto
  <2>2. i \notin HasFallback /\ state[i] = "DELIVERED" => count[i] # job[w].seen
    BY <1>0, <1>2, <2>1 DEF Stale
  <2>3. \A k \in Intents : /\ k \notin HasFallback /\ state[k] = "DELIVERED"
                                => state'[k] = "DELIVERED"
                           /\ state'[k] = "DELIVERED" => state[k] = "DELIVERED"
    BY <1>0, <2>1, <2>2 DEF Inv, TypeOK
  <2>4. DbStep
    <3>1. \A k \in Intents : Len(attempts[k]) \in Nat /\ count[k] \in Nat
      BY DEF Inv, TypeOK
    <3> QED
      BY <2>1, <2>3, <3>1 DEF DbStep
  <2>5. Stale(job[w].intent, pc[w], job[w].n, job[w].seen)'
    BY <2>1 DEF Stale
  <2> QED
    BY <1>1, <2>3, <2>4, <2>5
<1>10. CASE RecordPrimary(w)
  <2>1. PICK st \in AttemptState : RecordStep(i, n, st)
    <3>1. PrimaryState(job[w]) \in AttemptState
      BY DEF PrimaryState, AttemptState
    <3> QED
      BY <1>10, <3>1 DEF RecordPrimary, RecordStep
  <2>2. DbStep
    <3> HIDE DEF i, n
    <3> QED
      BY <1>0, <2>1, RecordDbStep
  <2>3. /\ job'[w].intent = i
        /\ pc'[w] \in {"idle", "check", "fallback"}
        /\ pc'[w] = "fallback" => i \in HasFallback
    <3>1. n <= MaxAttempts /\ MaxAttempts \in Nat
      BY <1>10, PolicyAssumption DEF Inv, NumbersHeld, RecordPrimary
    <3>2. PrimaryState(job[w]) = "FAILED" => n < MaxAttempts \/ i \in HasFallback
      BY <3>1, <1>0 DEF PrimaryState
    <3>3. job \in [Workers -> Job] /\ job[w] \in Job
      BY DEF Inv, TypeOK
    <3>4. job' = job \/ job' = [job EXCEPT ![w].n = @ + 1]
      BY <1>10 DEF RecordPrimary, Continue
    <3>5. job'[w].intent = i
      BY <3>3, <3>4 DEF Job
    <3>6. pc'[w] \in {"idle", "check", "fallback"} /\ (pc'[w] = "fallback" => i \in HasFallback)
      BY <1>10, <3>2 DEF Inv, TypeOK, RecordPrimary, Continue, Goto
    <3> QED
      BY <3>5, <3>6
  <2>4. \A k \in Intents \ HasFallback : state[k] = "DELIVERED" => state'[k] = "DELIVERED"
    <3> SUFFICES ASSUME NEW k \in Intents \ HasFallback, state[k] = "DELIVERED"
                 PROVE  state'[k] = "DELIVERED"
      OBVIOUS
    <3>1. CASE UNCHANGED db
      BY <3>1 DEF db
    <3>2. CASE Recorded(i, n, st)
      <4>1. CASE k = i
        <5>1. n <= Len(attempts[i])
          BY <1>2, <1>10, <4>1 DEF Stale, RecordPrimary
        <5>2. n = Len(attempts[i]) + 1
          BY <3>2 DEF Recorded
        <5> QED
          BY <5>1, <5>2, <1>0
      <4>2. CASE k # i
        <5> HIDE DEF i, n
        <5> QED
          BY <4>2, <3>2, <1>0, RecordedFacts DEF Inv
      <4> QED
        BY <4>1, <4>2
    <3> QED
      BY <3>1, <3>2, <2>1 DEF RecordStep, AlreadyRecorded, RecordRefused
  <2> QED
    BY <1>1, <2>2, <2>3, <2>4 DEF Stale
<1> QED
  BY <1>5, <1>11, <1>12, <1>13, <1>6, <1>7, <1>8, <1>9, <1>10 DEF Deliver

\* One step keeps HeldIsStale and every DELIVERED intent.
LEMMA FinalStep ==
  ASSUME Inv, Inv', HeldIsStale, [Next]_vars
  PROVE  /\ HeldIsStale'
         /\ \A i \in Intents \ HasFallback : state[i] = "DELIVERED" => state'[i] = "DELIVERED"
<1>1. CASE UNCHANGED vars
  BY <1>1 DEF HeldIsStale, Stale, vars
<1>2. CASE \E i \in Intents : CreateIntent(i) \/ PrepareRetry(i)
  <2>1. /\ UNCHANGED <<count, attempts, pc, job>>
        /\ \A k \in Intents : state'[k] = "DELIVERED" <=> state[k] = "DELIVERED"
    BY <1>2 DEF Inv, TypeOK, CreateIntent, PrepareRetry
  <2>2. DbStep
    <3>1. \A k \in Intents : Len(attempts[k]) \in Nat /\ count[k] \in Nat
      BY DEF Inv, TypeOK
    <3> QED
      BY <2>1, <3>1 DEF DbStep
  <2> QED
    BY <2>1, <2>2, StaleKept DEF HeldIsStale
<1>3. ASSUME NEW w \in Workers, Deliver(w) \/ Crash(w) \/ \E i \in Intents : Start(w, i)
      PROVE  /\ HeldIsStale'
             /\ \A i \in Intents \ HasFallback : state[i] = "DELIVERED" => state'[i] = "DELIVERED"
  <2>1. /\ DbStep
        /\ \A v \in Workers : v # w => pc'[v] = pc[v] /\ job'[v] = job[v]
        /\ Stale(job[w].intent, pc[w], job[w].n, job[w].seen)'
        /\ \A i \in Intents \ HasFallback : state[i] = "DELIVERED" => state'[i] = "DELIVERED"
    BY <1>3, OwnStep
  <2>2. \A v \in Workers : v # w => Stale(job[v].intent, pc[v], job[v].n, job[v].seen)'
    BY <2>1, StaleKept
  <2> QED
    BY <2>1, <2>2 DEF HeldIsStale
<1> QED
  BY <1>1, <1>2, <1>3 DEF Next

\* A process reaches the fallback only for an intent that has one, so every
\* other row is numbered within the policy.
LEMMA BoundedStep ==
  ASSUME Inv, HeldIsStale, AttemptsBounded, [Next]_vars
  PROVE  AttemptsBounded'
<1>1. CASE UNCHANGED attempts
  BY <1>1 DEF AttemptsBounded
<1>2. ASSUME NEW w \in Workers, RecordPrimary(w) \/ RecordFallback(w)
      PROVE  AttemptsBounded'
  <2> DEFINE i == job[w].intent
             n == job[w].n
  <2>1. i \in Intents /\ n \in Nat
    BY DEF Inv, TypeOK, Job
  <2>2. PICK st \in AttemptState : RecordStep(i, n, st)
    <3>1. FallbackState(job[w]) \in AttemptState /\ PrimaryState(job[w]) \in AttemptState
      BY DEF FallbackState, PrimaryState, AttemptState
    <3> QED
      BY <1>2, <3>1 DEF RecordPrimary, RecordFallback, RecordStep
  <2>3. i \in HasFallback \/ n <= MaxAttempts
    <3>1. CASE RecordPrimary(w)
      BY <3>1 DEF Inv, NumbersHeld, RecordPrimary
    <3>2. CASE RecordFallback(w)
      BY <3>2 DEF HeldIsStale, Stale, RecordFallback
    <3> QED
      BY <1>2, <3>1, <3>2
  <2>4. CASE Recorded(i, n, st)
    <3> HIDE DEF i, n
    <3>1. Len(attempts'[i]) = n /\ \A j \in Intents : j # i => attempts'[j] = attempts[j]
      BY <2>1, <2>4, RecordedFacts DEF Inv
    <3> QED
      BY <2>1, <2>3, <3>1 DEF AttemptsBounded
  <2>5. CASE UNCHANGED db
    BY <1>1, <2>5 DEF db
  <2> QED
    BY <2>2, <2>4, <2>5 DEF RecordStep, AlreadyRecorded, RecordRefused
<1>3. UNCHANGED attempts \/ \E w \in Workers : RecordPrimary(w) \/ RecordFallback(w)
  BY DEF Next, vars, Deliver, CreateIntent, PrepareRetry, Start, ListAttempts, Check, CallPrimary,
         CallFallback, Invoke, BlockRead, Block, Crash, db
<1> QED
  BY <1>1, <1>2, <1>3

\* What a process holds of an intent without fallback stays stale.
LEMMA StaleInvariance == Spec => [](Inv /\ HeldIsStale)
<1>1. Init => HeldIsStale
  BY DEF Init, HeldIsStale, Stale
<1>2. Inv /\ Inv' /\ HeldIsStale /\ [Next]_vars => HeldIsStale'
  BY FinalStep
<1> QED
  BY <1>1, <1>2, Invariance, PTL DEF Spec

\* Delivery is final for every intent without an approved fallback, for any
\* number of processes, retries and crashes (deliver_with_retry).
THEOREM DeliveryFinal == Spec => DeliveredIsFinal
<1>1. Inv /\ Inv' /\ HeldIsStale /\ [Next]_vars =>
        [\A i \in Intents \ HasFallback : state[i] = "DELIVERED" => state'[i] = "DELIVERED"]_vars
  BY FinalStep
<1> QED
  BY <1>1, StaleInvariance, PTL DEF Spec, DeliveredIsFinal

\* Delivery is bounded: no number of processes, retries or crashes makes the
\* log of an intent without fallback longer than the policy allows.
THEOREM DeliveryBounded == Spec => []AttemptsBounded
<1>1. Init => AttemptsBounded
  BY PolicyAssumption DEF Init, AttemptsBounded
<1>2. Inv /\ HeldIsStale /\ AttemptsBounded /\ [Next]_vars => AttemptsBounded'
  BY BoundedStep
<1> QED
  BY <1>1, <1>2, StaleInvariance, PTL DEF Spec
=============================================================================
