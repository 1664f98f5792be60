---------------------------- MODULE WakeupOutbox ----------------------------
(***************************************************************************)
(* The durable wakeup outbox (controlplane/wakeup_outbox.py): intents and  *)
(* delivery attempts in one SQLite database, and the delivery processes    *)
(* that call deliver_with_retry on it, concurrently and with crashes.      *)
(*                                                                         *)
(* One step is one read of the database, one BEGIN IMMEDIATE transaction,  *)
(* or one call of a delivery callback.  A delivery that raises ends; its   *)
(* process may call deliver_with_retry again.  Every process uses the same *)
(* retry policy.  Clocks, backoff times and error details are left out.    *)
(***************************************************************************)
EXTENDS Integers, Sequences

CONSTANTS Workers,      \* the delivery processes
          Intents,      \* the logical keys of the intents
          HasFallback,  \* the intents with an approved, configured fallback
          MaxAttempts,  \* policy.max_attempts
          MaxRetries,   \* bound: calls of prepare_retry
          MaxCrashes    \* bound: crashes of delivery processes

ASSUME PolicyAssumption == MaxAttempts \in Nat \ {0} /\ HasFallback \subseteq Intents
ASSUME BudgetAssumption == MaxRetries \in Nat /\ MaxCrashes \in Nat

VARIABLES state,     \* intent -> state column of wakeup_intents
          count,     \* intent -> attempt_count column
          attempts,  \* intent -> its rows of wakeup_delivery_attempts
          pc, job,   \* per worker: where it is, and on which attempt
          woken,     \* the intents whose recipient accepted the pointer
          budget     \* what is left of the two bounds

vars == <<state, count, attempts, pc, job, woken, budget>>
db == <<state, count, attempts>>
-----------------------------------------------------------------------------
\* IN_FLIGHT needs a STARTED attempt, which no code records.
IntentState == {"PENDING", "DELIVERED", "FAILED", "BLOCKED"}
Terminal == {"DELIVERED", "BLOCKED"}

\* The state of an attempt row; FALLBACK is DELIVERED with the error code
\* WAKEUP_FALLBACK_DELIVERED.
AttemptState == {"DELIVERED", "FALLBACK", "FAILED", "BLOCKED"}
Success == {"DELIVERED", "FALLBACK"}

PC == {"idle", "list", "check", "call", "record", "fallback", "recordFallback",
       "blockRead", "block"}
Job == [intent : Intents, n : Nat, outcome : {"none", "accepted", "rejected"},
        seen : Nat]

TypeOK ==
  /\ state \in [Intents -> IntentState \cup {"ABSENT"}]
  /\ count \in [Intents -> Nat]
  /\ attempts \in [Intents -> Seq(AttemptState)]
  /\ pc \in [Workers -> PC]
  /\ job \in [Workers -> Job]
  /\ woken \subseteq Intents
  /\ budget \in [retry : Nat, crash : Nat]

Init ==
  /\ state = [i \in Intents |-> "ABSENT"]
  /\ count = [i \in Intents |-> 0]
  /\ attempts = [i \in Intents |-> <<>>]
  /\ pc = [w \in Workers |-> "idle"]
  /\ \E i \in Intents :
       job = [w \in Workers |-> [intent |-> i, n |-> 0, outcome |-> "none", seen |-> 0]]
  /\ woken = {}
  /\ budget = [retry |-> MaxRetries, crash |-> MaxCrashes]
-----------------------------------------------------------------------------
(* Transactions.                                                           *)

\* create_intent: a second call with the same binding reads the first.
CreateIntent(i) ==
  /\ state[i] = "ABSENT"
  /\ state' = [state EXCEPT ![i] = "PENDING"]
  /\ UNCHANGED <<count, attempts, pc, job, woken, budget>>

\* Mutant: the attempt's state becomes the intent's.
IntentStateOf_Raw(st) == st

\* record_delivery_attempt's updated_state.
IntentStateOf(st) ==
  IF st \in Success THEN "DELIVERED" ELSE st

\* Mutant: the number is not compared with the rows there are.
Recorded_Any(i, n, st) ==
  /\ state' = [state EXCEPT ![i] = IntentStateOf(st)]
  /\ count' = [count EXCEPT ![i] = n]
  /\ attempts' = [attempts EXCEPT ![i] = Append(@, st)]

\* record_delivery_attempt appending: the number must be the next one.
Recorded(i, n, st) ==
  /\ n = Len(attempts[i]) + 1
  /\ state' = [state EXCEPT ![i] = IntentStateOf(st)]
  /\ count' = [count EXCEPT ![i] = n]
  /\ attempts' = [attempts EXCEPT ![i] = Append(@, st)]

\* The attempt id names the intent and the number.  A row that is there is
\* returned when it is identical (same state and, if so, perhaps the same
\* timestamp) ...
AlreadyRecorded(i, n, st) ==
  /\ n \in DOMAIN attempts[i]
  /\ attempts[i][n] = st
  /\ UNCHANGED db

\* ... and otherwise conflicts with the candidate: the call raises.
RecordRefused(i, n) ==
  /\ n \in DOMAIN attempts[i]
  /\ UNCHANGED db

\* Mutant: prepare_retry without its early return for a delivered intent.
PrepareRetry_Delivered(i) ==
  /\ budget.retry > 0
  /\ state[i] # "ABSENT"
  /\ state' = [state EXCEPT ![i] = "PENDING"]
  /\ budget' = [budget EXCEPT !.retry = @ - 1]
  /\ UNCHANGED <<count, attempts, pc, job, woken>>

\* prepare_retry reopens any intent that is not delivered.
PrepareRetry(i) ==
  /\ budget.retry > 0
  /\ state[i] \notin {"ABSENT", "DELIVERED"}
  /\ state' = [state EXCEPT ![i] = "PENDING"]
  /\ budget' = [budget EXCEPT !.retry = @ - 1]
  /\ UNCHANGED <<count, attempts, pc, job, woken>>
-----------------------------------------------------------------------------
(* deliver_with_retry.                                                     *)

Goto(w, label) == pc' = [pc EXCEPT ![w] = label]

\* The first get_intent; a terminal intent is returned as it is.
Start(w, i) ==
  /\ pc[w] = "idle"
  /\ state[i] \notin Terminal \cup {"ABSENT"}
  /\ Goto(w, "list")
  /\ job' = [job EXCEPT ![w].intent = i]
  /\ UNCHANGED <<db, woken, budget>>

\* Mutant: a delivery whose budget is spent returns without blocking.
ListAttempts_GiveUp(w) ==
  LET i == job[w].intent
      n == Len(attempts[i]) + 1
  IN  /\ pc[w] = "list"
      /\ Goto(w, IF n <= MaxAttempts THEN "check"
                 ELSE IF i \in HasFallback THEN "fallback" ELSE "idle")
      /\ job' = [job EXCEPT ![w].n = n]
      /\ UNCHANGED <<db, woken, budget>>

\* Mutant: the budget is compared with the attempts made.
ListAttempts_OffByOne(w) ==
  LET i == job[w].intent
      n == Len(attempts[i]) + 1
  IN  /\ pc[w] = "list"
      /\ Goto(w, IF n - 1 <= MaxAttempts THEN "check"
                 ELSE IF i \in HasFallback THEN "fallback" ELSE "blockRead")
      /\ job' = [job EXCEPT ![w].n = n]
      /\ UNCHANGED <<db, woken, budget>>

\* list_attempts: the number of the next attempt, and what to do when the
\* budget of the policy is already spent.
ListAttempts(w) ==
  LET i == job[w].intent
      n == Len(attempts[i]) + 1
  IN  /\ pc[w] = "list"
      /\ Goto(w, IF n <= MaxAttempts THEN "check"
                 ELSE IF i \in HasFallback THEN "fallback" ELSE "blockRead")
      /\ job' = [job EXCEPT ![w].n = n]
      /\ UNCHANGED <<db, woken, budget>>

\* The get_intent at the head of the loop.
Check(w) ==
  /\ pc[w] = "check"
  /\ Goto(w, IF state[job[w].intent] \in Terminal THEN "idle" ELSE "call")
  /\ UNCHANGED <<db, job, woken, budget>>

\* _invoke_delivery_callback: the transport takes the pointer, or rejects it
\* or raises.
Invoke(w, from, to) ==
  /\ pc[w] = from
  /\ Goto(w, to)
  /\ \/ /\ job' = [job EXCEPT ![w].outcome = "accepted"]
        /\ woken' = woken \cup {job[w].intent}
     \/ /\ job' = [job EXCEPT ![w].outcome = "rejected"]
        /\ UNCHANGED woken
  /\ UNCHANGED <<db, budget>>

CallPrimary(w) == Invoke(w, "call", "record")
CallFallback(w) == Invoke(w, "fallback", "recordFallback")

\* Mutant: a rejected pointer is recorded like an accepted one when the
\* budget runs out.
PrimaryState_LastDelivered(j) ==
  IF j.outcome = "accepted" \/ (j.n = MaxAttempts /\ j.intent \notin HasFallback)
  THEN "DELIVERED" ELSE "FAILED"

\* The state a primary attempt is recorded with.
PrimaryState(j) ==
  IF j.outcome = "accepted" THEN "DELIVERED"
  ELSE IF j.n = MaxAttempts /\ j.intent \notin HasFallback THEN "BLOCKED"
  ELSE "FAILED"

\* After a FAILED attempt the worker goes round the loop or to the fallback.
Continue(w, st) ==
  IF st = "FAILED"
  THEN /\ Goto(w, IF job[w].n < MaxAttempts THEN "check" ELSE "fallback")
       /\ job' = [job EXCEPT ![w].n = @ + 1]
  ELSE Goto(w, "idle") /\ UNCHANGED job

RecordPrimary(w) ==
  LET i  == job[w].intent
      st == PrimaryState(job[w])
  IN  /\ pc[w] = "record"
      /\ \/ Recorded(i, job[w].n, st) /\ Continue(w, st)
         \/ AlreadyRecorded(i, job[w].n, st) /\ Continue(w, st)
         \/ RecordRefused(i, job[w].n) /\ Goto(w, "idle") /\ UNCHANGED job
      /\ UNCHANGED <<woken, budget>>

\* Mutant: the fallback is recorded as delivered whatever it answered.
FallbackState_Always(j) == "FALLBACK"

FallbackState(j) == IF j.outcome = "accepted" THEN "FALLBACK" ELSE "BLOCKED"

\* _deliver_fallback after its callback; nothing reads the intent's state.
RecordFallback(w) ==
  LET i  == job[w].intent
      st == FallbackState(job[w])
  IN  /\ pc[w] = "recordFallback"
      /\ \/ Recorded(i, job[w].n, st)
         \/ AlreadyRecorded(i, job[w].n, st)
         \/ RecordRefused(i, job[w].n)
      /\ Goto(w, "idle")
      /\ UNCHANGED <<job, woken, budget>>

\* _mark_intent_blocked: a read outside the transaction ...
BlockRead(w) ==
  LET i == job[w].intent
  IN  /\ pc[w] = "blockRead"
      /\ Goto(w, IF state[i] \in Terminal THEN "idle" ELSE "block")
      /\ job' = [job EXCEPT ![w].seen = count[i]]
      /\ UNCHANGED <<db, woken, budget>>

\* ... and the update, rolled back when attempt_count has moved since.
Block(w) ==
  LET i == job[w].intent
  IN  /\ pc[w] = "block"
      /\ Goto(w, "idle")
      /\ state' = [state EXCEPT ![i] = IF count[i] = job[w].seen THEN "BLOCKED" ELSE @]
      /\ UNCHANGED <<count, attempts, job, woken, budget>>

\* The process dies, between a callback and its record in particular.
Crash(w) ==
  /\ pc[w] # "idle"
  /\ budget.crash > 0
  /\ Goto(w, "idle")
  /\ budget' = [budget EXCEPT !.crash = @ - 1]
  /\ UNCHANGED <<db, job, woken>>
-----------------------------------------------------------------------------
Deliver(w) ==
  \/ ListAttempts(w) \/ Check(w) \/ CallPrimary(w) \/ RecordPrimary(w)
  \/ CallFallback(w) \/ RecordFallback(w) \/ BlockRead(w) \/ Block(w)

Next ==
  \/ \E i \in Intents : CreateIntent(i) \/ PrepareRetry(i)
  \/ \E w \in Workers : Deliver(w) \/ Crash(w) \/ \E i \in Intents : Start(w, i)

Spec == Init /\ [][Next]_vars

\* A process that is delivering goes on, and an open intent is picked up.
FairSpec ==
  /\ Spec
  /\ \A w \in Workers : WF_vars(Deliver(w))
  /\ \A i \in Intents : WF_vars(\E w \in Workers : Start(w, i))
-----------------------------------------------------------------------------
\* The attempt log and the summary agree (record_delivery_attempt keeps them
\* in one transaction, and _delivery_result reads one beside the other): the
\* count is the number of rows, and an intent is DELIVERED only while its last
\* row is a success.
SummaryMatchesLog ==
  \A i \in Intents :
    /\ count[i] = Len(attempts[i])
    /\ state[i] = "DELIVERED" =>
         attempts[i] # <<>> /\ attempts[i][Len(attempts[i])] \in Success

\* Nothing is DELIVERED that the recipient did not take: not through a stale
\* number, a replayed row or a crash between callback and record.
DeliveredWasTaken ==
  \A i \in Intents :
    (state[i] = "DELIVERED" \/ \E k \in DOMAIN attempts[i] : attempts[i][k] \in Success)
      => i \in woken

\* An intent without an approved fallback, once delivered, stays delivered
\* (prepare_retry returns it unchanged and deliver_with_retry leaves it alone),
\* whatever the other processes hold of it.
DeliveredIsFinal ==
  [][\A i \in Intents \ HasFallback :
       state[i] = "DELIVERED" => state'[i] = "DELIVERED"]_vars

\* Bounded delivery: however many processes deliver an intent without fallback,
\* and however often it is retried, its rows are at most the policy's attempts.
AttemptsBounded ==
  \A i \in Intents \ HasFallback : Len(attempts[i]) <= MaxAttempts

\* Every intent ends DELIVERED or BLOCKED and stays there, once the crashes
\* and the prepared retries are over.
EveryIntentSettles ==
  \A i \in Intents : <>[](state[i] \in Terminal \cup {"ABSENT"})
=============================================================================
