-------------------------- MODULE ControllerSession --------------------------
(***************************************************************************)
(* The canonical mailbox/v2 session of one run: the Controller's commands  *)
(* (runtime/high_integrity_session.py) over the durable continuation       *)
(* (github_continuation_store.py), the Controller's and the Executor's     *)
(* mailboxes with their actor cursors (mailbox_repository.py,              *)
(* github_mailbox_v2.py) and the dispatch ledger (dispatch_ledger.py).     *)
(*                                                                         *)
(* There is one Controller writer, as the continuation store requires; its *)
(* process runs one command at a time, may die between any two durable     *)
(* writes, and keeps nothing but what the stores hold.  One step is one    *)
(* durable write with the reads that decide it.  A command that raises     *)
(* before a write changes nothing and is not a step.                       *)
(*                                                                         *)
(* Executors, the lease issuer, the clock and the host that writes the     *)
(* materialization specs are the environment.                              *)
(***************************************************************************)
EXTENDS Integers, Sequences

CONSTANTS MaxSeq,       \* bound: Controller requests, and lease generations
          MaxTime,      \* bound: instants are 0..MaxTime
          MaxEvents,    \* bound: events in the Executor's mailbox
          MaxCrashes,   \* bound: deaths of the Controller process
          Ttl,          \* how long a lease runs
          Modes,        \* the waiting modes the host asks for
          Kinds,        \* the kinds of events executors write
          StrictClock   \* a resume observes a later instant than the
                        \* continuation it resumes from

Waiting == {"POLL", "EVENT"}
Progress == {"RUNNING", "BLOCKED", "SUCCEEDED"}
Results == {"RESULT_A", "RESULT_B"}    \* two result digests

ASSUME BoundAssumption ==
  /\ MaxSeq \in Nat \ {0} /\ MaxTime \in Nat /\ MaxEvents \in Nat /\ MaxCrashes \in Nat
  /\ Ttl \in Nat
ASSUME KindAssumption ==
  /\ Modes \subseteq Waiting
  /\ Kinds \subseteq Progress \cup Results \cup {"MALFORMED", "OTHER"}
  /\ StrictClock \in BOOLEAN

VARIABLES cont,       \* the durable ControllerContinuation
          spec,       \* controller_seq -> the host's materialization spec
          prepared,   \* ledger: controller_seq -> mailbox slot prepared, or 0
          committed,  \* ledger: the requests with a DispatchCommitted record
          cbox,       \* Controller mailbox: its requests, by controller_seq
          ccur,       \* durable producer cursor of the Controller's mailbox
          ebox,       \* Executor mailbox: [kind, q], q the request answered
          ecur,       \* durable cursor of the Controller in it
          lease,      \* the issuer's current WorkLease
          now,
          started,    \* requests an executor has bootstrapped
          pc, job,    \* the command under way, and what it works on
          chosen,     \* history: the last event a scan selected
          crashes     \* bound: deaths so far

stores == <<spec, prepared, committed, cbox, ccur, ebox, ecur>>
env == <<lease, now, started, crashes>>
vars == <<cont, stores, env, pc, job, chosen>>
-----------------------------------------------------------------------------
Seqs == 1..MaxSeq

\* A continuation.  act stands for phase and next_action; the mailbox seq it
\* expects next is seen + 1.
Checkpoint == [epoch : Nat, act : Waiting \cup {"NONE", "REVIEW", "AUTHORITY"},
               cseq : Nat, seen : Nat, updated : Int]
NoCont == [epoch |-> 0, act |-> "NONE", cseq |-> 0, seen |-> 0, updated |-> -1]

\* A spec: the checkpoint to dispatch from and the attempt its envelope binds,
\* with the expiry of the attempt's lease.  att = 0: there is none yet.
Request == [ckpt : Checkpoint, att : Nat, expires : Nat]
NoSpec == [ckpt |-> NoCont, att |-> 0, expires |-> 0]
Issued(q) == spec[q].att # 0

Event == [kind : Kinds, q : Seqs]

Lease == [gen : Nat, expires : Nat, status : {"ACTIVE", "ENDED"}]

PC == {"idle", "prepare", "write", "commit", "ack", "persist"}
Job == [q : Seqs, via : {"materialize", "reconcile"}, next : Checkpoint]

TypeOK ==
  /\ cont \in Checkpoint
  /\ spec \in [Seqs -> Request]
  /\ prepared \in [Seqs -> Nat]
  /\ committed \subseteq Seqs
  /\ cbox \in Seq(Seqs)
  /\ ccur \in Nat
  /\ ebox \in Seq(Event)
  /\ ecur \in Nat
  /\ lease \in Lease
  /\ now \in 0..MaxTime
  /\ started \subseteq Seqs
  /\ pc \in PC
  /\ job \in Job
  /\ chosen \in Nat
  /\ crashes \in Nat

Init ==
  /\ cont = NoCont
  /\ spec = [q \in Seqs |-> NoSpec]
  /\ prepared = [q \in Seqs |-> 0]
  /\ committed = {}
  /\ cbox = <<>> /\ ccur = 0
  /\ ebox = <<>> /\ ecur = 0
  /\ lease = [gen |-> 1, expires |-> Ttl, status |-> "ACTIVE"]
  /\ now = 0
  /\ started = {}
  /\ pc = "idle"
  /\ job = [q |-> 1, via |-> "materialize", next |-> NoCont]
  /\ chosen = 0
  /\ crashes = 0
-----------------------------------------------------------------------------
(* The stores.                                                             *)

\* Mutant: a changed continuation may carry any updated_at.
Accepts_Any(k) == TRUE

\* save_manifest_with_receipt: the same manifest again is a no-op, a changed
\* one must move updated_at strictly forward.
Accepts(k) == k = cont \/ k.updated > cont.updated

SaveManifest(k) == Accepts(k) /\ cont' = k

InMailbox(q) == \E i \in DOMAIN cbox : cbox[i] = q

\* The slot of a request in the Controller mailbox: where it is, or the next.
Slot(q) ==
  IF InMailbox(q) THEN CHOOSE i \in DOMAIN cbox : cbox[i] = q ELSE Len(cbox) + 1

\* write's checks on a request that is not there: the prepared sequence is the
\* mailbox's and the producer's sequence moves on.
MayAppend(q) == prepared[q] = Len(cbox) + 1 /\ \A i \in DOMAIN cbox : cbox[i] < q

LeaseCurrent(att) ==
  lease.gen = att /\ lease.status = "ACTIVE" /\ ~(lease.expires < now)
-----------------------------------------------------------------------------
(* The host: one spec per controller_seq, bound to the lease of its time.  *)

NewSpec(k) ==
  /\ k.cseq \in Seqs
  /\ ~Issued(k.cseq)
  /\ spec' = [spec EXCEPT ![k.cseq] =
                [ckpt |-> k, att |-> lease.gen, expires |-> lease.expires]]
  /\ UNCHANGED <<cont, prepared, committed, cbox, ccur, ebox, ecur, env, pc, job, chosen>>

FirstRequest(mode) ==
  /\ cont = NoCont
  /\ LeaseCurrent(lease.gen)
  /\ NewSpec([epoch |-> 1, act |-> mode, cseq |-> 1, seen |-> 0, updated |-> now])

\* After a review the next request goes out, with the lease at hand.
NextRequest(mode) ==
  /\ cont.act = "REVIEW"
  /\ now > cont.updated
  /\ LeaseCurrent(lease.gen)
  /\ NewSpec([cont EXCEPT !.act = mode, !.cseq = @ + 1, !.updated = now])

\* qualify_wait_controller_successor: both tails as the continuation has them,
\* the predecessor's lease expired, a fresh lease of a higher generation.
Successor ==
  /\ cont.act = "AUTHORITY"
  /\ cbox # <<>> /\ cbox[Len(cbox)] = cont.cseq
  /\ Len(ebox) = cont.seen
  /\ spec[cont.cseq].expires < now
  /\ lease.status = "ACTIVE" /\ lease.gen > spec[cont.cseq].att /\ lease.expires > now
  /\ NewSpec([cont EXCEPT !.epoch = @ + 1, !.act = "EVENT", !.cseq = @ + 1, !.updated = now])
-----------------------------------------------------------------------------
(* materialize_controller_transition.                                      *)

Goto(label) == pc' = label

\* Mutant: the dispatch goes first and nothing is persisted before it.
Begin_NoPersist(q) ==
  /\ pc = "idle"
  /\ Issued(q)
  /\ Accepts(spec[q].ckpt)
  /\ Goto("prepare")
  /\ job' = [job EXCEPT !.q = q, !.via = "materialize"]
  /\ UNCHANGED <<cont, stores, env, chosen>>

\* prepare_v2_dispatch persists the checkpoint; any spec may be run at any
\* time, and again.
Begin(q) ==
  /\ pc = "idle"
  /\ Issued(q)
  /\ SaveManifest(spec[q].ckpt)
  /\ Goto("prepare")
  /\ job' = [job EXCEPT !.q = q, !.via = "materialize"]
  /\ UNCHANGED <<stores, env, chosen>>

\* DispatchProtocol.prepare: a durable record with other bindings raises.
Prepare ==
  /\ pc = "prepare"
  /\ IF prepared[job.q] \in {0, Slot(job.q)}
     THEN /\ prepared' = [prepared EXCEPT ![job.q] = Slot(job.q)]
          /\ Goto("write")
     ELSE Goto("idle") /\ UNCHANGED prepared
  /\ UNCHANGED <<cont, spec, committed, cbox, ccur, ebox, ecur, env, job, chosen>>

\* What follows a committed dispatch: the cursor, unless the reconciler is at
\* work.
AfterCommit == Goto(IF job.via = "materialize" THEN "ack" ELSE "idle")

\* DispatchProtocol.dispatch: a committed record is returned as it is;
\* otherwise the repository's write and its exact readback at the prepared
\* sequence, or an error.
Write ==
  LET q == job.q
  IN  /\ pc = "write"
      /\ \/ q \in committed /\ AfterCommit /\ UNCHANGED cbox
         \/ /\ q \notin committed
            /\ IF InMailbox(q)
               THEN Goto(IF Slot(q) = prepared[q] THEN "commit" ELSE "idle") /\ UNCHANGED cbox
               ELSE IF MayAppend(q)
               THEN Goto("commit") /\ cbox' = Append(cbox, q)
               ELSE Goto("idle") /\ UNCHANGED cbox
      /\ UNCHANGED <<cont, spec, prepared, committed, ccur, ebox, ecur, env, job, chosen>>

Commit ==
  /\ pc = "commit"
  /\ committed' = committed \cup {job.q}
  /\ AfterCommit
  /\ UNCHANGED <<cont, spec, prepared, cbox, ccur, ebox, ecur, env, job, chosen>>

\* _acknowledge_event_cursor, which never moves the cursor back; the readbacks
\* after it decide only whether the command returns a receipt.
Acknowledge ==
  /\ pc = "ack"
  /\ ccur' = IF ccur > prepared[job.q] THEN ccur ELSE prepared[job.q]
  /\ Goto("idle")
  /\ UNCHANGED <<cont, spec, prepared, committed, cbox, ebox, ecur, env, job, chosen>>

\* Mutant: the repair does not look for the event.
Repairs_Unchecked(q) == prepared[q] # 0 /\ q \notin committed

\* DispatchReconciler.reconcile on a durable prepared record: the exact event
\* is there without its commit ...
Repairs(q) ==
  /\ prepared[q] \in DOMAIN cbox
  /\ cbox[prepared[q]] = q
  /\ q \notin committed

\* ... or nothing is there and the successor slot is empty.  Anything else is
\* consumed or blocked.
Retries(q) == ~InMailbox(q) /\ q \notin committed /\ prepared[q] = Len(cbox) + 1

Reconcile(q) ==
  /\ pc = "idle"
  /\ \/ /\ Repairs(q)
        /\ committed' = committed \cup {q}
        /\ UNCHANGED <<pc, job>>
     \/ /\ Retries(q)
        /\ Goto("write")
        /\ job' = [job EXCEPT !.q = q, !.via = "reconcile"]
        /\ UNCHANGED committed
  /\ UNCHANGED <<cont, spec, prepared, cbox, ccur, ebox, ecur, env, chosen>>
-----------------------------------------------------------------------------
(* Resuming and recovering.  The commands take the durable continuation    *)
(* and the durable Executor cursor.                                        *)

Current == spec[cont.cseq]

\* Mutant: a resume does not look for its request.
Awaiting_NoEvent == cont.act \in Waiting

\* _controller_event_for_checkpoint finds the request.
Awaiting == cont.act \in Waiting /\ InMailbox(cont.cseq)

\* Mutant: only a lease the caller passes can break the wait.
Boundary_FenceOnly(fenced) == fenced /\ ~LeaseCurrent(Current.att)

\* _guard_wait_executor_authority: the attempt's lease has expired, or the
\* lease the caller passed (fenced) does not cover it any more.
Boundary(fenced) ==
  Current.expires < now \/ (fenced /\ ~LeaseCurrent(Current.att))

\* Mutant: the broken wait gets an action the continuation does not know.
Expired_NewAction(k) == [k EXCEPT !.act = "EXPIRED", !.updated = now]

Expired(k) == [k EXCEPT !.act = "AUTHORITY", !.updated = now]

BreakWait ==
  /\ SaveManifest(Expired(cont))
  /\ UNCHANGED <<stores, env, pc, job, chosen>>

\* recover_high_integrity_session on a waiting continuation: the request's
\* envelope must have been built from exactly this checkpoint.
RecoveryFinds == Awaiting /\ Current.ckpt = cont

Recover(fenced) ==
  /\ pc = "idle"
  /\ RecoveryFinds
  /\ Boundary(fenced)
  /\ BreakWait

Clock == StrictClock => now > cont.updated

ResumeExpired(fenced) ==
  /\ pc = "idle"
  /\ Awaiting /\ Clock
  /\ Boundary(fenced)
  /\ BreakWait

\* Mutant: the execution identity of an event is not compared.
Eligible_Any(k, fenced) ==
  ebox[k].kind \in Progress \cup Results \cup {"MALFORMED"}

\* The events poll_controller_terminal_result does not ignore: resumable, of
\* the current attempt, and covered by the lease if one is passed.  The code
\* compares with the expected_identity its caller passes; the caller is taken
\* to pass the identity of the attempt the continuation waits for.
Eligible(k, fenced) ==
  /\ ebox[k].kind \in Progress \cup Results \cup {"MALFORMED"}
  /\ spec[ebox[k].q].att = Current.att
  /\ fenced => LeaseCurrent(Current.att)

Scanned(fenced, kinds) ==
  {k \in (ecur + 1)..Len(ebox) : Eligible(k, fenced) /\ ebox[k].kind \in kinds}

\* The scan raises, before it acknowledges anything, on malformed progress and
\* on two different results.
ScanFails(fenced) ==
  \/ Scanned(fenced, {"MALFORMED"}) # {}
  \/ \A r \in Results : Scanned(fenced, {r}) # {}

\* The selected event k: the last result, or else the last progress.
LastOf(k, events) == k \in events /\ \A p \in events : p <= k
Selected(fenced, k) ==
  \/ LastOf(k, Scanned(fenced, Results))
  \/ Scanned(fenced, Results) = {} /\ LastOf(k, Scanned(fenced, Progress))

\* Progress after the selected result is kept beside it, and the poll's result
\* object refuses to hold both.
PollRaises(fenced, k) ==
  ebox[k].kind \in Results /\ \E p \in Scanned(fenced, Progress) : p > k

\* The next continuation: all scanned events count as seen.
Resumed(k) ==
  [cont EXCEPT !.act = IF ebox[k].kind = "RUNNING" THEN @ ELSE "REVIEW",
               !.seen = Len(ebox), !.updated = now]

\* resume_controller_v2 and resume_controller_event_v2 up to the cursor's
\* acknowledgement.
ResumeScan(fenced) ==
  /\ pc = "idle"
  /\ Awaiting /\ Clock
  /\ ~Boundary(fenced)
  /\ ecur < Len(ebox)
  /\ ~ScanFails(fenced)
  /\ ecur' = Len(ebox)
  /\ \/ /\ Scanned(fenced, Progress \cup Results) = {}
        /\ UNCHANGED <<pc, job, chosen>>
     \/ \E k \in DOMAIN ebox :
          /\ Selected(fenced, k)
          /\ chosen' = k
          /\ \/ PollRaises(fenced, k) /\ UNCHANGED <<pc, job>>
             \/ /\ ~PollRaises(fenced, k)
                /\ Goto("persist")
                /\ job' = [job EXCEPT !.next = Resumed(k)]
  /\ UNCHANGED <<cont, spec, prepared, committed, cbox, ccur, ebox, env>>

\* ... and its second write, or the store's refusal of it.
ResumePersist ==
  /\ pc = "persist"
  /\ IF Accepts(job.next) THEN cont' = job.next ELSE UNCHANGED cont
  /\ Goto("idle")
  /\ UNCHANGED <<stores, env, job, chosen>>

Resume ==
  \E fenced \in BOOLEAN : ResumeExpired(fenced) \/ ResumeScan(fenced)

\* The Controller process dies.
Crash ==
  /\ pc # "idle"
  /\ crashes < MaxCrashes
  /\ crashes' = crashes + 1
  /\ Goto("idle")
  /\ UNCHANGED <<cont, stores, lease, now, started, job, chosen>>
-----------------------------------------------------------------------------
(* Executors, the lease issuer and the clock.                              *)

\* MailboxV2ExecutorEntrypoint.bootstrap: a wakeup points to a committed
\* dispatch; the producer's cursor must stand exactly at its event.
Bootstrap(q) ==
  /\ q \in committed
  /\ ccur = prepared[q]
  /\ started' = started \cup {q}
  /\ UNCHANGED <<cont, stores, lease, now, crashes, pc, job, chosen>>

Report(q, kind) ==
  /\ q \in started
  /\ Len(ebox) < MaxEvents
  /\ ebox' = Append(ebox, [kind |-> kind, q |-> q])
  /\ UNCHANGED <<cont, spec, prepared, committed, cbox, ccur, ecur, env, pc, job, chosen>>

EndLease ==
  /\ lease.status = "ACTIVE"
  /\ lease' = [lease EXCEPT !.status = "ENDED"]
  /\ UNCHANGED <<cont, stores, now, started, crashes, pc, job, chosen>>

IssueLease ==
  /\ lease.status = "ENDED" \/ lease.expires < now
  /\ lease.gen < MaxSeq
  /\ now + Ttl < MaxTime
  /\ lease' = [gen |-> lease.gen + 1, expires |-> now + Ttl, status |-> "ACTIVE"]
  /\ UNCHANGED <<cont, stores, now, started, crashes, pc, job, chosen>>

Tick ==
  /\ now < MaxTime
  /\ now' = now + 1
  /\ UNCHANGED <<cont, stores, lease, started, crashes, pc, job, chosen>>
-----------------------------------------------------------------------------
Drive == Prepare \/ Write \/ Commit \/ Acknowledge \/ ResumePersist

Host == Successor \/ \E mode \in Modes : FirstRequest(mode) \/ NextRequest(mode)

Environment ==
  \/ \E q \in Seqs : Bootstrap(q) \/ \E kind \in Kinds : Report(q, kind)
  \/ EndLease \/ IssueLease \/ Tick

Next ==
  \/ Host \/ Drive \/ Resume \/ Crash \/ Environment
  \/ \E q \in Seqs : Begin(q) \/ Reconcile(q)
  \/ \E fenced \in BOOLEAN : Recover(fenced)

Spec == Init /\ [][Next]_vars

\* A request whose event is missing is materialized again.
Redo == cont.act \in Waiting /\ ~InMailbox(cont.cseq) /\ Begin(cont.cseq)

\* The process finishes its commands, the host keeps polling and redoes what
\* was interrupted however often other commands come between, and time passes.
FairSpec == Spec /\ WF_vars(Drive) /\ SF_vars(Resume) /\ SF_vars(Redo) /\ WF_vars(Tick)
-----------------------------------------------------------------------------
\* Persist before dispatch (continuation_dispatch.py): no request is in the
\* mailbox, where an executor may see it, that the durable continuation has
\* not reached, and the newest one is at or just behind the continuation.
PersistedFirst ==
  /\ \A i \in DOMAIN cbox : cbox[i] <= cont.cseq
  /\ cont.cseq > 1 => \E i \in DOMAIN cbox : cbox[i] >= cont.cseq - 1

\* The ledger says what the mailbox holds (dispatch_ledger.py: DispatchCommitted
\* is "proven by a mailbox CAS write and exact readback"): through crashes,
\* replays and reconciliations, a committed request is the event at the slot
\* it was prepared for.
CommittedInMailbox ==
  \A q \in committed : prepared[q] \in DOMAIN cbox /\ cbox[prepared[q]] = q

\* The continuation only moves forward: a spec that is run late or twice, or a
\* resume that was overtaken, never brings back an older epoch, request or
\* Executor sequence.
ForwardStep ==
  /\ cont'.epoch >= cont.epoch
  /\ cont'.cseq >= cont.cseq
  /\ cont'.seen >= cont.seen
ContinuationForward == [][ForwardStep]_vars

\* Fencing: what ends a wait in a review is an event of the attempt the
\* waiting request is bound to, never one of an attempt it replaced.
ReviewStep ==
  cont.act \in Waiting /\ cont'.act = "REVIEW"
    => spec[ebox[chosen].q].att = Current.att
OnlyCurrentAttempt == [][ReviewStep]_vars

\* A crash leaves a retry behind: between commands, a waiting continuation has
\* its request in the mailbox, or the spec it came from can still be
\* materialized at the end of the mailbox.
CrashIsRetryable ==
  pc = "idle" /\ cont.act \in Waiting /\ ~InMailbox(cont.cseq)
    => /\ Current.ckpt = cont
       /\ prepared[cont.cseq] \in {0, Len(cbox) + 1}
       /\ \A i \in DOMAIN cbox : cbox[i] < cont.cseq

\* "Persist a verified actor cursor after semantic consumption": when no
\* command is under way, an event that a scan selected is in the continuation.
SelectedIsConsumed == pc = "idle" => cont.seen >= chosen

\* "Restart-safe current Controller state": when no command is under way and
\* nothing was interrupted, recovery finds the waiting request.
RestartSafe == pc = "idle" /\ Awaiting => RecoveryFinds

\* A polling Controller does not wait for ever: not on a dead executor, a lost
\* result or malformed progress.
Act == cont.act
PollingEnds == Act = "POLL" ~> Act # "POLL"
=============================================================================
