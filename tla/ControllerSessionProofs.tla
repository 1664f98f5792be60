----------------------- MODULE ControllerSessionProofs -----------------------
(***************************************************************************)
(* Proofs about ControllerSession, for any number of requests, events,     *)
(* crashes and instants.                                                   *)
(***************************************************************************)
EXTENDS ControllerSession, TLAPS

\* The event of q is where it was prepared.
At(q) == prepared[q] \in DOMAIN cbox /\ cbox[prepared[q]] = q

\* The inductive invariant, in parts.  A spec was written when its predecessor
\* was in the mailbox; one that the store would still accept is the direct
\* successor of the durable continuation.
SpecOK ==
  \A q \in Seqs : Issued(q) =>
    /\ spec[q].ckpt.cseq = q
    /\ spec[q].ckpt.act \in Waiting
    /\ spec[q].ckpt.updated <= now
    /\ spec[q].ckpt.seen <= Len(ebox)
    /\ q > 1 => InMailbox(q - 1)
    /\ spec[q].ckpt.updated > cont.updated =>
         /\ q = cont.cseq + 1
         /\ spec[q].ckpt.epoch >= cont.epoch
         /\ spec[q].ckpt.seen >= cont.seen

ContOK ==
  /\ cont.updated <= now
  /\ cont.seen <= Len(ebox)
  /\ cont.cseq <= MaxSeq
  /\ cont.act \in Waiting => cont.cseq > 0
  /\ cont.act \in {"REVIEW", "AUTHORITY"} => InMailbox(cont.cseq)
  /\ \A r \in 1..(cont.cseq - 1) : InMailbox(r)

LedgerOK ==
  /\ \A q \in Seqs : prepared[q] # 0 => q <= cont.cseq
  /\ \A i \in DOMAIN cbox : cbox[i] <= cont.cseq
  /\ pc = "prepare" => job.q <= cont.cseq
  /\ pc = "commit" => At(job.q)
  /\ \A q \in committed : At(q)

RetryOK ==
  cont.act \in Waiting /\ ~InMailbox(cont.cseq)
    => Current.ckpt = cont /\ prepared[cont.cseq] \in {0, Len(cbox) + 1}

\* Between the two writes of a resume nothing but executors and the clock
\* moves.
PersistOK ==
  pc = "persist" =>
    /\ cont.act \in Waiting
    /\ InMailbox(cont.cseq)
    /\ job.next.epoch = cont.epoch
    /\ job.next.cseq = cont.cseq
    /\ job.next.seen >= cont.seen
    /\ job.next.seen <= Len(ebox)
    /\ job.next.updated <= now
    /\ job.next.act \in Waiting \cup {"REVIEW"}
    /\ \A q \in Seqs : Issued(q) => spec[q].ckpt.updated <= job.next.updated
    /\ chosen \in DOMAIN ebox
    /\ spec[ebox[chosen].q].att = Current.att

Inv == TypeOK /\ SpecOK /\ ContOK /\ LedgerOK /\ RetryOK /\ PersistOK
-----------------------------------------------------------------------------
(* Types.                                                                  *)

LEMMA ExpiredType ==
  ASSUME NEW k \in Checkpoint, now \in 0..MaxTime
  PROVE  Expired(k) \in Checkpoint
<1>1. now \in Int
  BY BoundAssumption
<1> QED
  BY <1>1 DEF Expired, Checkpoint

LEMMA ResumedType ==
  ASSUME TypeOK, NEW k
  PROVE  Resumed(k) \in Checkpoint
<1>1. Len(ebox) \in Nat
  BY DEF TypeOK
<1>2. now \in Int
  BY BoundAssumption DEF TypeOK
<1> QED
  BY <1>1, <1>2 DEF TypeOK, Resumed, Checkpoint

\* What NewSpec writes, by its caller.
LEMMA HostType ==
  ASSUME TypeOK, Host
  PROVE  \E k \in Checkpoint :
           /\ NewSpec(k)
           /\ k.cseq = cont.cseq + 1
           /\ k.epoch >= cont.epoch
           /\ k.seen = cont.seen
           /\ k.updated = now
           /\ k.act \in Waiting
           /\ cont = NoCont \/ cont.act \in {"REVIEW", "AUTHORITY"}
<1> now \in Int /\ cont.epoch \in Nat /\ cont.cseq \in Nat /\ cont.seen \in Nat
  BY BoundAssumption DEF TypeOK, Checkpoint
<1>0. cont.epoch + 1 \in Nat /\ cont.cseq + 1 \in Nat
  OBVIOUS
<1>1. CASE Successor
  <2> DEFINE k == [cont EXCEPT !.epoch = @ + 1, !.act = "EVENT", !.cseq = @ + 1, !.updated = now]
  <2>1. k \in Checkpoint /\ k.cseq = cont.cseq + 1 /\ k.epoch = cont.epoch + 1 /\ k.seen = cont.seen
        /\ k.updated = now /\ k.act = "EVENT"
    BY <1>0 DEF TypeOK, Checkpoint, Waiting
  <2>2. NewSpec(k) /\ cont.act = "AUTHORITY"
    BY <1>1 DEF Successor
  <2> HIDE DEF k
  <2> QED
    BY <2>1, <2>2 DEF Waiting
<1>2. ASSUME NEW mode \in Modes, FirstRequest(mode)
      PROVE  \E k \in Checkpoint :
               /\ NewSpec(k)
               /\ k.cseq = cont.cseq + 1
               /\ k.epoch >= cont.epoch
               /\ k.seen = cont.seen
               /\ k.updated = now
               /\ k.act \in Waiting
               /\ cont = NoCont \/ cont.act \in {"REVIEW", "AUTHORITY"}
  <2> DEFINE k == [epoch |-> 1, act |-> mode, cseq |-> 1, seen |-> 0, updated |-> now]
  <2>1. k \in Checkpoint /\ k.cseq = 1 /\ k.epoch = 1 /\ k.seen = 0 /\ k.updated = now /\ k.act \in Waiting
    BY KindAssumption DEF Checkpoint
  <2>2. NewSpec(k) /\ cont = NoCont
    BY <1>2 DEF FirstRequest
  <2>3. cont.cseq = 0 /\ cont.epoch = 0 /\ cont.seen = 0
    BY <2>2 DEF NoCont
  <2> HIDE DEF k
  <2> QED
    BY <2>1, <2>2, <2>3
<1>3. ASSUME NEW mode \in Modes, NextRequest(mode)
      PROVE  \E k \in Checkpoint :
               /\ NewSpec(k)
               /\ k.cseq = cont.cseq + 1
               /\ k.epoch >= cont.epoch
               /\ k.seen = cont.seen
               /\ k.updated = now
               /\ k.act \in Waiting
               /\ cont = NoCont \/ cont.act \in {"REVIEW", "AUTHORITY"}
  <2> DEFINE k == [cont EXCEPT !.act = mode, !.cseq = @ + 1, !.updated = now]
  <2>1. k \in Checkpoint /\ k.cseq = cont.cseq + 1 /\ k.epoch = cont.epoch /\ k.seen = cont.seen
        /\ k.updated = now /\ k.act \in Waiting
    BY <1>0, KindAssumption DEF TypeOK, Checkpoint
  <2>2. NewSpec(k) /\ cont.act = "REVIEW"
    BY <1>3 DEF NextRequest
  <2> HIDE DEF k
  <2> QED
    BY <2>1, <2>2
<1> QED
  BY <1>1, <1>2, <1>3 DEF Host

\* The two outcomes of Write.
LEMMA WriteOutcome ==
  ASSUME Write
  PROVE  /\ pc' \in {"commit", "ack", "idle"}
         /\ \/ /\ cbox' = cbox
               /\ pc' = "commit" => InMailbox(job.q) /\ Slot(job.q) = prepared[job.q]
            \/ /\ ~InMailbox(job.q) /\ MayAppend(job.q)
               /\ cbox' = Append(cbox, job.q)
BY DEF Write, AfterCommit, Goto

LEMMA TypeInit == Init => TypeOK
<1> SUFFICES ASSUME Init PROVE TypeOK
  OBVIOUS
<1>1. NoCont \in Checkpoint /\ 1 \in Seqs
  BY BoundAssumption DEF NoCont, Checkpoint, Seqs
<1>2. NoSpec \in Request
  BY <1>1 DEF NoSpec, Request
<1>3. job \in Job
  BY <1>1 DEF Init, Job
<1>4. lease \in Lease /\ now \in 0..MaxTime
  BY BoundAssumption DEF Init, Lease
<1> QED
  BY <1>1, <1>2, <1>3, <1>4 DEF Init, TypeOK, PC

LEMMA TypeStep == TypeOK /\ [Next]_vars => TypeOK'
<1> SUFFICES ASSUME TypeOK, [Next]_vars PROVE TypeOK'
  OBVIOUS
<1>t. /\ cont \in Checkpoint /\ spec \in [Seqs -> Request] /\ prepared \in [Seqs -> Nat]
      /\ committed \subseteq Seqs /\ cbox \in Seq(Seqs) /\ ccur \in Nat
      /\ ebox \in Seq(Event) /\ ecur \in Nat /\ lease \in Lease /\ now \in 0..MaxTime
      /\ started \subseteq Seqs /\ pc \in PC /\ job \in Job /\ chosen \in Nat /\ crashes \in Nat
  BY DEF TypeOK
<1>n. Len(cbox) + 1 \in Nat /\ Len(ebox) \in Nat /\ now \in Int /\ now \in Nat
  BY <1>t, BoundAssumption
<1>j. job.q \in Seqs /\ \A q \in Seqs : spec[q].ckpt \in Checkpoint /\ Slot(q) \in Nat
  <2>1. job.q \in Seqs /\ \A q \in Seqs : spec[q].ckpt \in Checkpoint
    BY <1>t DEF Job, Request
  <2>2. \A q \in Seqs : Slot(q) \in Nat
    BY <1>t, <1>n DEF Slot, InMailbox
  <2> QED
    BY <2>1, <2>2
<1>1. CASE UNCHANGED vars
  BY <1>1 DEF vars, stores, env, TypeOK
<1>2. CASE Host
  <2>1. PICK k \in Checkpoint : NewSpec(k)
    BY <1>2, HostType
  <2>2. [ckpt |-> k, att |-> lease.gen, expires |-> lease.expires] \in Request
    BY <1>t DEF Lease, Request
  <2>3. spec' \in [Seqs -> Request]
    BY <2>1, <2>2, <1>t DEF NewSpec
  <2> QED
    BY <2>1, <2>3 DEF NewSpec, env, TypeOK
<1>3. ASSUME NEW q \in Seqs, Begin(q) PROVE TypeOK'
  <2>1. cont' \in Checkpoint
    BY <1>3, <1>j DEF Begin, SaveManifest
  <2>2. job' \in Job
    BY <1>3, <1>t DEF Begin, Job
  <2> QED
    BY <1>3, <2>1, <2>2 DEF Begin, Goto, PC, stores, env, TypeOK
<1>4. CASE Prepare
  <2>1. prepared' \in [Seqs -> Nat]
    BY <1>4, <1>t, <1>j DEF Prepare
  <2> QED
    BY <1>4, <2>1 DEF Prepare, Goto, PC, env, TypeOK
<1>5. CASE Write
  <2>1. cbox' \in Seq(Seqs)
    <3>1. Append(cbox, job.q) \in Seq(Seqs)
      BY <1>t, <1>j
    <3> QED
      BY <1>5, <3>1, <1>t, WriteOutcome
  <2>2. pc' \in PC
    BY <1>5, WriteOutcome DEF PC
  <2> QED
    BY <1>5, <2>1, <2>2 DEF Write, env, TypeOK
<1>6. CASE Commit
  <2>1. committed' \subseteq Seqs /\ pc' \in PC
    BY <1>6, <1>t, <1>j DEF Commit, AfterCommit, Goto, PC
  <2> QED
    BY <1>6, <2>1 DEF Commit, env, TypeOK
<1>7. CASE Acknowledge
  <2>1. ccur' \in Nat
    BY <1>7, <1>t, <1>j DEF Acknowledge
  <2> QED
    BY <1>7, <2>1 DEF Acknowledge, Goto, PC, env, TypeOK
<1>8. ASSUME NEW q \in Seqs, Reconcile(q) PROVE TypeOK'
  <2>1. job' \in Job
    BY <1>8, <1>t DEF Reconcile, Job
  <2>2. committed' \subseteq Seqs
    BY <1>8, <1>t DEF Reconcile
  <2> QED
    BY <1>8, <2>1, <2>2 DEF Reconcile, Goto, PC, env, TypeOK
<1>9. ASSUME BreakWait PROVE TypeOK'
  <2>1. cont' \in Checkpoint
    BY <1>9, <1>t, ExpiredType DEF BreakWait, SaveManifest
  <2> QED
    BY <1>9, <2>1 DEF BreakWait, stores, env, TypeOK
<1>10. ASSUME NEW fenced \in BOOLEAN, ResumeScan(fenced) PROVE TypeOK'
  <2>1. job' \in Job /\ chosen' \in Nat /\ pc' \in PC
    <3>1. CASE UNCHANGED <<pc, job, chosen>>
      BY <3>1, <1>t
    <3>2. CASE \E k \in DOMAIN ebox : chosen' = k /\ UNCHANGED <<pc, job>>
      BY <3>2, <1>t
    <3>3. ASSUME NEW k \in DOMAIN ebox, chosen' = k, pc' = "persist",
                 job' = [job EXCEPT !.next = Resumed(k)]
          PROVE  job' \in Job /\ chosen' \in Nat /\ pc' \in PC
      <4>1. Resumed(k) \in Checkpoint
        BY ResumedType
      <4>2. job' \in Job
        BY <3>3, <4>1, <1>t DEF Job
      <4> QED
        BY <3>3, <4>2, <1>t DEF PC
    <3> QED
      BY <1>10, <3>1, <3>2, <3>3 DEF ResumeScan, Goto
  <2> QED
    BY <1>10, <2>1, <1>n DEF ResumeScan, env, TypeOK
<1>11. CASE ResumePersist
  <2>1. cont' \in Checkpoint
    BY <1>11, <1>t DEF ResumePersist, Job
  <2> QED
    BY <1>11, <2>1 DEF ResumePersist, Goto, PC, stores, env, TypeOK
<1>12. CASE Crash
  BY <1>12 DEF Crash, Goto, PC, stores, TypeOK
<1>13. ASSUME NEW q \in Seqs, Bootstrap(q) PROVE TypeOK'
  BY <1>13 DEF Bootstrap, stores, TypeOK
<1>14. ASSUME NEW q \in Seqs, NEW kind \in Kinds, Report(q, kind) PROVE TypeOK'
  <2>1. [kind |-> kind, q |-> q] \in Event
    BY DEF Event
  <2>2. ebox' \in Seq(Event)
    BY <1>14, <2>1, <1>t DEF Report
  <2> QED
    BY <1>14, <2>2 DEF Report, env, TypeOK
<1>15. CASE EndLease
  <2>1. lease' \in Lease
    BY <1>15, <1>t DEF EndLease, Lease
  <2> QED
    BY <1>15, <2>1 DEF EndLease, stores, TypeOK
<1>16. CASE IssueLease
  <2>1. lease.gen + 1 \in Nat /\ now + Ttl \in Nat
    BY <1>t, <1>n, BoundAssumption DEF Lease
  <2>2. lease' \in Lease
    BY <1>16, <2>1 DEF IssueLease, Lease
  <2> QED
    BY <1>16, <2>2 DEF IssueLease, stores, TypeOK
<1>17. CASE Tick
  <2>1. now' \in 0..MaxTime
    BY <1>17, <1>t, BoundAssumption DEF Tick
  <2> QED
    BY <1>17, <2>1 DEF Tick, stores, TypeOK
<1> QED
  BY <1>1, <1>2, <1>3, <1>4, <1>5, <1>6, <1>7, <1>8, <1>9, <1>10, <1>11, <1>12, <1>13, <1>14,
     <1>15, <1>16, <1>17
  DEF Next, Drive, Resume, Environment, ResumeExpired, Recover
-----------------------------------------------------------------------------
(* The mailboxes only grow.                                                *)

CGrows == cbox' = cbox \/ \E x \in Seqs : cbox' = Append(cbox, x)
EGrows == ebox' = ebox \/ \E e \in Event : ebox' = Append(ebox, e)

LEMMA CGrown ==
  ASSUME TypeOK, CGrows
  PROVE  /\ Len(cbox) \in Nat /\ Len(cbox') \in Nat /\ Len(cbox') >= Len(cbox)
         /\ DOMAIN cbox = 1..Len(cbox) /\ DOMAIN cbox' = 1..Len(cbox')
         /\ \A i \in DOMAIN cbox : i \in DOMAIN cbox' /\ cbox'[i] = cbox[i]
         /\ \A q : InMailbox(q) => InMailbox(q)'
<1>1. /\ Len(cbox) \in Nat /\ Len(cbox') \in Nat /\ Len(cbox') >= Len(cbox)
      /\ DOMAIN cbox = 1..Len(cbox) /\ DOMAIN cbox' = 1..Len(cbox')
      /\ \A i \in DOMAIN cbox : i \in DOMAIN cbox' /\ cbox'[i] = cbox[i]
  <2>1. cbox \in Seq(Seqs)
    BY DEF TypeOK
  <2>2. CASE cbox' = cbox
    BY <2>1, <2>2
  <2>3. ASSUME NEW x \in Seqs, cbox' = Append(cbox, x)
        PROVE  /\ Len(cbox) \in Nat /\ Len(cbox') \in Nat /\ Len(cbox') >= Len(cbox)
               /\ DOMAIN cbox = 1..Len(cbox) /\ DOMAIN cbox' = 1..Len(cbox')
               /\ \A i \in DOMAIN cbox : i \in DOMAIN cbox' /\ cbox'[i] = cbox[i]
    BY <2>1, <2>3
  <2> QED
    BY <2>2, <2>3 DEF CGrows
<1> QED
  BY <1>1 DEF InMailbox

LEMMA EGrown ==
  ASSUME TypeOK, EGrows
  PROVE  /\ Len(ebox) \in Nat /\ Len(ebox') \in Nat /\ Len(ebox') >= Len(ebox)
         /\ \A i \in DOMAIN ebox : i \in DOMAIN ebox' /\ ebox'[i] = ebox[i]
<1>1. ebox \in Seq(Event)
  BY DEF TypeOK
<1>2. CASE ebox' = ebox
  BY <1>1, <1>2
<1>3. ASSUME NEW x \in Event, ebox' = Append(ebox, x)
      PROVE  /\ Len(ebox) \in Nat /\ Len(ebox') \in Nat /\ Len(ebox') >= Len(ebox)
             /\ \A i \in DOMAIN ebox : i \in DOMAIN ebox' /\ ebox'[i] = ebox[i]
  BY <1>1, <1>3
<1> QED
  BY <1>2, <1>3 DEF EGrows

\* The numbers of the state.
LEMMA Numbers ==
  ASSUME TypeOK
  PROVE  /\ now \in Int /\ cont.updated \in Int /\ cont.seen \in Nat
         /\ cont.cseq \in Nat /\ cont.epoch \in Nat
         /\ Len(cbox) \in Nat /\ Len(ebox) \in Nat
         /\ MaxSeq \in Nat
         /\ \A q \in Seqs : /\ q \in Nat /\ q > 0 /\ q <= MaxSeq
                            /\ spec[q].ckpt \in Checkpoint /\ spec[q].ckpt.updated \in Int
                            /\ spec[q].ckpt.epoch \in Nat /\ spec[q].ckpt.seen \in Nat
                            /\ prepared[q] \in Nat
         /\ job.q \in Seqs /\ job.next \in Checkpoint
         /\ job.next.updated \in Int /\ job.next.seen \in Nat
         /\ DOMAIN cbox = 1..Len(cbox)
         /\ \A i \in DOMAIN cbox : cbox[i] \in Seqs
<1>1. cont \in Checkpoint /\ spec \in [Seqs -> Request] /\ job \in Job /\ prepared \in [Seqs -> Nat]
      /\ now \in 0..MaxTime /\ cbox \in Seq(Seqs) /\ ebox \in Seq(Event)
  BY DEF TypeOK
<1>2. /\ now \in Int /\ MaxSeq \in Nat /\ Len(cbox) \in Nat /\ Len(ebox) \in Nat
      /\ \A q \in Seqs : q \in Nat /\ q > 0 /\ q <= MaxSeq /\ prepared[q] \in Nat
  BY <1>1, BoundAssumption DEF Seqs
<1>3. \A q \in Seqs : spec[q].ckpt \in Checkpoint
  BY <1>1 DEF Request
<1>4. job.q \in Seqs /\ job.next \in Checkpoint
  BY <1>1 DEF Job
<1>5. \A k \in Checkpoint : k.updated \in Int /\ k.epoch \in Nat /\ k.seen \in Nat /\ k.cseq \in Nat
  BY DEF Checkpoint
<1>6. DOMAIN cbox = 1..Len(cbox) /\ \A i \in DOMAIN cbox : cbox[i] \in Seqs
  BY <1>1
<1> QED
  BY <1>1, <1>2, <1>3, <1>4, <1>5, <1>6

\* A step that leaves specs and continuation alone keeps what relates them.
LEMMA Frame ==
  ASSUME TypeOK, SpecOK, ContOK, UNCHANGED <<spec, cont>>, CGrows, EGrows, now' \in Int, now' >= now
  PROVE  SpecOK' /\ ContOK'
<1>1. /\ Len(ebox) \in Nat /\ Len(ebox') \in Nat /\ Len(ebox') >= Len(ebox)
      /\ \A q : InMailbox(q) => InMailbox(q)'
  BY CGrown, EGrown
<1>2. SpecOK'
  <2> SUFFICES ASSUME NEW q \in Seqs, Issued(q)'
               PROVE  /\ spec[q].ckpt.cseq = q
                      /\ spec[q].ckpt.act \in Waiting
                      /\ spec[q].ckpt.updated <= now'
                      /\ spec[q].ckpt.seen <= Len(ebox')
                      /\ q > 1 => InMailbox(q - 1)'
                      /\ spec[q].ckpt.updated > cont.updated =>
                           /\ q = cont.cseq + 1
                           /\ spec[q].ckpt.epoch >= cont.epoch
                           /\ spec[q].ckpt.seen >= cont.seen
    BY DEF SpecOK
  <2>1. Issued(q)
    BY DEF Issued
  <2>2. /\ spec[q].ckpt.cseq = q
        /\ spec[q].ckpt.act \in Waiting
        /\ spec[q].ckpt.updated <= now
        /\ spec[q].ckpt.seen <= Len(ebox)
        /\ q > 1 => InMailbox(q - 1)
        /\ spec[q].ckpt.updated > cont.updated =>
             /\ q = cont.cseq + 1
             /\ spec[q].ckpt.epoch >= cont.epoch
             /\ spec[q].ckpt.seen >= cont.seen
    BY <2>1 DEF SpecOK
  <2>3. q > 1 => InMailbox(q - 1)'
    BY <1>1, <2>2
  <2>4. now \in Int /\ spec[q].ckpt.updated \in Int /\ spec[q].ckpt.seen \in Nat
    BY Numbers
  <2> QED
    BY <1>1, <2>2, <2>3, <2>4
<1>3. ContOK'
  <2>1. now \in Int /\ cont.updated \in Int /\ cont.seen \in Nat
    BY Numbers
  <2> QED
    BY <1>1, <2>1 DEF ContOK
<1> QED
  BY <1>2, <1>3

LEMMA LedgerFrame ==
  ASSUME TypeOK, LedgerOK, UNCHANGED <<prepared, cbox, committed>>,
         cont'.cseq \in Nat, cont'.cseq >= cont.cseq,
         pc' = "prepare" => job'.q <= cont'.cseq,
         pc' = "commit" => pc = "commit" /\ job'.q = job.q
  PROVE  LedgerOK'
<1>1. \A q : At(q)' <=> At(q)
  BY DEF At
<1>2. \A q \in Seqs : prepared'[q] # 0 => q <= cont'.cseq
  <2>1. cont.cseq \in Nat /\ \A q \in Seqs : q \in Nat
    BY Numbers
  <2> QED
    BY <2>1 DEF LedgerOK
<1>3. \A i \in DOMAIN cbox' : cbox'[i] <= cont'.cseq
  <2> SUFFICES ASSUME NEW i \in DOMAIN cbox PROVE cbox[i] <= cont'.cseq
    OBVIOUS
  <2>1. cbox[i] \in Nat /\ cbox[i] <= cont.cseq /\ cont.cseq \in Nat
    BY Numbers DEF LedgerOK
  <2> QED
    BY <2>1
<1>4. (pc' = "commit" => At(job.q)') /\ \A q \in committed' : At(q)'
  BY <1>1 DEF LedgerOK, At
<1> QED
  BY <1>2, <1>3, <1>4 DEF LedgerOK

LEMMA PersistFrame ==
  ASSUME TypeOK, PersistOK, CGrows, EGrows, now' \in Int, now' >= now,
         pc' = "persist" => pc = "persist" /\ UNCHANGED <<cont, job, spec, chosen>>
  PROVE  PersistOK'
<1> SUFFICES ASSUME pc' = "persist" PROVE PersistOK'
  BY DEF PersistOK
<1>0. pc = "persist" /\ UNCHANGED <<cont, job, spec, chosen>>
  OBVIOUS
<1>1. /\ Len(ebox) \in Nat /\ Len(ebox') \in Nat /\ Len(ebox') >= Len(ebox)
      /\ \A i \in DOMAIN ebox : i \in DOMAIN ebox' /\ ebox'[i] = ebox[i]
      /\ \A q : InMailbox(q) => InMailbox(q)'
  BY CGrown, EGrown
<1>2. /\ job.next.seen \in Nat /\ job.next.updated \in Int /\ now \in Int
  BY Numbers
<1>3. /\ cont.act \in Waiting
      /\ InMailbox(cont.cseq)
      /\ job.next.epoch = cont.epoch
      /\ job.next.cseq = cont.cseq
      /\ job.next.seen >= cont.seen
      /\ job.next.seen <= Len(ebox)
      /\ job.next.updated <= now
      /\ job.next.act \in Waiting \cup {"REVIEW"}
      /\ \A q \in Seqs : Issued(q) => spec[q].ckpt.updated <= job.next.updated
      /\ chosen \in DOMAIN ebox
      /\ spec[ebox[chosen].q].att = Current.att
  BY <1>0 DEF PersistOK
<1>4. InMailbox(cont.cseq)' /\ Current' = Current /\ \A q : Issued(q)' <=> Issued(q)
  BY <1>0, <1>1, <1>3 DEF Current, Issued, InMailbox
<1>5. job.next.seen <= Len(ebox') /\ job.next.updated <= now'
  BY <1>1, <1>2, <1>3
<1>6. chosen \in DOMAIN ebox' /\ ebox'[chosen] = ebox[chosen]
  BY <1>1, <1>3
<1> QED
  BY <1>0, <1>3, <1>4, <1>5, <1>6 DEF PersistOK

\* Steps that touch none of the Controller's stores.
LEMMA QuietStep ==
  ASSUME Inv, UNCHANGED <<spec, cont, prepared, committed, cbox>>, EGrows, now' \in Int, now' >= now,
         \/ UNCHANGED <<pc, job, chosen>>
         \/ pc' \notin {"prepare", "commit", "persist"}
  PROVE  SpecOK' /\ ContOK' /\ LedgerOK' /\ RetryOK' /\ PersistOK'
<1>1. CGrows
  BY DEF CGrows
<1>2. SpecOK' /\ ContOK'
  BY <1>1, Frame DEF Inv
<1>3. cont'.cseq \in Nat /\ cont'.cseq >= cont.cseq
  BY Numbers DEF Inv
<1>4. LedgerOK'
  BY <1>3, LedgerFrame DEF Inv, LedgerOK
<1>5. RetryOK'
  BY DEF Inv, RetryOK, InMailbox, Current
<1>6. PersistOK'
  BY <1>1, PersistFrame DEF Inv
<1> QED
  BY <1>2, <1>4, <1>5, <1>6
-----------------------------------------------------------------------------
(* One lemma per step that changes a store of the Controller.              *)

Parts == SpecOK /\ ContOK /\ LedgerOK /\ RetryOK /\ PersistOK

LEMMA HostStep ==
  ASSUME Inv, Host
  PROVE  Parts'
<1>1. PICK k \in Checkpoint :
           /\ NewSpec(k)
           /\ k.cseq = cont.cseq + 1
           /\ k.epoch >= cont.epoch
           /\ k.seen = cont.seen
           /\ k.updated = now
           /\ k.act \in Waiting
           /\ cont = NoCont \/ cont.act \in {"REVIEW", "AUTHORITY"}
  BY HostType DEF Inv
<1>2. /\ k.cseq \in Seqs /\ ~Issued(k.cseq)
      /\ spec' = [spec EXCEPT ![k.cseq] = [ckpt |-> k, att |-> lease.gen, expires |-> lease.expires]]
      /\ UNCHANGED <<cont, prepared, committed, cbox, ccur, ebox, ecur, env, pc, job, chosen>>
  BY <1>1 DEF NewSpec
<1>3. cont.act \notin Waiting /\ (cont.cseq > 0 => InMailbox(cont.cseq))
  BY <1>1 DEF NoCont, Waiting, Inv, ContOK
<1>4. DOMAIN spec = Seqs /\ now' = now
  BY <1>2 DEF Inv, TypeOK, env
<1>5. SpecOK'
  <2> SUFFICES ASSUME NEW q \in Seqs, Issued(q)'
               PROVE  /\ spec'[q].ckpt.cseq = q
                      /\ spec'[q].ckpt.act \in Waiting
                      /\ spec'[q].ckpt.updated <= now
                      /\ spec'[q].ckpt.seen <= Len(ebox)
                      /\ q > 1 => InMailbox(q - 1)
                      /\ spec'[q].ckpt.updated > cont.updated =>
                           /\ q = cont.cseq + 1
                           /\ spec'[q].ckpt.epoch >= cont.epoch
                           /\ spec'[q].ckpt.seen >= cont.seen
    BY <1>2, <1>4 DEF SpecOK, InMailbox
  <2>1. CASE q = k.cseq
    <3>1. spec'[q].ckpt = k
      BY <1>2, <1>4, <2>1
    <3>2. cont.cseq \in Nat /\ cont.seen \in Nat /\ now \in Int /\ cont.seen <= Len(ebox)
      BY Numbers DEF Inv, ContOK
    <3>3. q = cont.cseq + 1 /\ q - 1 = cont.cseq /\ (q > 1 => cont.cseq > 0)
      BY <1>1, <2>1, <3>2
    <3>4. q > 1 => InMailbox(q - 1)
      BY <1>3, <3>3
    <3> QED
      BY <1>1, <3>1, <3>2, <3>3, <3>4
  <2>2. CASE q # k.cseq
    <3>1. spec'[q] = spec[q] /\ Issued(q)
      BY <1>2, <1>4, <2>2 DEF Issued
    <3> QED
      BY <3>1 DEF Inv, SpecOK
  <2> QED
    BY <2>1, <2>2
<1>6. ContOK'
  BY <1>2, <1>4 DEF Inv, ContOK, InMailbox
<1>7. LedgerOK'
  BY <1>2 DEF Inv, LedgerOK, At
<1>8. RetryOK'
  BY <1>2, <1>3 DEF RetryOK
<1>9. PersistOK'
  BY <1>2, <1>3 DEF Inv, PersistOK
<1> QED
  BY <1>5, <1>6, <1>7, <1>8, <1>9 DEF Parts

LEMMA BeginStep ==
  ASSUME Inv, NEW q \in Seqs, Begin(q)
  PROVE  Parts'
<1>1. /\ pc = "idle" /\ Issued(q) /\ pc' = "prepare" /\ Accepts(spec[q].ckpt) /\ cont' = spec[q].ckpt
      /\ job' = [job EXCEPT !.q = q, !.via = "materialize"]
      /\ UNCHANGED <<spec, prepared, committed, cbox, ebox, now>>
  BY DEF Begin, SaveManifest, Goto, stores, env
<1>2. job'.q = q
  BY <1>1 DEF Inv, TypeOK, Job
<1>3. /\ spec[q].ckpt.cseq = q
      /\ spec[q].ckpt.act \in Waiting
      /\ spec[q].ckpt.updated <= now
      /\ spec[q].ckpt.seen <= Len(ebox)
      /\ q > 1 => InMailbox(q - 1)
      /\ spec[q].ckpt.updated > cont.updated =>
           /\ q = cont.cseq + 1
           /\ spec[q].ckpt.epoch >= cont.epoch
           /\ spec[q].ckpt.seen >= cont.seen
  BY <1>1 DEF Inv, SpecOK
<1>4. /\ now \in Int /\ cont.cseq \in Nat /\ cont.updated \in Int /\ Len(ebox) \in Nat
      /\ q \in Nat /\ q > 0 /\ q <= MaxSeq /\ MaxSeq \in Nat
      /\ spec[q].ckpt.updated \in Int
  BY Numbers DEF Inv
<1>p. PersistOK'
  BY <1>1 DEF PersistOK
<1>5. CASE spec[q].ckpt = cont
  <2>1. cont' = cont /\ CGrows /\ EGrows /\ now' \in Int /\ now' >= now
    BY <1>1, <1>4, <1>5 DEF CGrows, EGrows
  <2>2. SpecOK' /\ ContOK'
    BY <1>1, <2>1, Frame DEF Inv
  <2>3. cont'.cseq \in Nat /\ cont'.cseq >= cont.cseq /\ job'.q <= cont'.cseq
    BY <1>2, <1>3, <1>4, <1>5, <2>1
  <2>4. LedgerOK'
    BY <1>1, <2>3, LedgerFrame DEF Inv
  <2>5. RetryOK'
    BY <1>1, <2>1 DEF Inv, RetryOK, InMailbox, Current
  <2> QED
    BY <1>p, <2>2, <2>4, <2>5 DEF Parts
<1>6. CASE spec[q].ckpt.updated > cont.updated
  <2>1. q = cont.cseq + 1 /\ cont'.cseq = q /\ cont'.act \in Waiting
    BY <1>1, <1>3, <1>6
  <2>2. SpecOK'
    <3> SUFFICES ASSUME NEW r \in Seqs, Issued(r)
                 PROVE  /\ spec[r].ckpt.cseq = r
                        /\ spec[r].ckpt.act \in Waiting
                        /\ spec[r].ckpt.updated <= now
                        /\ spec[r].ckpt.seen <= Len(ebox)
                        /\ r > 1 => InMailbox(r - 1)
                        /\ spec[r].ckpt.updated <= spec[q].ckpt.updated
      <4>1. \A r \in Seqs : spec[r].ckpt.updated \in Int
        BY Numbers DEF Inv
      <4> QED
        BY <1>1, <1>4, <4>1, SMTT(30) DEF SpecOK, InMailbox, Issued
    <3>1. spec[r].ckpt.updated \in Int
      BY Numbers DEF Inv
    <3>2. /\ spec[r].ckpt.cseq = r
          /\ spec[r].ckpt.act \in Waiting
          /\ spec[r].ckpt.updated <= now
          /\ spec[r].ckpt.seen <= Len(ebox)
          /\ r > 1 => InMailbox(r - 1)
          /\ spec[r].ckpt.updated > cont.updated => r = q
      BY <2>1 DEF Inv, SpecOK
    <3> QED
      BY <1>4, <1>6, <3>1, <3>2
  <2>3. ContOK'
    <3>1. \A r \in 1..(q - 1) : InMailbox(r)
      <4> SUFFICES ASSUME NEW r \in 1..(q - 1) PROVE InMailbox(r)
        OBVIOUS
      <4>1. CASE r = q - 1
        BY <4>1, <1>3, <1>4
      <4>2. CASE r # q - 1
        <5>1. r \in 1..(cont.cseq - 1)
          BY <4>2, <2>1, <1>4
        <5> QED
          BY <5>1 DEF Inv, ContOK
      <4> QED
        BY <4>1, <4>2
    <3>2. \A r \in 1..(q - 1) : InMailbox(r)'
      BY <3>1, <1>1 DEF InMailbox
    <3> QED
      BY <1>1, <1>3, <1>4, <2>1, <3>2 DEF ContOK, Waiting
  <2>4. LedgerOK'
    <3>1. cont'.cseq \in Nat /\ cont'.cseq >= cont.cseq /\ job'.q <= cont'.cseq
      BY <1>2, <1>4, <2>1
    <3> QED
      BY <1>1, <3>1, LedgerFrame DEF Inv
  <2>5. RetryOK'
    <3>1. prepared[q] = 0
      BY <2>1, <1>4 DEF Inv, LedgerOK
    <3> QED
      BY <1>1, <2>1, <3>1 DEF RetryOK, Current
  <2> QED
    BY <1>p, <2>2, <2>3, <2>4, <2>5 DEF Parts
<1> QED
  BY <1>1, <1>5, <1>6 DEF Accepts

\* Slot finds a request that is there, and otherwise the end of the mailbox.
LEMMA SlotIs ==
  ASSUME NEW q
  PROVE  /\ InMailbox(q) => Slot(q) \in DOMAIN cbox /\ cbox[Slot(q)] = q
         /\ ~InMailbox(q) => Slot(q) = Len(cbox) + 1
BY DEF Slot, InMailbox

LEMMA PrepareStep ==
  ASSUME Inv, Prepare
  PROVE  Parts'
<1>1. /\ pc = "prepare" /\ pc' \in {"write", "idle"}
      /\ UNCHANGED <<cont, spec, committed, cbox, ebox, now, job>>
  BY DEF Prepare, Goto, env
<1>2. \/ prepared' = prepared
      \/ /\ prepared[job.q] \in {0, Slot(job.q)}
         /\ prepared' = [prepared EXCEPT ![job.q] = Slot(job.q)]
  BY DEF Prepare
<1>3. SpecOK' /\ ContOK'
  <2>1. CGrows /\ EGrows /\ now' \in Int /\ now' >= now
    BY <1>1, Numbers DEF CGrows, EGrows, Inv
  <2> QED
    BY <1>1, <2>1, Frame DEF Inv
<1>4. PersistOK'
  BY <1>1 DEF PersistOK
<1>5. CASE prepared' = prepared
  BY <1>1, <1>3, <1>4, <1>5 DEF Inv, Parts, LedgerOK, RetryOK, At, InMailbox, Current
<1>6. CASE /\ prepared[job.q] \in {0, Slot(job.q)}
           /\ prepared' = [prepared EXCEPT ![job.q] = Slot(job.q)]
  <2>1. /\ DOMAIN prepared = Seqs /\ job.q \in Seqs /\ cont.cseq \in Nat /\ cont.cseq <= MaxSeq
        /\ Len(cbox) \in Nat /\ DOMAIN cbox = 1..Len(cbox) /\ committed \subseteq Seqs
    BY Numbers DEF Inv, TypeOK, ContOK
  <2>2. \A q \in Seqs : prepared'[q] = IF q = job.q THEN Slot(q) ELSE prepared[q]
    BY <1>6, <2>1
  <2>3. job.q <= cont.cseq
    BY <1>1 DEF Inv, LedgerOK
  <2>4. \A q \in Seqs : prepared'[q] # 0 => q <= cont.cseq
    BY <2>2, <2>3 DEF Inv, LedgerOK
  <2>5. \A q \in committed : prepared'[q] = prepared[q]
    <3> SUFFICES ASSUME NEW q \in committed, q = job.q PROVE prepared'[q] = prepared[q]
      BY <2>1, <2>2
    <3>1. prepared[q] \in DOMAIN cbox
      BY DEF Inv, LedgerOK, At
    <3>2. prepared[q] # 0
      BY <3>1, <2>1
    <3> QED
      BY <3>2, <2>1, <2>2, <1>6
  <2>6. LedgerOK'
    BY <1>1, <2>4, <2>5 DEF Inv, LedgerOK, At
  <2>7. RetryOK'
    <3> SUFFICES ASSUME cont.act \in Waiting, ~InMailbox(cont.cseq)
                 PROVE  prepared'[cont.cseq] \in {0, Len(cbox) + 1} /\ Current.ckpt = cont
      BY <1>1 DEF RetryOK, InMailbox, Current
    <3>1. cont.cseq \in Seqs
      BY <2>1 DEF Inv, ContOK, Seqs
    <3>2. prepared[cont.cseq] \in {0, Len(cbox) + 1} /\ Current.ckpt = cont
      BY DEF Inv, RetryOK
    <3>3. Slot(cont.cseq) = Len(cbox) + 1
      BY SlotIs
    <3> QED
      BY <2>2, <3>1, <3>2, <3>3
  <2> QED
    BY <1>3, <1>4, <2>6, <2>7 DEF Parts
<1> QED
  BY <1>2, <1>5, <1>6

LEMMA WriteStep ==
  ASSUME Inv, Write
  PROVE  Parts'
<1>1. /\ UNCHANGED <<cont, spec, prepared, committed, ebox, now, job>>
      /\ pc' \in {"commit", "ack", "idle"}
  BY WriteOutcome DEF Write, env
<1>2. /\ job.q \in Seqs /\ job.q \in Nat /\ job.q > 0 /\ cbox \in Seq(Seqs) /\ Len(cbox) \in Nat
      /\ DOMAIN cbox = 1..Len(cbox) /\ cont.cseq \in Nat
  BY Numbers DEF Inv, TypeOK
<1>3. CGrows
  BY <1>2, WriteOutcome DEF CGrows
<1>4. SpecOK' /\ ContOK'
  <2>1. EGrows /\ now' \in Int /\ now' >= now
    BY <1>1, Numbers DEF EGrows, Inv
  <2> QED
    BY <1>1, <1>3, <2>1, Frame DEF Inv
<1>5. PersistOK'
  BY <1>1 DEF PersistOK
<1>6. CASE cbox' = cbox /\ (pc' = "commit" => InMailbox(job.q) /\ Slot(job.q) = prepared[job.q])
  <2>1. pc' = "commit" => At(job.q)
    BY <1>6, SlotIs DEF At
  <2>2. LedgerOK'
    BY <1>1, <1>6, <2>1 DEF Inv, LedgerOK, At
  <2>3. RetryOK'
    BY <1>1, <1>6 DEF Inv, RetryOK, InMailbox, Current
  <2> QED
    BY <1>4, <1>5, <2>2, <2>3 DEF Parts
<1>7. CASE ~InMailbox(job.q) /\ MayAppend(job.q) /\ cbox' = Append(cbox, job.q)
  <2>1. /\ \A i \in DOMAIN cbox : i \in DOMAIN cbox' /\ cbox'[i] = cbox[i]
        /\ DOMAIN cbox' = 1..(Len(cbox) + 1) /\ cbox'[Len(cbox) + 1] = job.q
    BY <1>2, <1>7
  <2>2. prepared[job.q] = Len(cbox) + 1
    BY <1>7 DEF MayAppend
  <2>3. job.q <= cont.cseq
    BY <1>2, <2>2 DEF Inv, LedgerOK
  <2>4. \A i \in DOMAIN cbox' : cbox'[i] <= cont.cseq
    BY <1>2, <2>1, <2>3 DEF Inv, LedgerOK
  <2>5. At(job.q)' /\ \A q \in committed : At(q)'
    BY <1>1, <1>2, <2>1, <2>2 DEF Inv, LedgerOK, At
  <2>6. LedgerOK'
    BY <1>1, <2>4, <2>5 DEF Inv, LedgerOK
  <2>7. job.q = cont.cseq
    <3> SUFFICES ASSUME job.q # cont.cseq PROVE FALSE
      OBVIOUS
    <3>1. job.q \in 1..(cont.cseq - 1)
      BY <1>2, <2>3
    <3> QED
      BY <1>7, <3>1 DEF Inv, ContOK
  <2>8. InMailbox(cont.cseq)'
    BY <1>1, <1>2, <2>1, <2>7 DEF InMailbox
  <2> QED
    BY <1>4, <1>5, <2>6, <2>8 DEF Parts, RetryOK
<1> QED
  BY <1>6, <1>7, WriteOutcome

LEMMA CommitStep ==
  ASSUME Inv, Commit
  PROVE  Parts'
<1>1. /\ pc = "commit" /\ pc' \in {"ack", "idle"} /\ committed' = committed \cup {job.q}
      /\ UNCHANGED <<cont, spec, prepared, cbox, ebox, now, job>>
  BY DEF Commit, AfterCommit, Goto, env
<1>2. SpecOK' /\ ContOK'
  <2>1. CGrows /\ EGrows /\ now' \in Int /\ now' >= now
    BY <1>1, Numbers DEF CGrows, EGrows, Inv
  <2> QED
    BY <1>1, <2>1, Frame DEF Inv
<1> QED
  BY <1>1, <1>2 DEF Inv, Parts, LedgerOK, RetryOK, PersistOK, At, InMailbox, Current

LEMMA ReconcileStep ==
  ASSUME Inv, NEW q \in Seqs, Reconcile(q)
  PROVE  Parts'
<1>1. /\ pc' \in {"idle", "write"}
      /\ committed' = committed \/ (committed' = committed \cup {q} /\ At(q))
      /\ UNCHANGED <<cont, spec, prepared, cbox, ebox, now>>
  BY DEF Reconcile, Repairs, Goto, env, At
<1>2. SpecOK' /\ ContOK'
  <2>1. CGrows /\ EGrows /\ now' \in Int /\ now' >= now
    BY <1>1, Numbers DEF CGrows, EGrows, Inv
  <2> QED
    BY <1>1, <2>1, Frame DEF Inv
<1> QED
  BY <1>1, <1>2 DEF Inv, Parts, LedgerOK, RetryOK, PersistOK, At, InMailbox, Current

\* A continuation that moves to the newest instant outdates every spec.
LEMMA Outdated ==
  ASSUME Inv, UNCHANGED <<spec, cbox, ebox, now>>, cont' \in Checkpoint,
         \A q \in Seqs : Issued(q) => spec[q].ckpt.updated <= cont'.updated
  PROVE  SpecOK'
<1> SUFFICES ASSUME NEW q \in Seqs, Issued(q)
             PROVE  /\ spec[q].ckpt.cseq = q
                    /\ spec[q].ckpt.act \in Waiting
                    /\ spec[q].ckpt.updated <= now
                    /\ spec[q].ckpt.seen <= Len(ebox)
                    /\ q > 1 => InMailbox(q - 1)
                    /\ ~(spec[q].ckpt.updated > cont'.updated)
  BY DEF SpecOK, InMailbox, Issued
<1>1. spec[q].ckpt.updated \in Int /\ cont'.updated \in Int
  BY Numbers DEF Inv, Checkpoint
<1> QED
  BY <1>1 DEF Inv, SpecOK

LEMMA BreakStep ==
  ASSUME Inv, pc = "idle", Awaiting, BreakWait
  PROVE  Parts'
<1>1. /\ cont' = Expired(cont) /\ pc' = "idle"
      /\ UNCHANGED <<spec, prepared, committed, cbox, ebox, now, job>>
  BY DEF BreakWait, SaveManifest, stores, env
<1>2. /\ cont'.act = "AUTHORITY" /\ cont'.updated = now /\ cont'.cseq = cont.cseq
      /\ cont'.seen = cont.seen /\ cont' \in Checkpoint
  BY <1>1, ExpiredType DEF Inv, TypeOK, Checkpoint, Expired
<1>3. SpecOK'
  <2>1. \A q \in Seqs : Issued(q) => spec[q].ckpt.updated <= cont'.updated
    BY <1>2 DEF Inv, SpecOK
  <2> QED
    BY <1>1, <1>2, <2>1, Outdated
<1>4. ContOK'
  <2>1. now \in Int /\ InMailbox(cont.cseq)
    BY Numbers DEF Inv, Awaiting
  <2> QED
    BY <1>1, <1>2, <2>1 DEF Inv, ContOK, InMailbox, Waiting
<1>5. LedgerOK'
  <2>1. cont'.cseq \in Nat /\ cont'.cseq >= cont.cseq
    BY <1>2, Numbers DEF Inv
  <2> QED
    BY <1>1, <2>1, LedgerFrame DEF Inv
<1> QED
  BY <1>1, <1>2, <1>3, <1>4, <1>5 DEF Parts, RetryOK, PersistOK, Waiting

LEMMA ScanStep ==
  ASSUME Inv, NEW fenced \in BOOLEAN, ResumeScan(fenced)
  PROVE  Parts'
<1>1. /\ pc = "idle" /\ Awaiting
      /\ UNCHANGED <<cont, spec, prepared, committed, cbox, ebox, now>>
  BY DEF ResumeScan, env
<1>2. now' \in Int /\ now' >= now /\ CGrows /\ EGrows
  BY <1>1, Numbers DEF Inv, CGrows, EGrows
<1>3. SpecOK' /\ ContOK'
  BY <1>1, <1>2, Frame DEF Inv
<1>4. pc' \in {"idle", "persist"}
  BY <1>1 DEF ResumeScan, Goto
<1>5. LedgerOK'
  <2>1. cont'.cseq \in Nat /\ cont'.cseq >= cont.cseq
    BY <1>1, Numbers DEF Inv
  <2> QED
    BY <1>1, <1>4, <2>1, LedgerFrame DEF Inv
<1>6. RetryOK'
  BY <1>1 DEF Inv, RetryOK, InMailbox, Current
<1>7. PersistOK'
  <2> SUFFICES ASSUME pc' = "persist" PROVE PersistOK'
    BY DEF PersistOK
  <2>1. PICK k \in DOMAIN ebox : Selected(fenced, k) /\ chosen' = k /\ job' = [job EXCEPT !.next = Resumed(k)]
    BY <1>1 DEF ResumeScan
  <2>2. \E kinds : k \in Scanned(fenced, kinds)
    BY <2>1 DEF Selected, LastOf
  <2>3. spec[ebox[k].q].att = Current.att
    BY <2>2 DEF Scanned, Eligible
  <2>4. job'.next = Resumed(k)
    BY <2>1 DEF Inv, TypeOK, Job
  <2>5. /\ Resumed(k).epoch = cont.epoch /\ Resumed(k).cseq = cont.cseq
        /\ Resumed(k).seen = Len(ebox) /\ Resumed(k).updated = now
        /\ Resumed(k).act \in {cont.act, "REVIEW"}
    BY DEF Inv, TypeOK, Checkpoint, Resumed
  <2>6. Len(ebox) \in Nat /\ now \in Int /\ cont.seen <= Len(ebox) /\ cont.seen \in Nat
    BY Numbers DEF Inv, ContOK
  <2>7. \A q \in Seqs : Issued(q) => spec[q].ckpt.updated <= now
    BY DEF Inv, SpecOK
  <2>8. Current' = Current /\ InMailbox(cont.cseq)' /\ (\A q : Issued(q)' <=> Issued(q))
    BY <1>1 DEF Current, InMailbox, Awaiting, Issued
  <2>9. cont.act \in Waiting
    BY <1>1 DEF Awaiting
  <2> QED
    BY <1>1, <2>1, <2>3, <2>4, <2>5, <2>6, <2>7, <2>8, <2>9 DEF PersistOK
<1> QED
  BY <1>3, <1>5, <1>6, <1>7 DEF Parts

LEMMA PersistStep ==
  ASSUME Inv, ResumePersist
  PROVE  Parts'
<1>1. /\ pc = "persist" /\ pc' = "idle" /\ cont' \in {cont, job.next}
      /\ UNCHANGED <<spec, prepared, committed, cbox, ebox, now, job>>
  BY DEF ResumePersist, Goto, stores, env
<1>2. /\ cont.act \in Waiting /\ InMailbox(cont.cseq)
      /\ job.next.cseq = cont.cseq /\ job.next.seen <= Len(ebox) /\ job.next.updated <= now
      /\ job.next.act \in Waiting \cup {"REVIEW"}
      /\ \A q \in Seqs : Issued(q) => spec[q].ckpt.updated <= job.next.updated
  BY <1>1 DEF Inv, PersistOK
<1>3. cont' = cont \/ cont' = job.next
  BY <1>1
<1>4. cont'.cseq = cont.cseq /\ cont.cseq \in Nat /\ job.next \in Checkpoint
  BY <1>2, <1>3, Numbers DEF Inv
<1>5. SpecOK' /\ ContOK'
  <2>1. CASE cont' = cont
    <3>1. CGrows /\ EGrows /\ now' \in Int /\ now' >= now
      BY <1>1, Numbers DEF CGrows, EGrows, Inv
    <3> QED
      BY <1>1, <2>1, <3>1, Frame DEF Inv
  <2>2. CASE cont' = job.next
    <3>1. SpecOK'
      BY <1>1, <1>2, <1>4, <2>2, Outdated
    <3>2. ContOK'
      BY <1>1, <1>2, <2>2 DEF Inv, ContOK, InMailbox
    <3> QED
      BY <3>1, <3>2
  <2> QED
    BY <1>3, <2>1, <2>2
<1>6. LedgerOK'
  <2>1. cont'.cseq \in Nat /\ cont'.cseq >= cont.cseq
    BY <1>4
  <2> QED
    BY <1>1, <2>1, LedgerFrame DEF Inv
<1>7. RetryOK' /\ PersistOK'
  BY <1>1, <1>2, <1>4 DEF RetryOK, PersistOK, InMailbox
<1> QED
  BY <1>5, <1>6, <1>7 DEF Parts
-----------------------------------------------------------------------------
LEMMA InvInit == Init => Inv
<1> SUFFICES ASSUME Init PROVE Inv
  OBVIOUS
<1>1. TypeOK
  BY TypeInit
<1>2. \A q \in Seqs : ~Issued(q) /\ prepared[q] = 0
  BY DEF Init, Issued, NoSpec
<1>3. cbox = <<>> /\ ebox = <<>> /\ Len(ebox) = 0 /\ DOMAIN cbox = {} /\ now = 0 /\ pc = "idle" /\ committed = {}
  BY DEF Init
<1>4. cont.act = "NONE" /\ cont.cseq = 0 /\ cont.seen = 0 /\ cont.updated = -1
  BY DEF Init, NoCont
<1>5. ContOK
  BY <1>3, <1>4, BoundAssumption DEF ContOK, Waiting
<1> QED
  BY <1>1, <1>2, <1>3, <1>4, <1>5 DEF Inv, SpecOK, LedgerOK, RetryOK, PersistOK, Waiting

LEMMA InvStep == Inv /\ [Next]_vars => Inv'
<1> SUFFICES ASSUME Inv, [Next]_vars PROVE Inv'
  OBVIOUS
<1>1. TypeOK'
  BY TypeStep DEF Inv
<1> SUFFICES Parts'
  BY <1>1 DEF Inv, Parts
<1>n. now \in Int /\ now + 1 \in Int /\ now + 1 >= now /\ now >= now
  BY Numbers DEF Inv
<1>2. CASE UNCHANGED vars
  BY <1>2, <1>n, QuietStep DEF vars, stores, env, EGrows, Parts
<1>3. CASE Host
  BY <1>3, HostStep
<1>4. CASE Prepare \/ Write \/ Commit \/ ResumePersist
  BY <1>4, PrepareStep, WriteStep, CommitStep, PersistStep
<1>5. CASE Acknowledge
  <2>1. /\ UNCHANGED <<spec, cont, prepared, committed, cbox, ebox, now>>
        /\ pc' = "idle"
    BY <1>5 DEF Acknowledge, Goto, env
  <2> QED
    BY <2>1, <1>n, QuietStep DEF EGrows, Parts
<1>6. ASSUME NEW q \in Seqs, Begin(q) \/ Reconcile(q) PROVE Parts'
  BY <1>6, BeginStep, ReconcileStep
<1>7. ASSUME NEW fenced \in BOOLEAN, Recover(fenced) \/ ResumeExpired(fenced) PROVE Parts'
  BY <1>7, BreakStep DEF Recover, RecoveryFinds, ResumeExpired
<1>8. ASSUME NEW fenced \in BOOLEAN, ResumeScan(fenced) PROVE Parts'
  BY <1>8, ScanStep
<1>9. CASE Crash
  <2>1. /\ UNCHANGED <<spec, cont, prepared, committed, cbox, ebox, now>>
        /\ pc' = "idle"
    BY <1>9 DEF Crash, Goto, stores
  <2> QED
    BY <2>1, <1>n, QuietStep DEF EGrows, Parts
<1>10. CASE Environment
  <2>1. /\ UNCHANGED <<spec, cont, prepared, committed, cbox, pc, job, chosen>>
        /\ now' = now \/ now' = now + 1
        /\ EGrows
    <3>1. ASSUME NEW q \in Seqs, NEW kind \in Kinds, Report(q, kind) PROVE EGrows
      BY <3>1 DEF Report, EGrows, Event
    <3> QED
      BY <1>10, <3>1
      DEF Environment, Bootstrap, Report, EndLease, IssueLease, Tick, stores, env, EGrows
  <2> QED
    BY <2>1, <1>n, QuietStep DEF Parts
<1> QED
  BY <1>2, <1>3, <1>4, <1>5, <1>6, <1>7, <1>8, <1>9, <1>10 DEF Next, Drive, Resume

\* Any session, with any number of crashes and replays: the inductive
\* invariant holds.
THEOREM SessionInvariant == Spec => []Inv
BY InvInit, InvStep, PTL DEF Spec

\* The continuation, the specs, the ledger and both mailboxes stay well formed.
THEOREM SessionTypes == Spec => []TypeOK
<1>1. Inv => TypeOK
  BY DEF Inv
<1> QED
  BY <1>1, SessionInvariant, PTL

\* A request reaches the mailbox only after its continuation is durable, and
\* no request is skipped (prepare_v2_dispatch before DispatchProtocol).
THEOREM PersistBeforeDispatch == Spec => []PersistedFirst
<1>1. Inv => PersistedFirst
  <2> SUFFICES ASSUME Inv PROVE PersistedFirst
    OBVIOUS
  <2>1. \A i \in DOMAIN cbox : cbox[i] <= cont.cseq
    BY DEF Inv, LedgerOK
  <2>2. ASSUME cont.cseq > 1 PROVE \E i \in DOMAIN cbox : cbox[i] >= cont.cseq - 1
    <3>1. cont.cseq \in Nat /\ cont.cseq - 1 \in 1..(cont.cseq - 1)
      BY <2>2, Numbers DEF Inv
    <3>2. InMailbox(cont.cseq - 1)
      BY <3>1 DEF Inv, ContOK
    <3> QED
      BY <3>1, <3>2 DEF InMailbox
  <2> QED
    BY <2>1, <2>2 DEF PersistedFirst
<1> QED
  BY <1>1, SessionInvariant, PTL

\* A DispatchCommitted record names the slot that holds its request, whoever
\* wrote it: dispatch, its retry or the reconciler's repair.
THEOREM LedgerSound == Spec => []CommittedInMailbox
<1>1. Inv => CommittedInMailbox
  BY DEF Inv, LedgerOK, CommittedInMailbox, At
<1> QED
  BY <1>1, SessionInvariant, PTL

\* Wherever the process died, the waiting request is in the mailbox or its
\* spec can be materialized again.
THEOREM DispatchRetryable == Spec => []CrashIsRetryable
<1>1. Inv => CrashIsRetryable
  <2> SUFFICES ASSUME Inv, cont.act \in Waiting, ~InMailbox(cont.cseq)
               PROVE  /\ Current.ckpt = cont
                      /\ prepared[cont.cseq] \in {0, Len(cbox) + 1}
                      /\ \A i \in DOMAIN cbox : cbox[i] < cont.cseq
    BY DEF CrashIsRetryable
  <2>1. Current.ckpt = cont /\ prepared[cont.cseq] \in {0, Len(cbox) + 1}
    BY DEF Inv, RetryOK
  <2>2. ASSUME NEW i \in DOMAIN cbox PROVE cbox[i] < cont.cseq
    <3>1. cbox[i] \in Nat /\ cont.cseq \in Nat /\ cbox[i] <= cont.cseq
      BY Numbers DEF Inv, LedgerOK
    <3>2. cbox[i] # cont.cseq
      BY DEF InMailbox
    <3> QED
      BY <3>1, <3>2
  <2> QED
    BY <2>1, <2>2
<1> QED
  BY <1>1, SessionInvariant, PTL

\* What each step may do to the continuation.
LEMMA ContinuationStep ==
  ASSUME Inv, [Next]_vars
  PROVE  \/ cont' = cont
         \/ \E q \in Seqs : Issued(q) /\ Accepts(spec[q].ckpt) /\ cont' = spec[q].ckpt
         \/ cont' = Expired(cont)
         \/ pc = "persist" /\ cont' = job.next
<1>1. CASE UNCHANGED vars
  BY <1>1 DEF vars
<1>2. CASE Host
  <2>1. PICK k \in Checkpoint : NewSpec(k)
    BY <1>2, HostType DEF Inv
  <2> QED
    BY <2>1 DEF NewSpec
<1>3. CASE Drive
  BY <1>3 DEF Drive, Prepare, Write, Commit, Acknowledge, ResumePersist
<1>4. ASSUME NEW q \in Seqs, Begin(q) \/ Reconcile(q)
      PROVE  cont' = cont \/ (Issued(q) /\ Accepts(spec[q].ckpt) /\ cont' = spec[q].ckpt)
  BY <1>4 DEF Begin, SaveManifest, Reconcile
<1>5. CASE Resume \/ \E fenced \in BOOLEAN : Recover(fenced)
  BY <1>5 DEF Resume, Recover, ResumeExpired, ResumeScan, BreakWait, SaveManifest
<1>6. CASE Crash \/ Environment
  BY <1>6 DEF Crash, Environment, Bootstrap, Report, EndLease, IssueLease, Tick
<1> QED
  BY <1>1, <1>2, <1>3, <1>4, <1>5, <1>6 DEF Next

\* The durable continuation never goes back to an older epoch, request or
\* Executor sequence, whatever spec is run late or twice.
THEOREM SessionForward == Spec => ContinuationForward
<1>1. Inv /\ [Next]_vars => [ForwardStep]_vars
  <2> SUFFICES ASSUME Inv, [Next]_vars PROVE ForwardStep
    OBVIOUS
  <2>1. cont \in Checkpoint /\ cont.epoch \in Nat /\ cont.cseq \in Nat /\ cont.seen \in Nat
    BY Numbers DEF Inv, TypeOK
  <2>2. CASE cont' = cont
    BY <2>1, <2>2 DEF ForwardStep
  <2>3. ASSUME NEW q \in Seqs, Issued(q), Accepts(spec[q].ckpt), cont' = spec[q].ckpt PROVE ForwardStep
    <3>1. CASE spec[q].ckpt = cont
      BY <2>1, <2>3, <3>1 DEF ForwardStep
    <3>2. CASE spec[q].ckpt.updated > cont.updated
      <4>1. /\ spec[q].ckpt.cseq = cont.cseq + 1
            /\ spec[q].ckpt.epoch >= cont.epoch
            /\ spec[q].ckpt.seen >= cont.seen
        BY <2>3, <3>2 DEF Inv, SpecOK
      <4> QED
        BY <2>1, <2>3, <4>1 DEF ForwardStep
    <3> QED
      BY <2>3, <3>1, <3>2 DEF Accepts
  <2>4. CASE cont' = Expired(cont)
    <3>1. cont'.epoch = cont.epoch /\ cont'.cseq = cont.cseq /\ cont'.seen = cont.seen
      BY <2>1, <2>4 DEF Expired, Checkpoint
    <3> QED
      BY <2>1, <3>1 DEF ForwardStep
  <2>5. CASE pc = "persist" /\ cont' = job.next
    <3>1. job.next.epoch = cont.epoch /\ job.next.cseq = cont.cseq /\ job.next.seen >= cont.seen
      BY <2>5 DEF Inv, PersistOK
    <3> QED
      BY <2>1, <2>5, <3>1 DEF ForwardStep
  <2> QED
    BY <2>2, <2>3, <2>4, <2>5, ContinuationStep
<1> QED
  BY <1>1, SessionInvariant, PTL DEF Spec, ContinuationForward

\* A wait only ends in a review because of an event of the attempt the waiting
\* request is bound to (poll_controller_terminal_result's identity check).
THEOREM AttemptFenced == Spec => OnlyCurrentAttempt
<1>1. Inv /\ [Next]_vars => [ReviewStep]_vars
  <2> SUFFICES ASSUME Inv, [Next]_vars, cont.act \in Waiting, cont'.act = "REVIEW"
               PROVE  spec[ebox[chosen].q].att = Current.att
    BY DEF ReviewStep
  <2>1. cont' # cont
    BY DEF Waiting
  <2>2. ASSUME NEW q \in Seqs, Issued(q), cont' = spec[q].ckpt PROVE FALSE
    BY <2>2 DEF Inv, SpecOK, Waiting
  <2>3. cont' # Expired(cont)
    BY DEF Inv, TypeOK, Checkpoint, Expired
  <2>4. pc = "persist"
    BY <2>1, <2>2, <2>3, ContinuationStep
  <2> QED
    BY <2>4 DEF Inv, PersistOK
<1> QED
  BY <1>1, SessionInvariant, PTL DEF Spec, OnlyCurrentAttempt
=============================================================================
