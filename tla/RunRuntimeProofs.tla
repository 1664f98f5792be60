--------------------------- MODULE RunRuntimeProofs ---------------------------
(***************************************************************************)
(* Theorems about RunRuntime, for every set of callers, leases, attempts,  *)
(* tokens and events.                                                      *)
(***************************************************************************)
EXTENDS RunRuntime, TLAPS

-----------------------------------------------------------------------------
(* The operators the services are built from.                              *)

\* The kernel's table leads from node statuses to node statuses.
LEMMA TransitionType ==
  ASSUME NEW s, NEW t, ValidNodeTransition(s, t)
  PROVE  s \in NodeStatus /\ t \in NodeStatus
BY DEF ValidNodeTransition, NodeTransitions, NodeStatus

\* A status change of a stored lease yields a run state, one version on, with
\* nodes, attempts and cursor as they were.
LEMMA SetStatusFacts ==
  ASSUME NEW rs \in RunState, NEW l \in LeaseIds, Held(rs, l),
         NEW st \in LeaseStatus
  PROVE  LET new == SetStatus(rs, l, st)
         IN  /\ new \in RunState
             /\ new.version = rs.version + 1
             /\ new.node = rs.node
             /\ new.attempt = rs.attempt
             /\ new.cursor = rs.cursor
             /\ new.leases = [rs.leases EXCEPT ![l].status = st]
             /\ new.leases[l] \in Lease
<1> DEFINE new == SetStatus(rs, l, st)
<1>1. rs.leases[l] \in Lease
  BY DEF RunState, Held
<1>2. [rs.leases[l] EXCEPT !.status = st] \in Lease
  BY <1>1 DEF Lease
<1>3. [rs.leases EXCEPT ![l].status = st] \in [LeaseIds -> Lease \cup {NoLease}]
  BY <1>1, <1>2 DEF RunState
<1>4. rs.version + 1 \in Nat
  BY DEF RunState
<1>5. new = [rs EXCEPT !.version = rs.version + 1,
                       !.leases = [rs.leases EXCEPT ![l].status = st]]
  BY DEF SetStatus, RunState
<1>6. new \in RunState
  BY <1>3, <1>4, <1>5, Zenon DEF RunState
<1>7. /\ new.version = rs.version + 1
      /\ new.node = rs.node
      /\ new.attempt = rs.attempt
      /\ new.cursor = rs.cursor
      /\ new.leases = [rs.leases EXCEPT ![l].status = st]
  BY <1>5 DEF RunState
<1>8. new.leases[l] \in Lease
  BY <1>1, <1>2, <1>7 DEF RunState
<1> QED
  BY <1>6, <1>7, <1>8

\* A renewal changes the expiry of one lease and the version.
LEMMA RenewedFacts ==
  ASSUME NEW rs \in RunState, NEW l \in LeaseIds, Held(rs, l),
         NEW t \in Times
  PROVE  LET new == Renewed(rs, l, t)
         IN  /\ new \in RunState
             /\ new.version = rs.version + 1
             /\ new.node = rs.node
             /\ new.attempt = rs.attempt
             /\ new.cursor = rs.cursor
             /\ new.leases = [rs.leases EXCEPT ![l].expires = t]
             /\ new.leases[l] \in Lease
<1> DEFINE new == Renewed(rs, l, t)
<1>1. rs.leases[l] \in Lease
  BY DEF RunState, Held
<1>2. [rs.leases[l] EXCEPT !.expires = t] \in Lease
  BY <1>1 DEF Lease
<1>3. [rs.leases EXCEPT ![l].expires = t] \in [LeaseIds -> Lease \cup {NoLease}]
  BY <1>1, <1>2 DEF RunState
<1>4. rs.version + 1 \in Nat
  BY DEF RunState
<1>5. new = [rs EXCEPT !.version = rs.version + 1,
                       !.leases = [rs.leases EXCEPT ![l].expires = t]]
  BY DEF Renewed, RunState
<1>6. new \in RunState
  BY <1>3, <1>4, <1>5, Zenon DEF RunState
<1>7. /\ new.version = rs.version + 1
      /\ new.node = rs.node
      /\ new.attempt = rs.attempt
      /\ new.cursor = rs.cursor
      /\ new.leases = [rs.leases EXCEPT ![l].expires = t]
  BY <1>5 DEF RunState
<1>8. new.leases[l] \in Lease
  BY <1>1, <1>2, <1>7 DEF RunState
<1> QED
  BY <1>6, <1>7, <1>8

\* Expiring a current lease also moves its node and frees its attempt.
LEMMA ExpiredCurrentFacts ==
  ASSUME NEW rs \in RunState, NEW l \in LeaseIds, Held(rs, l)
  PROVE  LET new == ExpiredCurrent(rs, l)
             a   == rs.leases[l].att
         IN  /\ new \in RunState
             /\ new.version = rs.version + 1
             /\ new.node = [rs.node EXCEPT ![NodeOf[a]].status = "LEASE_EXPIRED"]
             /\ new.attempt = [rs.attempt EXCEPT ![a].status = "LEASE_EXPIRED",
                                                 ![a].lease = NoLease]
             /\ new.leases = [rs.leases EXCEPT ![l].status = "EXPIRED"]
             /\ new.leases[l] \in Lease
<1> DEFINE dead == SetStatus(rs, l, "EXPIRED")
           a    == rs.leases[l].att
           n    == NodeOf[a]
           new  == ExpiredCurrent(rs, l)
           nds  == [rs.node EXCEPT ![n].status = "LEASE_EXPIRED"]
           atts == [rs.attempt EXCEPT ![a].status = "LEASE_EXPIRED",
                                      ![a].lease = NoLease]
<1>1. /\ dead \in RunState
      /\ dead.version = rs.version + 1
      /\ dead.node = rs.node
      /\ dead.attempt = rs.attempt
      /\ dead.leases = [rs.leases EXCEPT ![l].status = "EXPIRED"]
      /\ dead.leases[l] \in Lease
  BY SetStatusFacts DEF LeaseStatus
<1>2. a \in Attempts /\ n \in Nodes
  BY NodeOfAssumption DEF RunState, Held, Lease
<1>3. nds \in [Nodes -> NodeState]
  BY <1>2 DEF RunState, NodeState, NodeStatus
<1>4. atts \in [Attempts -> AttemptRecord]
  BY <1>2 DEF RunState, AttemptRecord, NodeStatus
<1>5. new = [dead EXCEPT !.node = nds, !.attempt = atts, !.last = NoEvent]
  BY <1>1, <1>2 DEF ExpiredCurrent, RunState
<1> HIDE DEF dead, new, nds, atts
<1>6. new \in RunState
  BY <1>1, <1>3, <1>4, <1>5 DEF RunState
<1>7. /\ new.version = dead.version
      /\ new.node = nds
      /\ new.attempt = atts
      /\ new.leases = dead.leases
  BY <1>1, <1>5 DEF RunState
<1> QED
  BY <1>1, <1>6, <1>7 DEF new, nds, atts

\* The parts of the run that a registration rewrites.
NewLeases(rs, l, lease) == [rs.leases EXCEPT ![l] = lease]
NewNode(rs, l, lease) == [rs.node EXCEPT ![NodeOf[lease.att]].lease_ref = l]
NewAttempt(rs, l, lease) ==
  [rs.attempt EXCEPT ![lease.att] = Bound(rs.attempt[lease.att], l, lease)]

\* Registering a lease binds its node and its attempt to it.
LEMMA RegisteredFacts ==
  ASSUME NEW rs \in RunState, NEW l \in LeaseIds, NEW lease \in Lease
  PROVE  /\ Registered(rs, l, lease) \in RunState
         /\ Registered(rs, l, lease).version = rs.version + 1
         /\ Registered(rs, l, lease).node = NewNode(rs, l, lease)
         /\ Registered(rs, l, lease).attempt = NewAttempt(rs, l, lease)
         /\ Registered(rs, l, lease).leases = NewLeases(rs, l, lease)
         /\ Registered(rs, l, lease).cursor = rs.cursor
<1> DEFINE a    == lease.att
           n    == NodeOf[a]
           new  == Registered(rs, l, lease)
           ls   == [rs.leases EXCEPT ![l] = lease]
           act  == {k \in LeaseIds : ls[k] # NoLease /\ ls[k].status = "ACTIVE"}
           nds  == [rs.node EXCEPT ![n].lease_ref = l]
           att  == Bound(rs.attempt[a], l, lease)
           atts == [rs.attempt EXCEPT ![a] = att]
<1>1. a \in Attempts /\ n \in Nodes
  BY NodeOfAssumption DEF Lease
<1>2. ls \in [LeaseIds -> Lease \cup {NoLease}] /\ act \in SUBSET LeaseIds
  BY DEF RunState
<1>3. nds \in [Nodes -> NodeState]
  BY <1>1 DEF RunState, NodeState
<1>4. atts \in [Attempts -> AttemptRecord]
  <2>1. rs.attempt[a] \in AttemptRecord
    BY <1>1 DEF RunState
  <2>2. att \in AttemptRecord
    BY <2>1 DEF AttemptRecord, Lease, Bound
  <2> QED
    BY <1>1, <2>2 DEF RunState
<1>5. rs.version + 1 \in Nat
  BY DEF RunState
<1>6. new = [rs EXCEPT !.version = rs.version + 1, !.leases = ls, !.active = act,
                       !.node = nds, !.attempt = atts, !.last = NoEvent]
  BY <1>1 DEF Registered, RunState
<1> HIDE DEF new, ls, act, nds, atts
<1>7. new \in RunState
  BY <1>2, <1>3, <1>4, <1>5, <1>6, Zenon DEF RunState
<1>8. /\ new.version = rs.version + 1
      /\ new.node = nds
      /\ new.attempt = atts
      /\ new.leases = ls
      /\ new.cursor = rs.cursor
  BY <1>6 DEF RunState
<1> QED
  BY <1>7, <1>8 DEF new, ls, nds, atts, NewLeases, NewNode, NewAttempt

\* The status an accepted event gives its node is its own or one the table
\* allows, and never DONE by way of the event.
LEMMA NextNodeStatusFacts ==
  ASSUME NEW rs \in RunState, NEW e \in Events, NEW s \in NextNodeStatus(rs, e)
  PROVE  /\ s \in NodeStatus
         /\ \/ s = rs.node[e.node].status
            \/ ValidNodeTransition(rs.node[e.node].status, s) /\ s # "DONE"
<1>1. e.node \in Nodes /\ e.type \in EventType
  BY EventsAssumption
<1>2. rs.node[e.node].status \in NodeStatus
  BY <1>1 DEF RunState, NodeState
<1>3. CASE e.type = "OTHER"
  BY <1>2, <1>3 DEF NextNodeStatus
<1>4. CASE e.type = "STATUS_CHANGE"
  BY <1>4, TransitionType DEF NextNodeStatus
<1>5. CASE e.type = "COMPLETED" /\ rs.status \in RunTerminal
  BY <1>2, <1>5 DEF NextNodeStatus
<1>6. CASE e.type = "COMPLETED" /\ rs.status \notin RunTerminal
  BY <1>6, TransitionType DEF NextNodeStatus
<1> QED
  BY <1>1, <1>3, <1>4, <1>5, <1>6 DEF EventType

\* Applying an event moves its node and the mirrored sidecars, no lease and no
\* attempt record.
LEMMA AppliedFacts ==
  ASSUME TypeOK, NEW rs \in RunState, NEW e \in Events, NEW s \in NodeStatus
  PROVE  /\ Applied(rs, e, s) \in RunState
         /\ Applied(rs, e, s).version = rs.version + 1
         /\ Applied(rs, e, s).node = [rs.node EXCEPT ![e.node].status = s]
         /\ Applied(rs, e, s).attempt = rs.attempt
         /\ Applied(rs, e, s).leases = rs.leases
<1>0. /\ keys \in [Keys -> Events \cup {NoEvent}]
      /\ wm \in [Attempts -> Nat]
      /\ journal \in Seq(Record)
  BY DEF TypeOK
<1> DEFINE new == Applied(rs, e, s)
           nds == [rs.node EXCEPT ![e.node].status = s]
           sn  == [k \in Keys |-> IF k \in DedupeKeys(e) THEN e ELSE keys[k]]
           st  == [wm EXCEPT ![e.att] = e.seq + 1]
           jp  == LastRecordIndex
<1>1. e.node \in Nodes /\ e.att \in Attempts /\ e.seq \in Nat
  BY EventsAssumption
<1>2. nds \in [Nodes -> NodeState]
  BY <1>1 DEF RunState, NodeState
<1>3. sn \in [Keys -> Events \cup {NoEvent}]
  BY <1>0
<1>4. st \in [Attempts -> Nat]
  BY <1>0, <1>1
<1>5. rs.version + 1 \in Nat /\ jp \in Int
  BY <1>0 DEF RunState, LastRecordIndex
<1>6. new = [rs EXCEPT !.version = rs.version + 1, !.node = nds, !.seen = sn,
                       !.stream = st, !.cursor = e, !.last = e, !.jp = jp]
  BY <1>1 DEF Applied, RunState
<1> HIDE DEF new, nds, sn, st, jp
<1>7. new \in RunState
  BY <1>2, <1>3, <1>4, <1>5, <1>6, Zenon DEF RunState
<1>8. /\ new.version = rs.version + 1
      /\ new.node = nds
      /\ new.attempt = rs.attempt
      /\ new.leases = rs.leases
  BY <1>6 DEF RunState
<1> QED
  BY <1>7, <1>8 DEF new, nds

\* The records and pending work the actions build are well formed.
LEMMA LeaseRecordType ==
  ASSUME NEW op \in Ops, NEW l \in LeaseIds \cup {NoLease},
         NEW lease \in Lease \cup {NoLease}, NEW ns \in {"LEASE_EXPIRED", "NONE"}, NEW v \in Nat
  PROVE  LeaseRecord(op, l, lease, ns, v) \in Record
BY DEF LeaseRecord, Record

\* An event's journal record is a Record.
LEMMA EventRecordType ==
  ASSUME NEW e \in Events, NEW v \in Nat
  PROVE  EventRecord(e, v) \in Record
BY DEF EventRecord, Record, Ops

\* What a service leaves pending is Work.
LEMMA PendingType ==
  ASSUME NEW rec \in Record, NEW old \in LeaseIds \cup {NoLease}, NEW v \in Nat
  PROVE  Pending(rec, old, v) \in Work
BY DEF Pending, Work

\* An idle caller's work is Work.
LEMMA NoWorkType == NoWork \in Work
<1>1. NoRecord \in Record
  BY DEF NoRecord, Record, Ops
<1> QED
  BY <1>1, PendingType DEF NoWork
-----------------------------------------------------------------------------
(* The inductive invariant.                                                 *)

GrantPC == {"detachSync", "detachRead", "detachAppend", "detachAppendSync",
            "register", "registerSync", "registerRead"}

\* What a caller carries from one store call to the next: a grant carries its
\* lease, and once registered the lease id stays in the run; an event record
\* carries its event.
PendingOf(q, w, rs) ==
  /\ q \in GrantPC => /\ w.rec.op = "grant"
                      /\ w.rec.lid \in LeaseIds
                      /\ w.rec.lease \in Lease
  /\ q \in {"registerSync", "registerRead"} => Held(rs, w.rec.lid)
  /\ q = "append" /\ w.rec.op = "event" => w.rec.event \in Events
  /\ q \in {"dedupe", "watermark"} => w.rec.event \in Events

PendingOK == \A c \in Callers : PendingOf(pc[c], work[c], run)

Inv == TypeOK /\ PendingOK /\ SnapshotCoherent

\* The run as the registry creates it satisfies the invariant.
LEMMA InitInv == Init => Inv
<1> SUFFICES ASSUME Init PROVE Inv
  OBVIOUS
<1>1. PICK status \in InitStatuses, token \in Tokens : run = InitRun(status, token)
  BY DEF Init
<1>2. run \in RunState
  <2>1. [n \in Nodes |-> [status |-> InitNode[n], lease_ref |-> NoLease]]
          \in [Nodes -> NodeState]
    BY InitAssumption DEF NodeState
  <2>2. [a \in Attempts |-> [lease |-> NoLease, token |-> token, status |-> "PENDING",
                             gen |-> 0]] \in [Attempts -> AttemptRecord]
    BY DEF AttemptRecord, NodeStatus
  <2> QED
    BY <1>1, <2>1, <2>2, InitAssumption DEF InitRun, RunState
<1>3. TypeOK
  BY <1>2, NoWorkType DEF Init, TypeOK, PC
<1>4. PendingOK
  BY DEF Init, PendingOK, PendingOf, GrantPC
<1>5. SnapshotCoherent
  BY <1>2 DEF Init, SnapshotCoherent, RunState
<1> QED
  BY <1>3, <1>4, <1>5 DEF Inv

\* A step of caller c that keeps the store and c's own pending work well
\* formed keeps everybody's, since a lease id once used stays in the run.
LEMMA CallerStep ==
  ASSUME TypeOK, PendingOK, NEW c \in Callers, NEW q \in PC, NEW w \in Work,
         pc' = [pc EXCEPT ![c] = q],
         work' = [work EXCEPT ![c] = w],
         run' \in RunState,
         \A l \in LeaseIds : Held(run, l) => Held(run', l),
         journal' \in Seq(Record),
         keys' \in [Keys -> Events \cup {NoEvent}],
         wm' \in [Attempts -> Nat],
         snap' \in [Callers -> RunState],
         PendingOf(q, w, run')
  PROVE  TypeOK' /\ PendingOK'
<1>1. TypeOK'
  BY DEF TypeOK
<1>2. ASSUME NEW d \in Callers
      PROVE  PendingOf(pc'[d], work'[d], run')
  <2>1. CASE d = c
    BY <2>1 DEF TypeOK
  <2>2. CASE d # c
    <3>1. pc'[d] = pc[d] /\ work'[d] = work[d]
      BY <2>2 DEF TypeOK
    <3>2. PendingOf(pc[d], work[d], run)
      BY DEF PendingOK
    <3> QED
      BY <3>1, <3>2 DEF PendingOf, GrantPC
  <2> QED
    BY <2>1, <2>2
<1> QED
  BY <1>1, <1>2 DEF PendingOK

\* A commit outdates every snapshot, so coherence is preserved.
LEMMA CommitCoherent ==
  ASSUME TypeOK, SnapshotCoherent, run' \in RunState, run'.version = run.version + 1,
         snap' = snap
  PROVE  SnapshotCoherent'
BY DEF TypeOK, SnapshotCoherent, RunState

\* A snapshot at the stored version agrees with the stored run.
LEMMA SameFields ==
  ASSUME TypeOK, SnapshotCoherent, NEW c \in Callers, snap[c].version = run.version
  PROVE  /\ snap[c].node = run.node
         /\ snap[c].leases = run.leases
         /\ snap[c].attempt = run.attempt
         /\ snap[c].cursor = run.cursor
BY DEF TypeOK, SnapshotCoherent, RunState

\* sync_journal_position writes nothing but journal_position.
LEMMA SyncFacts ==
  ASSUME TypeOK, SnapshotCoherent, NEW v, SyncJournalPosition(v), snap' = snap
  PROVE  /\ run' \in RunState
         /\ run'.version = run.version
         /\ run'.node = run.node
         /\ run'.leases = run.leases
         /\ run'.attempt = run.attempt
         /\ run'.cursor = run.cursor
         /\ SnapshotCoherent'
<1>1. LastRecordIndex \in Int
  BY DEF TypeOK, LastRecordIndex
<1>2. run' = [run EXCEPT !.jp = LastRecordIndex]
  BY DEF SyncJournalPosition
<1>3. run' \in RunState
  BY <1>1, <1>2 DEF TypeOK, RunState
<1>4. /\ run'.version = run.version
      /\ run'.node = run.node
      /\ run'.leases = run.leases
      /\ run'.attempt = run.attempt
      /\ run'.cursor = run.cursor
      /\ run'.jp = LastRecordIndex
  BY <1>2 DEF TypeOK, RunState
<1>5. SnapshotCoherent'
  <2> SUFFICES ASSUME NEW c \in Callers
               PROVE  /\ snap[c].version <= run'.version
                      /\ snap[c].version = run'.version
                           => [snap[c] EXCEPT !.jp = run'.jp] = run'
    BY DEF SnapshotCoherent
  <2>1. snap[c].version <= run'.version
    BY <1>4 DEF SnapshotCoherent
  <2>2. ASSUME snap[c].version = run'.version
        PROVE  [snap[c] EXCEPT !.jp = run'.jp] = run'
    <3>1. run = [snap[c] EXCEPT !.jp = run.jp]
      BY <1>4, <2>2 DEF SnapshotCoherent
    <3>2. snap[c] \in RunState
      BY DEF TypeOK
    <3> QED
      BY <1>2, <1>4, <3>1, <3>2 DEF RunState
  <2> QED
    BY <2>1, <2>2
<1> QED
  BY <1>3, <1>4, <1>5
-----------------------------------------------------------------------------
(* Every action preserves the invariant.                                    *)

\* The services that commit one lease change and then journal it.
LEMMA JournaledCommit ==
  ASSUME Inv, NEW c \in Callers, NEW new \in RunState, NEW rec \in Record,
         new.version = run.version + 1,
         \A l \in LeaseIds : Held(run, l) => Held(new, l),
         run' = new, rec.op # "event", ThenJournal(c, rec)
  PROVE  Inv'
<1> DEFINE w == Pending(rec, NoLease, rec.version)
<1>1. w \in Work
  BY PendingType DEF Record
<1>2. /\ pc' = [pc EXCEPT ![c] = "append"]
      /\ work' = [work EXCEPT ![c] = w]
      /\ UNCHANGED <<journal, keys, wm, snap>>
  BY DEF ThenJournal, Goto
<1>3. PendingOf("append", w, run')
  BY DEF PendingOf, GrantPC, Pending
<1> HIDE DEF w
<1>4. TypeOK' /\ PendingOK'
  <2>1. "append" \in PC
    BY DEF PC
  <2>2. /\ journal' \in Seq(Record)
        /\ keys' \in [Keys -> Events \cup {NoEvent}]
        /\ wm' \in [Attempts -> Nat]
        /\ snap' \in [Callers -> RunState]
    BY <1>2 DEF Inv, TypeOK
  <2> QED
    BY <1>1, <1>2, <1>3, <2>1, <2>2, CallerStep DEF Inv
<1>5. SnapshotCoherent'
  BY <1>2, CommitCoherent DEF Inv
<1> QED
  BY <1>4, <1>5 DEF Inv

\* The state and the record of a one-lease commit, for SetStatus.
LEMMA StatusCommit ==
  ASSUME Inv, NEW c \in Callers, NEW l \in LeaseIds, NEW st \in LeaseStatus,
         NEW op \in Ops \ {"event"}, NEW ns \in {"LEASE_EXPIRED", "NONE"},
         Held(snap[c], l),
         PutRun(SetStatus(snap[c], l, st), snap[c].version),
         ThenJournal(c, LeaseRecord(op, l, SetStatus(snap[c], l, st).leases[l], ns,
                                    SetStatus(snap[c], l, st).version))
  PROVE  Inv'
<1> DEFINE new == SetStatus(snap[c], l, st)
           rec == LeaseRecord(op, l, new.leases[l], ns, new.version)
<1>1. snap[c] \in RunState
  BY DEF Inv, TypeOK
<1>2. snap[c].version = run.version /\ run' = new
  BY DEF PutRun
<1>3. /\ new \in RunState
      /\ new.version = snap[c].version + 1
      /\ new.leases = [snap[c].leases EXCEPT ![l].status = st]
      /\ new.leases[l] \in Lease
  BY <1>1, SetStatusFacts
<1>4. new.version \in Nat
  BY <1>3 DEF RunState
<1>5. rec \in Record /\ rec.op # "event"
  <2>1. rec \in Record
    BY <1>3, <1>4, LeaseRecordType
  <2> QED
    BY <2>1 DEF LeaseRecord
<1>6. \A k \in LeaseIds : Held(run, k) => Held(new, k)
  BY <1>1, <1>2, <1>3, SameFields, NoneAssumption DEF Held, Inv, RunState
<1> HIDE DEF new, rec
<1> QED
  BY <1>2, <1>3, <1>5, <1>6, JournaledCommit DEF new, rec

\* renew preserves the invariant.
LEMMA RenewInv ==
  ASSUME Inv, NEW c \in Callers, NEW l \in LeaseIds, NEW token \in Tokens,
         NEW expires \in Times, NEW now \in Times, Renew(c, l, token, expires, now)
  PROVE  Inv'
<1> DEFINE new == Renewed(snap[c], l, expires)
           rec == LeaseRecord("renew", l, new.leases[l], "NONE", new.version)
<1>1. snap[c] \in RunState /\ Held(snap[c], l)
  BY DEF Inv, TypeOK, Renew, IsActive
<1>2. snap[c].version = run.version /\ run' = new /\ ThenJournal(c, rec)
  BY DEF Renew, PutRun
<1>3. /\ new \in RunState
      /\ new.version = snap[c].version + 1
      /\ new.leases = [snap[c].leases EXCEPT ![l].expires = expires]
      /\ new.leases[l] \in Lease
  BY <1>1, RenewedFacts
<1>4. new.version \in Nat
  BY <1>3 DEF RunState
<1>5. rec \in Record /\ rec.op # "event"
  <2>1. rec \in Record
    BY <1>3, <1>4, LeaseRecordType DEF Ops
  <2> QED
    BY <2>1 DEF LeaseRecord
<1>6. \A k \in LeaseIds : Held(run, k) => Held(new, k)
  BY <1>1, <1>2, <1>3, SameFields, NoneAssumption DEF Held, Inv, RunState
<1> HIDE DEF new, rec
<1> QED
  BY <1>2, <1>3, <1>5, <1>6, JournaledCommit

\* expire preserves the invariant, whether or not the lease is current.
LEMMA ExpireInv ==
  ASSUME Inv, NEW c \in Callers, NEW l \in LeaseIds, Expire(c, l)
  PROVE  Inv'
<1>1. snap[c] \in RunState /\ Held(snap[c], l)
  BY DEF Inv, TypeOK, Expire, IsActive
<1>2. CASE ~IsCurrentLease(snap[c], l)
  BY <1>1, <1>2, StatusCommit DEF Expire, LeaseStatus, Ops
<1>3. CASE IsCurrentLease(snap[c], l)
  <2> DEFINE new == ExpiredCurrent(snap[c], l)
             rec == LeaseRecord("expire", l, new.leases[l], "LEASE_EXPIRED", new.version)
  <2>1. snap[c].version = run.version /\ run' = new /\ ThenJournal(c, rec)
    BY <1>3 DEF Expire, PutRun
  <2>2. /\ new \in RunState
        /\ new.version = snap[c].version + 1
        /\ new.leases = [snap[c].leases EXCEPT ![l].status = "EXPIRED"]
        /\ new.leases[l] \in Lease
    BY <1>1, ExpiredCurrentFacts
  <2>3. new.version \in Nat
    BY <2>2 DEF RunState
  <2>4. rec \in Record /\ rec.op # "event"
    <3>1. rec \in Record
      BY <2>2, <2>3, LeaseRecordType DEF Ops
    <3> QED
      BY <3>1 DEF LeaseRecord
  <2>5. \A k \in LeaseIds : Held(run, k) => Held(new, k)
    BY <1>1, <2>1, <2>2, SameFields, NoneAssumption DEF Held, Inv, RunState
  <2> HIDE DEF new, rec
  <2> QED
    BY <2>1, <2>2, <2>4, <2>5, JournaledCommit
<1> QED
  BY <1>2, <1>3

\* The registration of a lease, by either kind of grant.
LEMMA CommitInv ==
  ASSUME Inv, NEW c \in Callers, NEW l \in LeaseIds, NEW lease \in Lease,
         Commit(c, l, lease)
  PROVE  Inv'
<1> DEFINE new == Registered(snap[c], l, lease)
           rec == LeaseRecord("grant", l, lease, "NONE", new.version)
           w   == Pending(rec, NoLease, new.version)
<1>1. snap[c] \in RunState
  BY DEF Inv, TypeOK
<1>2. /\ snap[c].version = run.version
      /\ run' = new
      /\ pc' = [pc EXCEPT ![c] = "registerSync"]
      /\ work' = [work EXCEPT ![c] = w]
      /\ UNCHANGED <<journal, keys, wm, snap>>
  BY DEF Commit, PutRun, Goto
<1>3. /\ new \in RunState
      /\ new.version = snap[c].version + 1
      /\ new.leases = NewLeases(snap[c], l, lease)
  BY <1>1, RegisteredFacts, Zenon
<1>4. w \in Work
  <2>1. new.version \in Nat
    BY <1>3 DEF RunState
  <2>2. rec \in Record
    BY <2>1, LeaseRecordType DEF Ops
  <2> QED
    BY <2>1, <2>2, PendingType
<1>5. \A k \in LeaseIds : Held(run, k) => Held(new, k)
  BY <1>1, <1>2, <1>3, SameFields, NoneAssumption
     DEF Held, Inv, RunState, NewLeases
<1>6. PendingOf("registerSync", w, new)
  <2>1. w.rec.op = "grant" /\ w.rec.lid = l /\ w.rec.lease = lease
    BY DEF Pending, LeaseRecord
  <2>2. Held(new, l)
    BY <1>1, <1>3, NoneAssumption DEF Held, RunState, NewLeases
  <2> QED
    BY <2>1, <2>2 DEF PendingOf
<1> HIDE DEF new, w
<1>7. TypeOK' /\ PendingOK'
  <2>1. "registerSync" \in PC
    BY DEF PC
  <2>2. /\ journal' \in Seq(Record)
        /\ keys' \in [Keys -> Events \cup {NoEvent}]
        /\ wm' \in [Attempts -> Nat]
        /\ snap' \in [Callers -> RunState]
    BY <1>2 DEF Inv, TypeOK
  <2> QED
    BY <1>2, <1>3, <1>4, <1>5, <1>6, <2>1, <2>2, CallerStep DEF Inv
<1>8. SnapshotCoherent'
  BY <1>2, <1>3, CommitCoherent DEF Inv
<1> QED
  BY <1>7, <1>8 DEF Inv

\* grant builds a lease.
LEMMA NewLeaseType ==
  ASSUME NEW a \in Attempts, NEW token \in Tokens, NEW expires \in Times,
         NEW gen \in 1..MaxGeneration
  PROVE  NewLease(a, token, expires, gen) \in Lease
<1>1. gen \in Nat
  BY BoundsAssumption
<1> QED
  BY <1>1 DEF NewLease, Lease, LeaseStatus

\* The first half of a grant: the attempt's ACTIVE lease is detached.
LEMMA GrantDetachInv ==
  ASSUME Inv, NEW c \in Callers, NEW l \in LeaseIds, NEW a \in Attempts,
         NEW token \in Tokens, NEW expires \in Times, NEW gen \in 1..MaxGeneration,
         GrantDetach(c, l, a, token, expires, gen)
  PROVE  Inv'
<1>1. PICK old \in ActiveLeases(snap[c], a) :
        /\ PutRun(SetStatus(snap[c], old, "RELEASED"), snap[c].version)
        /\ work' = [work EXCEPT ![c] =
             Pending(LeaseRecord("grant", l, NewLease(a, token, expires, gen), "NONE", 0),
                     old, SetStatus(snap[c], old, "RELEASED").version)]
  BY DEF GrantDetach
<1> DEFINE new == SetStatus(snap[c], old, "RELEASED")
           rec == LeaseRecord("grant", l, NewLease(a, token, expires, gen), "NONE", 0)
           w   == Pending(rec, old, new.version)
<1>2. snap[c] \in RunState /\ old \in LeaseIds /\ Held(snap[c], old)
  BY DEF Inv, TypeOK, ActiveLeases, IsActive
<1>3. /\ snap[c].version = run.version
      /\ run' = new
      /\ pc' = [pc EXCEPT ![c] = "detachSync"]
      /\ work' = [work EXCEPT ![c] = w]
      /\ UNCHANGED <<journal, keys, wm, snap>>
  BY <1>1 DEF GrantDetach, PutRun, Goto
<1>4. /\ new \in RunState
      /\ new.version = snap[c].version + 1
      /\ new.leases = [snap[c].leases EXCEPT ![old].status = "RELEASED"]
      /\ new.leases[old] \in Lease
  BY <1>2, SetStatusFacts DEF LeaseStatus
<1>5. w \in Work
  <2>1. new.version \in Nat
    BY <1>4 DEF RunState
  <2>2. rec \in Record
    BY NewLeaseType, LeaseRecordType DEF Ops
  <2> QED
    BY <1>2, <2>1, <2>2, PendingType
<1>6. \A k \in LeaseIds : Held(run, k) => Held(new, k)
  BY <1>2, <1>3, <1>4, SameFields, NoneAssumption DEF Held, Inv, RunState
<1>7. PendingOf("detachSync", w, new)
  <2>1. w.rec.op = "grant" /\ w.rec.lid = l /\ w.rec.lease \in Lease
    BY NewLeaseType DEF Pending, LeaseRecord
  <2> QED
    BY <2>1 DEF PendingOf
<1> HIDE DEF new, w
<1>8. TypeOK' /\ PendingOK'
  <2>1. "detachSync" \in PC
    BY DEF PC
  <2>2. /\ journal' \in Seq(Record)
        /\ keys' \in [Keys -> Events \cup {NoEvent}]
        /\ wm' \in [Attempts -> Nat]
        /\ snap' \in [Callers -> RunState]
    BY <1>3 DEF Inv, TypeOK
  <2> QED
    BY <1>3, <1>4, <1>5, <1>6, <1>7, <2>1, <2>2, CallerStep DEF Inv
<1>9. SnapshotCoherent'
  BY <1>3, <1>4, CommitCoherent DEF Inv
<1> QED
  BY <1>8, <1>9 DEF Inv

\* An accepted event.
LEMMA RouteInv ==
  ASSUME Inv, NEW c \in Callers, NEW e \in Events, Route(c, e)
  PROVE  Inv'
<1>1. PICK s \in NextNodeStatus(snap[c], e) :
        PutRun(Applied(snap[c], e, s), snap[c].version)
  BY DEF Route
<1> DEFINE new == Applied(snap[c], e, s)
           v   == snap[c].version + 1
           w   == Pending(EventRecord(e, v), NoLease, v)
<1>2. snap[c] \in RunState /\ v \in Nat
  BY DEF Inv, TypeOK, RunState
<1>3. /\ snap[c].version = run.version
      /\ run' = new
      /\ pc' = [pc EXCEPT ![c] = "append"]
      /\ work' = [work EXCEPT ![c] = w]
      /\ UNCHANGED <<journal, keys, wm, snap>>
  BY <1>1 DEF Route, PutRun, Goto
<1>4. s \in NodeStatus
  BY <1>2, NextNodeStatusFacts
<1>5. /\ new \in RunState
      /\ new.version = snap[c].version + 1
      /\ new.leases = snap[c].leases
  <2>1. TypeOK
    BY DEF Inv
  <2> QED
    BY <1>2, <1>4, <2>1, AppliedFacts, ZenonT(40)
<1>6. w \in Work
  BY <1>2, EventRecordType, PendingType
<1>7. \A k \in LeaseIds : Held(run, k) => Held(new, k)
  BY <1>3, <1>5, SameFields DEF Held, Inv
<1>8. PendingOf("append", w, new)
  BY DEF PendingOf, GrantPC, Pending, EventRecord
<1> HIDE DEF new, w
<1>9. TypeOK' /\ PendingOK'
  <2>1. "append" \in PC
    BY DEF PC
  <2>2. /\ journal' \in Seq(Record)
        /\ keys' \in [Keys -> Events \cup {NoEvent}]
        /\ wm' \in [Attempts -> Nat]
        /\ snap' \in [Callers -> RunState]
    BY <1>3 DEF Inv, TypeOK
  <2> QED
    BY <1>3, <1>5, <1>6, <1>7, <1>8, <2>1, <2>2, CallerStep DEF Inv
<1>10. SnapshotCoherent'
  BY <1>3, <1>5, CommitCoherent DEF Inv
<1> QED
  BY <1>9, <1>10 DEF Inv

\* A store call of caller c that commits nothing: only journal_position may
\* change, no snapshot does.
LEMMA QuietStep ==
  ASSUME Inv, NEW c \in Callers, NEW q \in PC, NEW w \in Work,
         pc' = [pc EXCEPT ![c] = q], work' = [work EXCEPT ![c] = w],
         \/ run' = run
         \/ \E v \in Nat : SyncJournalPosition(v),
         journal' \in Seq(Record),
         keys' \in [Keys -> Events \cup {NoEvent}],
         wm' \in [Attempts -> Nat],
         snap' = snap,
         PendingOf(q, w, run)
  PROVE  Inv'
<1>1. /\ run' \in RunState
      /\ run'.leases = run.leases
      /\ SnapshotCoherent'
  <2>1. CASE run' = run
    BY <2>1 DEF Inv, TypeOK, SnapshotCoherent
  <2>2. CASE \E v \in Nat : SyncJournalPosition(v)
    BY <2>2, SyncFacts DEF Inv
  <2> QED
    BY <2>1, <2>2
<1>2. PendingOf(q, w, run')
  BY <1>1 DEF PendingOf, Held
<1>3. \A l \in LeaseIds : Held(run, l) => Held(run', l)
  BY <1>1 DEF Held
<1>4. snap' \in [Callers -> RunState]
  BY DEF Inv, TypeOK
<1>5. TypeOK' /\ PendingOK'
  BY <1>1, <1>2, <1>3, <1>4, CallerStep DEF Inv
<1> QED
  BY <1>1, <1>5 DEF Inv

\* A service call that ends on a stale version.
LEMMA StaleSyncInv ==
  ASSUME Inv, NEW c \in Callers, NEW v, StaleSync(c, v)
  PROVE  Inv'
<1>1. PendingOf("idle", NoWork, run)
  BY DEF PendingOf, GrantPC
<1>2. "idle" \in PC /\ NoWork \in Work
  BY NoWorkType DEF PC
<1>3. /\ pc' = [pc EXCEPT ![c] = "idle"]
      /\ work' = [work EXCEPT ![c] = NoWork]
      /\ UNCHANGED <<run, journal, keys, wm, snap>>
  BY DEF StaleSync
<1>4. /\ journal' \in Seq(Record)
      /\ keys' \in [Keys -> Events \cup {NoEvent}]
      /\ wm' \in [Attempts -> Nat]
  BY <1>3 DEF Inv, TypeOK
<1> QED
  BY <1>1, <1>2, <1>3, <1>4, QuietStep

\* A sync in the middle of a service call.
LEMMA MiddleSync ==
  ASSUME Inv, NEW c \in Callers, NEW q \in PC, SyncJournalPosition(work[c].committed),
         Goto(c, q), UNCHANGED <<journal, keys, wm, snap, work>>,
         PendingOf(q, work[c], run)
  PROVE  Inv'
<1>1. work[c] \in Work /\ work[c].committed \in Nat
  BY DEF Inv, TypeOK, Work
<1>2. work' = [work EXCEPT ![c] = work[c]]
  BY DEF Inv, TypeOK
<1>3. /\ journal' \in Seq(Record)
      /\ keys' \in [Keys -> Events \cup {NoEvent}]
      /\ wm' \in [Attempts -> Nat]
  BY DEF Inv, TypeOK
<1>4. pc' = [pc EXCEPT ![c] = q]
  BY DEF Goto
<1> QED
  BY <1>1, <1>2, <1>3, <1>4, QuietStep

\* The store calls between an operation's commits.
LEMMA StoreCallInv ==
  ASSUME Inv, NEW c \in Callers, StoreCall(c)
  PROVE  Inv'
<1> USE DEF Inv
<1>p. PendingOf(pc[c], work[c], run)
  BY DEF PendingOK
<1>t. /\ work[c] \in Work
      /\ work[c].rec \in Record
      /\ work[c].committed \in Nat
      /\ work[c].old \in LeaseIds \cup {NoLease}
      /\ snap[c] \in RunState
      /\ run \in RunState
  BY DEF TypeOK, Work
<1>w. work = [work EXCEPT ![c] = work[c]]
  BY DEF TypeOK
<1>s. /\ journal \in Seq(Record)
      /\ keys \in [Keys -> Events \cup {NoEvent}]
      /\ wm \in [Attempts -> Nat]
  BY DEF TypeOK
<1>1. CASE DetachSync(c)
  <2>1. CASE StaleSync(c, work[c].committed)
    BY <2>1, StaleSyncInv
  <2>2. CASE ~StaleSync(c, work[c].committed)
    BY <1>1, <1>p, <2>2, MiddleSync DEF DetachSync, PendingOf, GrantPC, PC
  <2> QED
    BY <2>1, <2>2
<1>2. CASE DetachRead(c)
  <2> DEFINE w == [work[c] EXCEPT !.committed = run.version]
  <2>1. w \in Work /\ w.rec = work[c].rec
    BY <1>t DEF Work, RunState
  <2>2. /\ pc' = [pc EXCEPT ![c] = "detachAppend"]
        /\ work' = [work EXCEPT ![c] = w]
        /\ snap' = [snap EXCEPT ![c] = run]
        /\ UNCHANGED <<run, journal, keys, wm>>
    BY <1>2 DEF DetachRead, Goto, TypeOK
  <2>3. PendingOf("detachAppend", w, run')
    BY <1>2, <1>p, <2>1, <2>2 DEF DetachRead, PendingOf, GrantPC
  <2>4. snap' \in [Callers -> RunState] /\ run' \in RunState /\ "detachAppend" \in PC
    BY <1>t, <2>2 DEF TypeOK, PC
  <2> HIDE DEF w
  <2>5. TypeOK' /\ PendingOK'
    <3>1. \A l \in LeaseIds : Held(run, l) => Held(run', l)
      BY <2>2
    <3>2. /\ journal' \in Seq(Record)
          /\ keys' \in [Keys -> Events \cup {NoEvent}]
          /\ wm' \in [Attempts -> Nat]
      BY <1>s, <2>2
    <3> QED
      BY <2>1, <2>2, <2>3, <2>4, <3>1, <3>2, CallerStep
  <2>6. SnapshotCoherent'
    BY <1>t, <2>2 DEF SnapshotCoherent, TypeOK, RunState
  <2> QED
    BY <2>5, <2>6
<1>3. CASE DetachAppend(c)
  <2>1. LeaseRecord("detach", work[c].old, NoLease, "NONE", work[c].committed) \in Record
    BY <1>t, LeaseRecordType DEF Ops
  <2>2. journal' \in Seq(Record)
    BY <1>3, <1>s, <2>1 DEF DetachAppend
  <2>3. PendingOf("detachAppendSync", work[c], run)
    BY <1>3, <1>p DEF DetachAppend, PendingOf, GrantPC
  <2>4. "detachAppendSync" \in PC
    BY DEF PC
  <2> QED
    BY <1>3, <1>t, <1>w, <1>s, <2>2, <2>3, <2>4, QuietStep DEF DetachAppend, Goto
<1>4. CASE DetachAppendSync(c)
  <2>1. CASE StaleSync(c, work[c].committed)
    BY <2>1, StaleSyncInv
  <2>2. CASE ~StaleSync(c, work[c].committed)
    BY <1>4, <1>p, <2>2, MiddleSync DEF DetachAppendSync, PendingOf, GrantPC, PC
  <2> QED
    BY <2>1, <2>2
<1>5. CASE Register(c)
  BY <1>5, <1>p, CommitInv DEF Register, PendingOf, GrantPC
<1>6. CASE RegisterConflict(c)
  BY <1>6, StaleSyncInv DEF RegisterConflict
<1>7. CASE RegisterSync(c)
  <2>1. CASE StaleSync(c, work[c].committed)
    BY <2>1, StaleSyncInv
  <2>2. CASE ~StaleSync(c, work[c].committed)
    BY <1>7, <1>p, <2>2, MiddleSync DEF RegisterSync, PendingOf, GrantPC, PC
  <2> QED
    BY <2>1, <2>2
<1>8. CASE RegisterRead(c)
  <2> DEFINE lid   == work[c].rec.lid
             lease == [work[c].rec.lease EXCEPT !.expires = run.leases[lid].expires]
             rec   == [work[c].rec EXCEPT !.version = run.version, !.lease = lease]
             w     == [work[c] EXCEPT !.rec = rec, !.committed = run.version]
  <2>1. lid \in LeaseIds /\ work[c].rec.lease \in Lease /\ run.leases[lid] \in Lease
    BY <1>8, <1>p, <1>t DEF RegisterRead, PendingOf, GrantPC, Held, RunState
  <2>2. lease \in Lease
    BY <2>1 DEF Lease
  <2>3. rec \in Record /\ rec.op = work[c].rec.op
    BY <1>t, <2>2 DEF Record, RunState
  <2>4. work' = [work EXCEPT ![c] = w]
    BY <1>8 DEF RegisterRead, TypeOK
  <2>5. work[c].rec.op = "grant"
    BY <1>8, <1>p DEF RegisterRead, PendingOf, GrantPC
  <2> HIDE DEF lease, rec
  <2>6. w \in Work /\ w.rec = rec
    BY <1>t, <2>3 DEF Work, RunState
  <2> HIDE DEF w
  <2>7. PendingOf("append", w, run)
    BY <2>3, <2>5, <2>6 DEF PendingOf, GrantPC
  <2>8. "append" \in PC
    BY DEF PC
  <2> QED
    BY <1>8, <1>s, <2>4, <2>6, <2>7, <2>8, QuietStep DEF RegisterRead, Goto
<1>9. CASE JournalAppend(c)
  <2> DEFINE q == IF work[c].rec.op = "event" THEN "dedupe" ELSE "appendSync"
  <2>1. journal' \in Seq(Record)
    BY <1>9, <1>s, <1>t DEF JournalAppend
  <2>2. q \in PC /\ pc' = [pc EXCEPT ![c] = q]
    BY <1>9 DEF JournalAppend, Goto, PC
  <2>3. PendingOf(q, work[c], run)
    BY <1>9, <1>p DEF JournalAppend, PendingOf, GrantPC
  <2> HIDE DEF q
  <2> QED
    BY <1>9, <1>t, <1>w, <1>s, <2>1, <2>2, <2>3, QuietStep DEF JournalAppend
<1>10. CASE DedupePut(c)
  <2>1. work[c].rec.event \in Events
    BY <1>10, <1>p DEF DedupePut, PendingOf
  <2>2. keys' \in [Keys -> Events \cup {NoEvent}]
    BY <1>10, <1>s, <2>1 DEF DedupePut
  <2>3. PendingOf("watermark", work[c], run) /\ "watermark" \in PC
    BY <2>1 DEF PendingOf, GrantPC, PC
  <2> QED
    BY <1>10, <1>t, <1>w, <1>s, <2>2, <2>3, QuietStep DEF DedupePut, Goto
<1>11. CASE SaveStreamWatermark(c)
  <2>1. work[c].rec.event \in Events
    BY <1>11, <1>p DEF SaveStreamWatermark, PendingOf
  <2>0. work[c].rec.event.att \in Attempts /\ work[c].rec.event.seq \in Nat
    BY <2>1, EventsAssumption
  <2>2. wm' \in [Attempts -> Nat]
    BY <1>11, <1>s, <2>0 DEF SaveStreamWatermark
  <2>3. PendingOf("appendSync", work[c], run) /\ "appendSync" \in PC
    BY DEF PendingOf, GrantPC, PC
  <2> QED
    BY <1>11, <1>t, <1>w, <1>s, <2>2, <2>3, QuietStep DEF SaveStreamWatermark, Goto
<1>12. CASE FinalSync(c)
  <2>1. CASE StaleSync(c, work[c].committed)
    BY <2>1, StaleSyncInv
  <2>2. CASE ~StaleSync(c, work[c].committed)
    <3>1. PendingOf("idle", NoWork, run) /\ "idle" \in PC
      BY DEF PendingOf, GrantPC, PC
    <3>2. /\ pc' = [pc EXCEPT ![c] = "idle"]
          /\ work' = [work EXCEPT ![c] = NoWork]
          /\ SyncJournalPosition(work[c].committed)
          /\ UNCHANGED <<journal, keys, wm, snap>>
      BY <1>12, <2>2 DEF FinalSync, Goto
    <3> QED
      BY <1>t, <1>s, <3>1, <3>2, NoWorkType, QuietStep
  <2> QED
    BY <2>1, <2>2
<1> QED
  BY <1>1, <1>2, <1>3, <1>4, <1>5, <1>6, <1>7, <1>8, <1>9, <1>10, <1>11, <1>12
     DEF StoreCall
-----------------------------------------------------------------------------
(* Theorems.                                                                *)

\* Every step preserves the invariant.
LEMMA NextInv == Inv /\ [Next]_vars => Inv'
<1> SUFFICES ASSUME Inv, [Next]_vars PROVE Inv'
  OBVIOUS
<1>1. CASE UNCHANGED vars
  BY <1>1 DEF vars, Inv, TypeOK, PendingOK, PendingOf, SnapshotCoherent, Held
<1>2. ASSUME NEW c \in Callers, GetRun(c) PROVE Inv'
  <2>1. TypeOK'
    BY <1>2 DEF GetRun, Inv, TypeOK
  <2>2. PendingOK'
    BY <1>2 DEF GetRun, Inv, PendingOK, PendingOf, Held
  <2>3. SnapshotCoherent'
    BY <1>2 DEF GetRun, Inv, TypeOK, SnapshotCoherent, RunState
  <2> QED
    BY <2>1, <2>2, <2>3 DEF Inv
<1>3. ASSUME NEW c \in Callers, CallService(c) PROVE Inv'
  <2>1. ASSUME NEW l \in LeaseIds, Expire(c, l) PROVE Inv'
    BY <2>1, ExpireInv
  <2>2. ASSUME NEW l \in LeaseIds, Revoke(c, l) PROVE Inv'
    BY <2>2, StatusCommit DEF Revoke, IsActive, LeaseStatus, Ops
  <2>3. ASSUME NEW l \in LeaseIds, NEW now \in Times, Release(c, l, now) PROVE Inv'
    BY <2>3, StatusCommit DEF Release, IsActive, LeaseStatus, Ops
  <2>4. ASSUME NEW l \in LeaseIds, NEW token \in Tokens, NEW expires \in Times,
               NEW now \in Times, Renew(c, l, token, expires, now)
        PROVE  Inv'
    BY <2>4, RenewInv
  <2>5. ASSUME NEW l \in LeaseIds, NEW a \in Attempts, NEW token \in Tokens,
               NEW expires \in Times, NEW gen \in 1..MaxGeneration,
               Grant(c, l, a, token, expires, gen)
        PROVE  Inv'
    BY <2>5, NewLeaseType, CommitInv DEF Grant
  <2>6. ASSUME NEW l \in LeaseIds, NEW a \in Attempts, NEW token \in Tokens,
               NEW expires \in Times, NEW gen \in 1..MaxGeneration,
               GrantDetach(c, l, a, token, expires, gen)
        PROVE  Inv'
    BY <2>6, GrantDetachInv
  <2>7. ASSUME NEW e \in Events, Route(c, e) PROVE Inv'
    BY <2>7, RouteInv
  <2> QED
    BY <1>3, <2>1, <2>2, <2>3, <2>4, <2>5, <2>6, <2>7 DEF CallService
<1>4. ASSUME NEW c \in Callers, StoreCall(c) PROVE Inv'
  BY <1>4, StoreCallInv
<1> QED
  BY <1>1, <1>2, <1>3, <1>4 DEF Next

\* The invariant holds in every behaviour of the runtime.
LEMMA Invariance == Spec => []Inv
BY InitInv, NextInv, PTL DEF Spec

\* Types are preserved by every service and every store call, for any number
\* of callers and any bounds.
THEOREM TypeCorrect == Spec => []TypeOK
BY Invariance, PTL DEF Inv

\* Optimistic concurrency is sound: whatever the callers do, a snapshot whose
\* version still matches is the stored run.
THEOREM CasSound == Spec => []SnapshotCoherent
BY Invariance, PTL DEF Inv

\* A store call moves only its own caller, who was busy.
LEMMA StoreCallPc ==
  ASSUME NEW d \in Callers, StoreCall(d)
  PROVE  /\ pc[d] # "idle"
         /\ \E q : pc' = [pc EXCEPT ![d] = q]
<1>1. CASE DetachSync(d) \/ DetachRead(d) \/ DetachAppend(d) \/ DetachAppendSync(d)
  BY <1>1, Zenon DEF DetachSync, DetachRead, DetachAppend, DetachAppendSync, StaleSync, Goto
<1>2. CASE Register(d) \/ RegisterConflict(d) \/ RegisterSync(d) \/ RegisterRead(d)
  BY <1>2, Zenon DEF Register, RegisterConflict, RegisterSync, RegisterRead, Commit,
     StaleSync, Goto
<1>3. CASE JournalAppend(d) \/ DedupePut(d) \/ SaveStreamWatermark(d) \/ FinalSync(d)
  BY <1>3, Zenon DEF JournalAppend, DedupePut, SaveStreamWatermark, FinalSync, StaleSync,
     Goto
<1> QED
  BY <1>1, <1>2, <1>3 DEF StoreCall

\* A call of LeaseManager moves only its own caller, with no event to journal.
LEMMA LeaseServicePc ==
  ASSUME NEW d \in Callers, CallService(d), ~\E e \in Events : Route(d, e)
  PROVE  \E q, w : /\ pc' = [pc EXCEPT ![d] = q]
                   /\ work' = [work EXCEPT ![d] = w]
                   /\ q = "append" => w.rec.op # "event"
<1>1. ASSUME NEW rec, ThenJournal(d, rec), rec.op # "event"
      PROVE  /\ pc' = [pc EXCEPT ![d] = "append"]
             /\ work' = [work EXCEPT ![d] = Pending(rec, NoLease, rec.version)]
             /\ Pending(rec, NoLease, rec.version).rec.op # "event"
  BY <1>1 DEF ThenJournal, Goto, Pending
<1>2. ASSUME NEW l, Expire(d, l) \/ Revoke(d, l)
      PROVE  \E rec : ThenJournal(d, rec) /\ rec.op # "event"
  BY <1>2 DEF Expire, Revoke, LeaseRecord
<1>3. ASSUME NEW l, NEW now, Release(d, l, now)
      PROVE  \E rec : ThenJournal(d, rec) /\ rec.op # "event"
  BY <1>3 DEF Release, LeaseRecord
<1>4. ASSUME NEW l, NEW token, NEW expires, NEW now, Renew(d, l, token, expires, now)
      PROVE  \E rec : ThenJournal(d, rec) /\ rec.op # "event"
  BY <1>4 DEF Renew, LeaseRecord
<1>5. ASSUME NEW l, NEW a, NEW token, NEW expires, NEW gen,
             \/ Grant(d, l, a, token, expires, gen)
             \/ GrantDetach(d, l, a, token, expires, gen)
      PROVE  \E q, w : /\ pc' = [pc EXCEPT ![d] = q]
                       /\ work' = [work EXCEPT ![d] = w]
                       /\ q # "append"
  <2>1. CASE Grant(d, l, a, token, expires, gen)
    BY <2>1 DEF Grant, Commit, Goto
  <2>2. CASE GrantDetach(d, l, a, token, expires, gen)
    BY <2>2 DEF GrantDetach, Goto
  <2> QED
    BY <1>5, <2>1, <2>2
<1>6. CASE \E rec : ThenJournal(d, rec) /\ rec.op # "event"
  BY <1>1, <1>6
<1> QED
  BY <1>2, <1>3, <1>4, <1>5, <1>6 DEF CallService

\* No fenced-out executor's event commits: the lease and the token are those
\* of the stored run at the moment of the commit.
THEOREM FencingSound == Spec => FencedCommit
<1>1. Inv /\ [Next]_vars => [FencedStep]_vars
  <2> SUFFICES ASSUME Inv, Next, NEW c \in Callers, EventCommits(c)
               PROVE  \E l \in ActiveLeases(run, work'[c].rec.event.att) :
                        run.leases[l].token = work'[c].rec.event.token
    BY DEF FencedStep
  <2> USE DEF Inv, EventCommits
  <2>1. PICK d \in Callers : GetRun(d) \/ CallService(d) \/ StoreCall(d)
    BY DEF Next
  <2>2. ~StoreCall(d)
    <3> SUFFICES ASSUME StoreCall(d) PROVE FALSE
      OBVIOUS
    <3>1. /\ pc[d] # "idle"
          /\ \E q : pc' = [pc EXCEPT ![d] = q]
      BY StoreCallPc
    <3> QED
      BY <3>1 DEF TypeOK
  <2>3. \E e \in Events : Route(c, e)
    <3>1. CASE GetRun(d)
      BY <3>1 DEF GetRun
    <3>2. CASE \E e \in Events : Route(d, e)
      <4>1. pc' = [pc EXCEPT ![d] = "append"]
        BY <3>2 DEF Route, Goto
      <4>2. d = c
        BY <4>1 DEF TypeOK
      <4> QED
        BY <3>2, <4>2
    <3>3. CASE CallService(d) /\ ~\E e \in Events : Route(d, e)
      <4>1. PICK q, w : /\ pc' = [pc EXCEPT ![d] = q]
                        /\ work' = [work EXCEPT ![d] = w]
                        /\ q = "append" => w.rec.op # "event"
        BY <3>3, LeaseServicePc
      <4> QED
        BY <4>1 DEF TypeOK
    <3> QED
      BY <2>1, <2>2, <3>1, <3>2, <3>3
  <2>4. PICK e \in Events : Route(c, e)
    BY <2>3
  <2>5. work'[c].rec.event = e
    BY <2>4 DEF Route, Pending, EventRecord, TypeOK
  <2>6. snap[c].version = run.version
    BY <2>4 DEF Route, PutRun
  <2>7. snap[c].leases = run.leases
    BY <2>6, SameFields
  <2> QED
    BY <2>4, <2>5, <2>7 DEF Route, Fenced, ActiveLeases, IsActive, Held
<1> QED
  BY <1>1, Invariance, PTL DEF Spec, FencedCommit

\* How a step that is not an event moves the nodes of the stored run: not at
\* all, or one node with its expired current lease.
ExpiresNode(l) ==
  LET m == NodeOf[run.leases[l].att]
  IN  /\ m \in Nodes
      /\ IsActive(run, l)
      /\ run.node[m].lease_ref = l
      /\ ValidNodeTransition(run.node[m].status, "LEASE_EXPIRED")
      /\ run'.node = [run.node EXCEPT ![m].status = "LEASE_EXPIRED"]
      /\ run'.leases[l].status = "EXPIRED"

StatusesKept == \A n \in Nodes : run'.node[n].status = run.node[n].status

\* Registering a lease changes no node's status.
LEMMA CommitKeepsStatuses ==
  ASSUME Inv, NEW c \in Callers, NEW l \in LeaseIds, NEW lease \in Lease,
         Commit(c, l, lease)
  PROVE  StatusesKept
<1>1. snap[c] \in RunState /\ snap[c].version = run.version
  BY DEF Inv, TypeOK, Commit, PutRun
<1>2. run'.node = NewNode(snap[c], l, lease)
  BY <1>1, RegisteredFacts, Zenon DEF Commit, PutRun
<1>3. snap[c].node = run.node
  BY <1>1, SameFields DEF Inv
<1>4. run.node \in [Nodes -> NodeState]
  BY DEF Inv, TypeOK, RunState
<1> QED
  BY <1>2, <1>3, <1>4 DEF StatusesKept, NewNode, NodeState

\* A lease operation leaves the node statuses alone, or expires the node of
\* the ACTIVE lease the node refers to.
LEMMA LeaseNodes ==
  ASSUME Inv, NEW c \in Callers, CallService(c), ~\E e \in Events : Route(c, e)
  PROVE  StatusesKept \/ \E l \in LeaseIds : ExpiresNode(l)
<1> USE DEF Inv
<1>t. snap[c] \in RunState
  BY DEF TypeOK
<1>1. ASSUME NEW l \in LeaseIds, NEW st \in LeaseStatus, Held(snap[c], l),
             PutRun(SetStatus(snap[c], l, st), snap[c].version)
      PROVE  StatusesKept
  <2>1. SetStatus(snap[c], l, st).node = snap[c].node
    BY <1>1, <1>t, SetStatusFacts
  <2> QED
    BY <1>1, <2>1, SameFields DEF PutRun, StatusesKept
<1>2. ASSUME NEW l \in LeaseIds, Expire(c, l)
      PROVE  StatusesKept \/ ExpiresNode(l)
  <2>1. Held(snap[c], l) /\ IsActive(snap[c], l)
    BY <1>2 DEF Expire, IsActive
  <2>2. CASE ~IsCurrentLease(snap[c], l)
    BY <1>1, <1>2, <2>1, <2>2 DEF Expire, LeaseStatus
  <2>3. CASE IsCurrentLease(snap[c], l)
    <3> DEFINE new == ExpiredCurrent(snap[c], l)
               a   == snap[c].leases[l].att
    <3>1. /\ snap[c].version = run.version
          /\ run' = new
          /\ ValidNodeTransition(snap[c].node[NodeOf[a]].status, "LEASE_EXPIRED")
      BY <1>2, <2>3 DEF Expire, PutRun
    <3>2. /\ new.node = [snap[c].node EXCEPT ![NodeOf[a]].status = "LEASE_EXPIRED"]
          /\ new.leases = [snap[c].leases EXCEPT ![l].status = "EXPIRED"]
      BY <1>t, <2>1, ExpiredCurrentFacts
    <3>3. snap[c].node = run.node /\ snap[c].leases = run.leases
      BY <3>1, SameFields
    <3>4. NodeOf[a] \in Nodes /\ snap[c].leases[l] \in Lease
      BY <1>t, <2>1, NodeOfAssumption DEF RunState, Held, Lease
    <3>5. new.leases[l].status = "EXPIRED"
      <4> HIDE DEF new
      <4>1. DOMAIN snap[c].leases = LeaseIds
        BY <1>t DEF RunState
      <4> QED
        BY <3>2, <3>4, <4>1 DEF Lease
    <3>6. snap[c].node[NodeOf[a]].lease_ref = l
      BY <2>3 DEF IsCurrentLease
    <3> HIDE DEF new
    <3> QED
      BY <2>1, <3>1, <3>2, <3>3, <3>4, <3>5, <3>6 DEF ExpiresNode, IsActive, Held
  <2> QED
    BY <2>2, <2>3
<1>3. ASSUME NEW l \in LeaseIds, Revoke(c, l)
      PROVE  StatusesKept
  BY <1>1, <1>3 DEF Revoke, IsActive, LeaseStatus
<1>4. ASSUME NEW l \in LeaseIds, NEW now \in Times, Release(c, l, now)
      PROVE  StatusesKept
  BY <1>1, <1>4 DEF Release, IsActive, LeaseStatus
<1>5. ASSUME NEW l \in LeaseIds, NEW token \in Tokens, NEW expires \in Times,
             NEW now \in Times, Renew(c, l, token, expires, now)
      PROVE  StatusesKept
  <2>1. Held(snap[c], l) /\ PutRun(Renewed(snap[c], l, expires), snap[c].version)
    BY <1>5 DEF Renew, IsActive
  <2>2. Renewed(snap[c], l, expires).node = snap[c].node
    BY <1>t, <2>1, RenewedFacts
  <2> QED
    BY <2>1, <2>2, SameFields DEF PutRun, StatusesKept
<1>6. ASSUME NEW l \in LeaseIds, NEW a \in Attempts, NEW token \in Tokens,
             NEW expires \in Times, NEW gen \in 1..MaxGeneration,
             Grant(c, l, a, token, expires, gen)
      PROVE  StatusesKept
  BY <1>6, NewLeaseType, CommitKeepsStatuses DEF Grant
<1>7. ASSUME NEW l \in LeaseIds, NEW a \in Attempts, NEW token \in Tokens,
             NEW expires \in Times, NEW gen \in 1..MaxGeneration,
             GrantDetach(c, l, a, token, expires, gen)
      PROVE  StatusesKept
  BY <1>1, <1>7 DEF GrantDetach, ActiveLeases, IsActive, LeaseStatus
<1> QED
  BY <1>2, <1>3, <1>4, <1>5, <1>6, <1>7 DEF CallService

\* The store calls after a commit change no node's status.
LEMMA StoreCallNodes ==
  ASSUME Inv, NEW c \in Callers, StoreCall(c)
  PROVE  StatusesKept
<1> USE DEF Inv
<1>1. CASE run' = run
  BY <1>1 DEF StatusesKept
<1>2. CASE \E v : SyncJournalPosition(v)
  BY <1>2 DEF SyncJournalPosition, StatusesKept, TypeOK, RunState
<1>3. CASE Register(c)
  <2>1. PendingOf("register", work[c], run)
    BY <1>3 DEF Register, PendingOK
  <2> QED
    BY <1>3, <2>1, CommitKeepsStatuses DEF Register, PendingOf, GrantPC
<1>4. CASE DetachSync(c) \/ DetachRead(c) \/ DetachAppend(c) \/ DetachAppendSync(c)
  BY <1>1, <1>2, <1>4 DEF DetachSync, DetachRead, DetachAppend, DetachAppendSync, StaleSync
<1>5. CASE RegisterConflict(c) \/ RegisterSync(c) \/ RegisterRead(c)
  BY <1>1, <1>2, <1>5 DEF RegisterConflict, RegisterSync, RegisterRead, StaleSync
<1>6. CASE JournalAppend(c) \/ DedupePut(c) \/ SaveStreamWatermark(c) \/ FinalSync(c)
  BY <1>1, <1>2, <1>6 DEF JournalAppend, DedupePut, SaveStreamWatermark, FinalSync,
     StaleSync
<1> QED
  BY <1>3, <1>4, <1>5, <1>6 DEF StoreCall

\* An accepted event moves its own node, along the table.
LEMMA EventNodes ==
  ASSUME Inv, NEW c \in Callers, NEW e \in Events, Route(c, e)
  PROVE  \E s \in NodeStatus :
           /\ e.node \in Nodes
           /\ \/ s = run.node[e.node].status
              \/ ValidNodeTransition(run.node[e.node].status, s) /\ s # "DONE"
           /\ run'.node = [run.node EXCEPT ![e.node].status = s]
<1> USE DEF Inv
<1>1. PICK s \in NextNodeStatus(snap[c], e) :
        PutRun(Applied(snap[c], e, s), snap[c].version)
  BY DEF Route
<1>2. snap[c] \in RunState /\ e.node \in Nodes
  BY EventsAssumption DEF TypeOK
<1>3. /\ s \in NodeStatus
      /\ \/ s = snap[c].node[e.node].status
         \/ ValidNodeTransition(snap[c].node[e.node].status, s) /\ s # "DONE"
  BY <1>2, NextNodeStatusFacts
<1>4. Applied(snap[c], e, s).node = [snap[c].node EXCEPT ![e.node].status = s]
  <2>1. TypeOK
    OBVIOUS
  <2> QED
    BY <1>2, <1>3, <2>1, AppliedFacts, ZenonT(40)
<1>5. snap[c].node = run.node /\ run' = Applied(snap[c], e, s)
  BY <1>1, SameFields DEF PutRun
<1> QED
  BY <1>2, <1>3, <1>4, <1>5

\* Reducer authority holds of the stored run under any interleaving.
THEOREM ReducerAuthority == Spec => LegalNodeStep
<1>1. Inv /\ [Next]_vars => [LegalStep]_vars
  <2> SUFFICES ASSUME Inv, Next PROVE LegalStep
    OBVIOUS
  <2>t. run.node \in [Nodes -> NodeState]
    BY DEF Inv, TypeOK, RunState
  <2>1. PICK c \in Callers : GetRun(c) \/ CallService(c) \/ StoreCall(c)
    BY DEF Next
  <2>2. CASE StatusesKept
    BY <2>2 DEF StatusesKept, LegalStep
  <2>3. CASE \E l \in LeaseIds : ExpiresNode(l)
    <3>1. PICK l \in LeaseIds : ExpiresNode(l)
      BY <2>3
    <3> DEFINE m == NodeOf[run.leases[l].att]
    <3>2. /\ m \in Nodes
          /\ ValidNodeTransition(run.node[m].status, "LEASE_EXPIRED")
          /\ run'.node = [run.node EXCEPT ![m].status = "LEASE_EXPIRED"]
      BY <3>1 DEF ExpiresNode
    <3> HIDE DEF m
    <3> QED
      BY <2>t, <3>2 DEF LegalStep, NodeState
  <2>4. CASE \E e \in Events : Route(c, e)
    <3>1. PICK e \in Events : Route(c, e)
      BY <2>4
    <3>2. PICK s \in NodeStatus :
            /\ e.node \in Nodes
            /\ \/ s = run.node[e.node].status
               \/ ValidNodeTransition(run.node[e.node].status, s) /\ s # "DONE"
            /\ run'.node = [run.node EXCEPT ![e.node].status = s]
      BY <3>1, EventNodes
    <3> QED
      BY <2>t, <3>2 DEF LegalStep, NodeState
  <2>5. CASE GetRun(c)
    BY <2>2, <2>5 DEF GetRun, StatusesKept
  <2> QED
    BY <2>1, <2>2, <2>3, <2>4, <2>5, LeaseNodes, StoreCallNodes
<1> QED
  BY <1>1, Invariance, PTL DEF Spec, LegalNodeStep

\* A late or foreign expiry never moves a node away from its current lease.
THEOREM LateExpiryHarmless == Spec => ExpiryFence
<1>1. Inv /\ [Next]_vars => [ExpiryStep]_vars
  <2> SUFFICES ASSUME Inv, Next, NoEventCommits
               PROVE  ExpiryStep
    BY DEF ExpiryStep
  <2>t. run.node \in [Nodes -> NodeState]
    BY DEF Inv, TypeOK, RunState
  <2>1. PICK c \in Callers : GetRun(c) \/ CallService(c) \/ StoreCall(c)
    BY DEF Next
  <2>2. CASE StatusesKept
    BY <2>2 DEF StatusesKept, ExpiryStep
  <2>3. CASE \E l \in LeaseIds : ExpiresNode(l)
    <3>1. PICK l \in LeaseIds : ExpiresNode(l)
      BY <2>3
    <3> DEFINE m == NodeOf[run.leases[l].att]
    <3>2. /\ m \in Nodes
          /\ IsActive(run, l)
          /\ run.node[m].lease_ref = l
          /\ run'.node = [run.node EXCEPT ![m].status = "LEASE_EXPIRED"]
          /\ run'.leases[l].status = "EXPIRED"
      BY <3>1 DEF ExpiresNode
    <3> HIDE DEF m
    <3>3. \A n \in Nodes : run'.node[n].status # run.node[n].status => n = m
      BY <2>t, <3>2
    <3>4. run'.node[m].status = "LEASE_EXPIRED"
      BY <2>t, <3>2 DEF NodeState
    <3> QED
      BY <3>2, <3>3, <3>4 DEF ExpiryStep
  <2>4. ~\E e \in Events : Route(c, e)
    BY DEF Route, Goto, NoEventCommits, EventCommits, Pending, EventRecord, Inv, TypeOK
  <2>5. CASE GetRun(c)
    BY <2>2, <2>5 DEF GetRun, StatusesKept
  <2> QED
    BY <2>1, <2>2, <2>3, <2>4, <2>5, LeaseNodes, StoreCallNodes
<1> QED
  BY <1>1, Invariance, PTL DEF Spec, ExpiryFence
=============================================================================
