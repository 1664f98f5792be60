------------------------------ MODULE RunRuntime ------------------------------
(***************************************************************************)
(* One run of the task controller's WP2 runtime: the versioned run state   *)
(* in the StateStore (taskcontroller/runtime/store.py) and the two         *)
(* services that mutate it, LeaseManager (lease.py) and EventRouter        *)
(* (event_router.py), used by any number of callers.                       *)
(*                                                                         *)
(* The grain of atomicity is one StateStore call.  A caller reads the run  *)
(* (get_run), calls a service with that snapshot as current_state and its  *)
(* version as expected_version, and the service commits with put_run's     *)
(* compare-and-swap and then appends to the journal, writes the dedupe     *)
(* sidecar and syncs journal_position in separate store calls, between     *)
(* which other callers run.  A call that raises before its first put_run   *)
(* changes nothing, so it is simply not enabled here.                      *)
(*                                                                         *)
(* run_id is left out (one run).  The (node, execution, attempt) triple of *)
(* a lease or an event is determined by its attempt, as in the attempt     *)
(* registry; an event also carries the node it claims.                     *)
(***************************************************************************)
EXTENDS Integers, Sequences, FiniteSets, KernelTransitions

CONSTANTS Callers,        \* who calls the services
          Nodes, Attempts,
          NodeOf,         \* attempt_registry: the node of each attempt
          LeaseIds,       \* lease ids the callers choose from
          Tokens,         \* fencing tokens
          MaxTime,        \* instants are 0..MaxTime
          MaxGeneration,  \* bound on the lease generations callers request
          MaxVersion,     \* bound on the commits of a behaviour
          Events,         \* AgentEvents the producers may emit
          NoLease, NoEvent, NoIdem,   \* None
          InitStatuses,   \* run statuses the services may meet
          InitNode        \* the node statuses the run starts with

ASSUME NodeOfAssumption == NodeOf \in [Attempts -> Nodes]
ASSUME BoundsAssumption ==
  MaxTime \in Nat /\ MaxGeneration \in Nat /\ MaxVersion \in Nat
ASSUME InitAssumption ==
  InitNode \in [Nodes -> NodeStatus] /\ InitStatuses \subseteq RunStatus

VARIABLES run,      \* the stored VersionedRunState
          journal,  \* the run's RuntimeRecords; record_index = position - 1
          keys,     \* store dedupe sidecar: dedupe key -> fingerprint
          wm,       \* store dedupe sidecar: stream -> next producer sequence
          pc,       \* per caller: the store call its service makes next
          snap,     \* per caller: the run state the service works on
          work      \* per caller: the operation under way

vars == <<run, journal, keys, wm, pc, snap, work>>
-----------------------------------------------------------------------------
Times == 0..MaxTime
LeaseStatus == {"ACTIVE", "RELEASED", "EXPIRED", "REVOKED"}

\* The fields of a WorkLease the services look at.
Lease == [att : Attempts, token : Tokens, expires : Times,
          status : LeaseStatus, gen : Nat]

ASSUME NoneAssumption ==
  NoLease \notin LeaseIds /\ NoLease \notin Lease /\ NoEvent \notin Events

\* A fingerprint covers the whole event, so the event stands for it.
EventType == {"COMPLETED", "STATUS_CHANGE", "OTHER"}
ASSUME EventsAssumption ==
  \A e \in Events :
    /\ DOMAIN e = {"id", "idem", "att", "node", "token", "seq", "type", "target"}
    /\ e.att \in Attempts /\ e.node \in Nodes /\ e.token \in Tokens
    /\ e.seq \in Nat /\ e.type \in EventType

\* _dedupe_keys: the event id and, when there is one, the idempotency key.
DedupeKeys(e) ==
  {<<"event", e.id>>} \cup (IF e.idem = NoIdem THEN {} ELSE {<<"idem", e.idem>>})
Keys == UNION {DedupeKeys(e) : e \in Events}

NodeState == [status : NodeStatus, lease_ref : LeaseIds \cup {NoLease}]
AttemptRecord == [lease : LeaseIds \cup {NoLease}, token : Tokens,
                  status : NodeStatus, gen : Nat]

\* TeamRunState, version and RuntimeSnapshotMeta; seen and stream are the
\* copies of the dedupe sidecar that EventRouter mirrors into the meta.  The
\* last accepted event is kept twice: last is TeamRunState.last_event_cursor,
\* cursor is the meta's event_cursor.
RunState == [version : Nat, status : RunStatus, node : [Nodes -> NodeState],
             leases : [LeaseIds -> Lease \cup {NoLease}],
             active : SUBSET LeaseIds,
             attempt : [Attempts -> AttemptRecord],
             seen : [Keys -> Events \cup {NoEvent}],
             stream : [Attempts -> Nat],
             cursor : Events \cup {NoEvent},
             last : Events \cup {NoEvent},
             jp : Int]

\* A journal record, as far as replay reads it.  A lease record carries the
\* lease as committed; "expire" has a node_status when the node moved.
Ops == {"grant", "detach", "release", "renew", "revoke", "expire", "event"}
Record == [op : Ops, lid : LeaseIds \cup {NoLease}, lease : Lease \cup {NoLease},
           event : Events \cup {NoEvent},
           node_status : {"LEASE_EXPIRED", "NONE"}, version : Nat]

PC == {"idle", "detachSync", "detachRead", "detachAppend", "detachAppendSync",
       "register", "registerSync", "registerRead", "append", "appendSync",
       "dedupe", "watermark"}

NoRecord == [op |-> "event", lid |-> NoLease, lease |-> NoLease,
             event |-> NoEvent, node_status |-> "NONE", version |-> 0]

LeaseRecord(op, l, lease, node_status, version) ==
  [op |-> op, lid |-> l, lease |-> lease, event |-> NoEvent,
   node_status |-> node_status, version |-> version]

EventRecord(e, version) ==
  [op |-> "event", lid |-> NoLease, lease |-> NoLease, event |-> e,
   node_status |-> "NONE", version |-> version]

\* The record to append when the operation commits, and the lease being
\* detached by a grant, with the version its put_run committed.
Work == [rec : Record, old : LeaseIds \cup {NoLease}, committed : Nat]
Pending(rec, old, committed) == [rec |-> rec, old |-> old, committed |-> committed]
NoWork == Pending(NoRecord, NoLease, 0)

TypeOK ==
  /\ run \in RunState
  /\ journal \in Seq(Record)
  /\ keys \in [Keys -> Events \cup {NoEvent}]
  /\ wm \in [Attempts -> Nat]
  /\ pc \in [Callers -> PC]
  /\ snap \in [Callers -> RunState]
  /\ work \in [Callers -> Work]
-----------------------------------------------------------------------------
\* The run as the registry creates it: attempts claimed, no lease yet.
InitRun(status, token) ==
  [version |-> 0,
   status  |-> status,
   node    |-> [n \in Nodes |-> [status |-> InitNode[n], lease_ref |-> NoLease]],
   leases  |-> [l \in LeaseIds |-> NoLease],
   active  |-> {},
   attempt |-> [a \in Attempts |-> [lease |-> NoLease, token |-> token,
                                    status |-> "PENDING", gen |-> 0]],
   seen    |-> [k \in Keys |-> NoEvent],
   stream  |-> [a \in Attempts |-> 0],
   cursor  |-> NoEvent,
   last    |-> NoEvent,
   jp      |-> 0]

Init ==
  /\ \E status \in InitStatuses, token \in Tokens : run = InitRun(status, token)
  /\ journal = <<>>
  /\ keys = [k \in Keys |-> NoEvent]
  /\ wm = [a \in Attempts |-> 0]
  /\ pc = [c \in Callers |-> "idle"]
  /\ snap = [c \in Callers |-> run]
  /\ work = [c \in Callers |-> NoWork]
-----------------------------------------------------------------------------
(* The StateStore.                                                         *)

\* put_run: compare-and-swap on the version.
PutRun(new, expected) ==
  /\ run.version = expected
  /\ run' = new

LastRecordIndex == Len(journal) - 1

\* sync_journal_position when it does not raise.
SyncJournalPosition(version) ==
  /\ run.version = version
  /\ run' = [run EXCEPT !.jp = LastRecordIndex]

\* sync_journal_position raising ConcurrentStateError: the service call ends
\* here, with its commit already in the store.
StaleSync(c, version) ==
  /\ run.version # version
  /\ pc' = [pc EXCEPT ![c] = "idle"]
  /\ work' = [work EXCEPT ![c] = NoWork]
  /\ UNCHANGED <<run, journal, keys, wm, snap>>

Goto(c, label) == pc' = [pc EXCEPT ![c] = label]

\* An idle caller reads the run it is going to work on.
GetRun(c) ==
  /\ pc[c] = "idle"
  /\ snap' = [snap EXCEPT ![c] = run]
  /\ UNCHANGED <<run, journal, keys, wm, pc, work>>
-----------------------------------------------------------------------------
(* LeaseManager.                                                           *)

Held(rs, l) == rs.leases[l] # NoLease
IsActive(rs, l) == Held(rs, l) /\ rs.leases[l].status = "ACTIVE"

\* _is_expired: strictly before now; equality is not expired.
IsExpired(lease, now) == lease.expires < now

\* _find_active_lease_in_dict, for the attempt's quad: the first of these in
\* dict order.
ActiveLeases(rs, a) == {l \in LeaseIds : IsActive(rs, l) /\ rs.leases[l].att = a}

\* Mutant: the commit forgets to bump the version.
SetStatus_NoBump(rs, l, status) == [rs EXCEPT !.leases[l].status = status]

SetStatus(rs, l, status) ==
  [rs EXCEPT !.version = rs.version + 1, !.leases[l].status = status]

\* What a committed lease operation leaves to be done: _journal_lease.
ThenJournal(c, rec) ==
  /\ Goto(c, "append")
  /\ work' = [work EXCEPT ![c] = Pending(rec, NoLease, rec.version)]
  /\ UNCHANGED <<journal, keys, wm, snap>>

Release(c, l, now) ==
  /\ pc[c] = "idle"
  /\ IsActive(snap[c], l)
  /\ ~IsExpired(snap[c].leases[l], now)
  /\ LET new == SetStatus(snap[c], l, "RELEASED")
     IN  /\ PutRun(new, snap[c].version)
         /\ ThenJournal(c, LeaseRecord("release", l, new.leases[l], "NONE", new.version))

\* Mutant: a renewal may shorten the lease.
Renewable_AnyExpiry(lease, token, expires, now) ==
  lease.token = token /\ ~IsExpired(lease, now)

\* renew's checks on an ACTIVE lease: the token, the clock, and no shortening.
Renewable(lease, token, expires, now) ==
  /\ lease.token = token
  /\ ~IsExpired(lease, now)
  /\ expires >= lease.expires

Renewed(rs, l, expires) ==
  [rs EXCEPT !.version = rs.version + 1, !.leases[l].expires = expires]

\* The renewal of a replaced lease returns without a change; it is the
\* stuttering step.
Renew(c, l, token, expires, now) ==
  /\ pc[c] = "idle"
  /\ IsActive(snap[c], l)
  /\ Renewable(snap[c].leases[l], token, expires, now)
  /\ LET new == Renewed(snap[c], l, expires)
     IN  /\ PutRun(new, snap[c].version)
         /\ ThenJournal(c, LeaseRecord("renew", l, new.leases[l], "NONE", new.version))

Revoke(c, l) ==
  /\ pc[c] = "idle"
  /\ IsActive(snap[c], l)
  /\ LET new == SetStatus(snap[c], l, "REVOKED")
     IN  /\ PutRun(new, snap[c].version)
         /\ ThenJournal(c, LeaseRecord("revoke", l, new.leases[l], "NONE", new.version))

\* Mutant: every ACTIVE lease counts as the node's current one.
IsCurrentLease_Any(rs, l) == TRUE

\* expire's is_current_lease: node, attempt and fencing token all name l.
IsCurrentLease(rs, l) ==
  LET a == rs.leases[l].att
  IN  /\ rs.node[NodeOf[a]].lease_ref = l
      /\ rs.attempt[a].lease = l
      /\ rs.attempt[a].token = rs.leases[l].token

\* The node and the attempt of a current lease expire with it.  TeamRunState
\* is built again field by field, without last_event_cursor.
ExpiredCurrent(rs, l) ==
  LET a == rs.leases[l].att
  IN  [SetStatus(rs, l, "EXPIRED") EXCEPT !.node[NodeOf[a]].status = "LEASE_EXPIRED",
                                          !.attempt[a].status = "LEASE_EXPIRED",
                                          !.attempt[a].lease = NoLease,
                                          !.last = NoEvent]

\* expire does not look at the clock.  It re-reads the run for the binding;
\* put_run's check makes that read the snapshot again.
Expire(c, l) ==
  /\ pc[c] = "idle"
  /\ IsActive(snap[c], l)
  /\ LET node == NodeOf[snap[c].leases[l].att]
         cur  == IsCurrentLease(snap[c], l)
         new  == IF cur THEN ExpiredCurrent(snap[c], l)
                        ELSE SetStatus(snap[c], l, "EXPIRED")
     IN  /\ cur => ValidNodeTransition(snap[c].node[node].status, "LEASE_EXPIRED")
         /\ PutRun(new, snap[c].version)
         /\ ThenJournal(c, LeaseRecord("expire", l, new.leases[l],
                                    IF cur THEN "LEASE_EXPIRED" ELSE "NONE", new.version))

\* Mutant: the attempt record's generation is not consulted.
CurrentGeneration_LeasesOnly(rs, a) ==
  LET gens == {0} \cup {rs.leases[l].gen : l \in ActiveLeases(rs, a)}
  IN  CHOOSE g \in gens : \A h \in gens : h <= g

\* grant's current_generation, from the attempt record and the lease found.
\* The code takes the first ACTIVE lease in dict order where this takes the
\* latest; they differ only when an attempt has two (see AtMostOneActive).
CurrentGeneration(rs, a) ==
  LET gens == {rs.attempt[a].gen} \cup {rs.leases[l].gen : l \in ActiveLeases(rs, a)}
  IN  CHOOSE g \in gens : \A h \in gens : h <= g

NewLease(a, token, expires, gen) ==
  [att |-> a, token |-> token, expires |-> expires, status |-> "ACTIVE", gen |-> gen]

\* The attempt record bound to a lease.
Bound(att, l, lease) ==
  [att EXCEPT !.lease = l, !.token = lease.token, !.gen = lease.gen]

\* _register_lease_full up to its put_run, on the state rs.  It too builds
\* TeamRunState again without last_event_cursor.
Registered(rs, l, lease) ==
  LET leases == [rs.leases EXCEPT ![l] = lease]
      a      == lease.att
  IN  [rs EXCEPT !.version = rs.version + 1,
                 !.leases = leases,
                 !.active = {k \in LeaseIds : leases[k] # NoLease /\ leases[k].status = "ACTIVE"},
                 !.node[NodeOf[a]].lease_ref = l,
                 !.attempt[a] = Bound(@, l, lease),
                 !.last = NoEvent]

\* The put_run of _register_lease_full.  It reads the run afresh and commits
\* against the version grant holds; only an unchanged run passes the check.
Commit(c, l, lease) ==
  LET new == Registered(snap[c], l, lease)
  IN  /\ PutRun(new, snap[c].version)
      /\ Goto(c, "registerSync")
      /\ work' = [work EXCEPT ![c] =
           Pending(LeaseRecord("grant", l, lease, "NONE", new.version), NoLease, new.version)]
      /\ UNCHANGED <<journal, keys, wm, snap>>

\* Mutant: grant never looks for a lease to detach.
Grant_NoDetach(c, l, a, token, expires, gen) ==
  /\ pc[c] = "idle"
  /\ gen > CurrentGeneration(snap[c], a)
  /\ Commit(c, l, NewLease(a, token, expires, gen))

\* grant when the attempt has no ACTIVE lease: register at once.
Grant(c, l, a, token, expires, gen) ==
  /\ pc[c] = "idle"
  /\ ActiveLeases(snap[c], a) = {}
  /\ gen > CurrentGeneration(snap[c], a)
  /\ Commit(c, l, NewLease(a, token, expires, gen))

\* grant when the attempt has one: _detach_lease commits it RELEASED first.
GrantDetach(c, l, a, token, expires, gen) ==
  /\ pc[c] = "idle"
  /\ gen > CurrentGeneration(snap[c], a)
  /\ \E old \in ActiveLeases(snap[c], a) :
       LET new == SetStatus(snap[c], old, "RELEASED")
       IN  /\ PutRun(new, snap[c].version)
           /\ work' = [work EXCEPT ![c] =
                Pending(LeaseRecord("grant", l, NewLease(a, token, expires, gen), "NONE", 0),
                        old, new.version)]
  /\ Goto(c, "detachSync")
  /\ UNCHANGED <<journal, keys, wm, snap>>

DetachSync(c) ==
  /\ pc[c] = "detachSync"
  /\ \/ /\ SyncJournalPosition(work[c].committed)
        /\ Goto(c, "detachRead")
        /\ UNCHANGED <<journal, keys, wm, snap, work>>
     \/ StaleSync(c, work[c].committed)

\* _detach_lease returns a fresh get_run, and grant takes rs and version
\* from it.
DetachRead(c) ==
  /\ pc[c] = "detachRead"
  /\ snap' = [snap EXCEPT ![c] = run]
  /\ work' = [work EXCEPT ![c].committed = run.version]
  /\ Goto(c, "detachAppend")
  /\ UNCHANGED <<run, journal, keys, wm>>

\* Mutant: the detachment is not journaled.
DetachAppend_Skip(c) ==
  /\ pc[c] = "detachAppend"
  /\ Goto(c, "detachAppendSync")
  /\ UNCHANGED <<run, journal, keys, wm, snap, work>>

\* The "detach" record: no attempt_id, the version of the re-read run.
DetachAppend(c) ==
  /\ pc[c] = "detachAppend"
  /\ journal' = Append(journal, LeaseRecord("detach", work[c].old, NoLease, "NONE",
                                            work[c].committed))
  /\ Goto(c, "detachAppendSync")
  /\ UNCHANGED <<run, keys, wm, snap, work>>

DetachAppendSync(c) ==
  /\ pc[c] = "detachAppendSync"
  /\ \/ /\ SyncJournalPosition(work[c].committed)
        /\ Goto(c, "register")
        /\ UNCHANGED <<journal, keys, wm, snap, work>>
     \/ StaleSync(c, work[c].committed)

Register(c) ==
  /\ pc[c] = "register"
  /\ Commit(c, work[c].rec.lid, work[c].rec.lease)

\* put_run refusing the second half of a grant: ConcurrentStateError.
RegisterConflict(c) ==
  /\ pc[c] = "register"
  /\ StaleSync(c, snap[c].version)

RegisterSync(c) ==
  /\ pc[c] = "registerSync"
  /\ \/ /\ SyncJournalPosition(work[c].committed)
        /\ Goto(c, "registerRead")
        /\ UNCHANGED <<journal, keys, wm, snap, work>>
     \/ StaleSync(c, work[c].committed)

\* _register_lease_full returns a fresh get_run: the record takes its
\* version from it, and the expiry of the lease it finds under the id.
RegisterRead(c) ==
  /\ pc[c] = "registerRead"
  /\ LET rec   == work[c].rec
         lease == [rec.lease EXCEPT !.expires = run.leases[rec.lid].expires]
     IN  work' = [work EXCEPT ![c] =
                    [@ EXCEPT !.rec = [rec EXCEPT !.version = run.version, !.lease = lease],
                              !.committed = run.version]]
  /\ Goto(c, "append")
  /\ UNCHANGED <<run, journal, keys, wm, snap>>
-----------------------------------------------------------------------------
(* EventRouter.                                                            *)

\* Mutant: a payload's status is taken without consulting the table.
NextNodeStatus_Unchecked(rs, e) ==
  CASE e.type = "COMPLETED"     -> {"REVIEWING"}
    [] e.type = "STATUS_CHANGE" -> {e.target}
    [] e.type = "OTHER"         -> {rs.node[e.node].status}

\* _apply_completed and _apply_status_change: the node's next status, or the
\* empty set when the reducer raises.  A terminal run only records.
NextNodeStatus(rs, e) ==
  LET cur == rs.node[e.node].status
  IN  CASE e.type = "COMPLETED" /\ rs.status \in RunTerminal -> {cur}
        [] e.type = "COMPLETED" /\ rs.status \notin RunTerminal ->
             {s \in {"REVIEWING"} : ValidNodeTransition(cur, s)}
        [] e.type = "STATUS_CHANGE" ->
             {s \in {e.target} \ {"DONE"} : ValidNodeTransition(cur, s)}
        [] e.type = "OTHER" -> {cur}

\* Mutant: the fencing token is not compared.
Fenced_AnyToken(rs, e, found) ==
  e.node = NodeOf[e.att] /\ found \in ActiveLeases(rs, e.att)

\* _validate_correlation_and_fencing; `found` is the lease the scan returns.
Fenced(rs, e, found) ==
  /\ e.node = NodeOf[e.att]
  /\ found \in ActiveLeases(rs, e.att)
  /\ rs.leases[found].token = e.token

\* Mutant: the mirror misses the event being applied, whose sidecars are only
\* written after the commit.
Applied_OldSidecars(rs, e, status) ==
  [rs EXCEPT !.version = rs.version + 1, !.node[e.node].status = status,
             !.seen = keys, !.stream = wm, !.cursor = e, !.last = e,
             !.jp = LastRecordIndex]

\* _apply_event_to_state: both cursors, node status and the mirrored sidecars.
Applied(rs, e, status) ==
  [rs EXCEPT !.version = rs.version + 1,
             !.node[e.node].status = status,
             !.seen = [k \in Keys |-> IF k \in DedupeKeys(e) THEN e ELSE keys[k]],
             !.stream = [wm EXCEPT ![e.att] = e.seq + 1],
             !.cursor = e,
             !.last = e,
             !.jp = LastRecordIndex]

Route(c, e) ==
  /\ pc[c] = "idle"
  /\ \A k \in DedupeKeys(e) : keys[k] = NoEvent
  /\ \E found \in LeaseIds : Fenced(snap[c], e, found)
  /\ e.seq = wm[e.att]
  /\ \E status \in NextNodeStatus(snap[c], e) :
       PutRun(Applied(snap[c], e, status), snap[c].version)
  /\ Goto(c, "append")
  /\ LET v == snap[c].version + 1
     IN  work' = [work EXCEPT ![c] = Pending(EventRecord(e, v), NoLease, v)]
  /\ UNCHANGED <<journal, keys, wm, snap>>

\* Mutant: the idempotency key is not recorded.
DedupePut_IdOnly(c) ==
  /\ pc[c] = "dedupe"
  /\ keys' = [keys EXCEPT ![<<"event", work[c].rec.event.id>>] = work[c].rec.event]
  /\ Goto(c, "watermark")
  /\ UNCHANGED <<run, journal, wm, snap, work>>

\* The dedupe_put of the event id and, when there is one, the dedupe_put of
\* the idempotency key right after it: two store calls taken as one step.
DedupePut(c) ==
  /\ pc[c] = "dedupe"
  /\ keys' = [k \in Keys |-> IF k \in DedupeKeys(work[c].rec.event)
                             THEN work[c].rec.event ELSE keys[k]]
  /\ Goto(c, "watermark")
  /\ UNCHANGED <<run, journal, wm, snap, work>>

SaveStreamWatermark(c) ==
  /\ pc[c] = "watermark"
  /\ wm' = [wm EXCEPT ![work[c].rec.event.att] = work[c].rec.event.seq + 1]
  /\ Goto(c, "appendSync")
  /\ UNCHANGED <<run, journal, keys, snap, work>>
-----------------------------------------------------------------------------
\* journal_append of the operation's own record.
JournalAppend(c) ==
  /\ pc[c] = "append"
  /\ journal' = Append(journal, work[c].rec)
  /\ Goto(c, IF work[c].rec.op = "event" THEN "dedupe" ELSE "appendSync")
  /\ UNCHANGED <<run, keys, wm, snap, work>>

\* The sync that ends every operation.
FinalSync(c) ==
  /\ pc[c] = "appendSync"
  /\ \/ /\ SyncJournalPosition(work[c].committed)
        /\ Goto(c, "idle")
        /\ work' = [work EXCEPT ![c] = NoWork]
        /\ UNCHANGED <<journal, keys, wm, snap>>
     \/ StaleSync(c, work[c].committed)

\* A service call; MaxVersion bounds the commits of a behaviour.
CallService(c) ==
  /\ run.version < MaxVersion
  /\ \/ \E l \in LeaseIds : Expire(c, l) \/ Revoke(c, l)
     \/ \E l \in LeaseIds, now \in Times : Release(c, l, now)
     \/ \E l \in LeaseIds, token \in Tokens, expires, now \in Times :
          Renew(c, l, token, expires, now)
     \/ \E l \in LeaseIds, a \in Attempts, token \in Tokens, expires \in Times,
           gen \in 1..MaxGeneration :
          Grant(c, l, a, token, expires, gen) \/ GrantDetach(c, l, a, token, expires, gen)
     \/ \E e \in Events : Route(c, e)

StoreCall(c) ==
  \/ DetachSync(c) \/ DetachRead(c) \/ DetachAppend(c) \/ DetachAppendSync(c)
  \/ Register(c) \/ RegisterConflict(c) \/ RegisterSync(c) \/ RegisterRead(c)
  \/ JournalAppend(c) \/ DedupePut(c) \/ SaveStreamWatermark(c) \/ FinalSync(c)

Next == \E c \in Callers : GetRun(c) \/ CallService(c) \/ StoreCall(c)

Spec == Init /\ [][Next]_vars
-----------------------------------------------------------------------------
(* Properties for any number of callers.                                   *)

\* Snapshots and the compare-and-swap: a caller whose version still matches
\* the store holds the stored run itself (up to journal_position, which
\* sync_journal_position writes without a new version), so what a service
\* validated on its snapshot is true of the state it commits over.
SnapshotCoherent ==
  \A c \in Callers :
    /\ snap[c].version <= run.version
    /\ snap[c].version = run.version => [snap[c] EXCEPT !.jp = run.jp] = run

\* Fencing (event_router.py: the event must match the current ACTIVE lease and
\* its token): at the moment an event commits, the stored run, not only the
\* snapshot it was validated on, has an ACTIVE lease of the event's attempt
\* with the event's token.
EventCommits(c) == pc[c] = "idle" /\ pc'[c] = "append" /\ work'[c].rec.op = "event"

FencedStep ==
  \A c \in Callers :
    EventCommits(c)
      => LET e == work'[c].rec.event
         IN  \E l \in ActiveLeases(run, e.att) : run.leases[l].token = e.token
FencedCommit == [][FencedStep]_vars

\* Reducer authority: whatever the callers do, a stored node only moves along
\* the kernel's table, and neither an executor's event nor a lease operation
\* moves it to DONE.
LegalStep ==
  \A n \in Nodes :
    LET from == run.node[n].status
        to   == run'.node[n].status
    IN  to # from => ValidNodeTransition(from, to) /\ to # "DONE"
LegalNodeStep == [][LegalStep]_vars

\* A late expiry is harmless (expire: "old/non-current leases are marked
\* EXPIRED without affecting the node"): without an event, a node leaves its
\* status only for LEASE_EXPIRED and only when the lease the stored node
\* refers to was ACTIVE and is now EXPIRED.
NoEventCommits == \A c \in Callers : ~EventCommits(c)

ExpiryStep ==
  \A n \in Nodes :
    NoEventCommits /\ run'.node[n].status # run.node[n].status
      => /\ run'.node[n].status = "LEASE_EXPIRED"
         /\ \E l \in LeaseIds : /\ run.node[n].lease_ref = l
                                /\ IsActive(run, l)
                                /\ run'.leases[l].status = "EXPIRED"
ExpiryFence == [][ExpiryStep]_vars
-----------------------------------------------------------------------------
(* Properties of a single caller (and, with several, what their races       *)
(* break).                                                                  *)

\* Replacement detachment: an ACTIVE lease is the one its attempt record is
\* bound to, by id, token and generation; in particular an attempt never has
\* two ACTIVE leases.
BoundTo(rs, l) ==
  LET a == rs.leases[l].att
  IN  /\ rs.attempt[a].lease = l
      /\ rs.attempt[a].token = rs.leases[l].token
      /\ rs.attempt[a].gen = rs.leases[l].gen

ActiveIsBound == \A l \in LeaseIds : IsActive(run, l) => BoundTo(run, l)

AtMostOneActive == \A a \in Attempts : Cardinality(ActiveLeases(run, a)) <= 1

\* grant: "the bound AttemptRecord never regresses".
GenerationNeverRegresses ==
  [][\A a \in Attempts : run'.attempt[a].gen >= run.attempt[a].gen]_vars

\* Idempotency: no two accepted events share an event id or an idempotency
\* key, and the accepted sequence numbers of a stream increase.
EventOnce ==
  \A i, j \in DOMAIN journal :
    i < j /\ journal[i].op = "event" /\ journal[j].op = "event" =>
      LET e == journal[i].event
          f == journal[j].event
      IN  DedupeKeys(e) \cap DedupeKeys(f) = {} /\ (e.att = f.att => e.seq < f.seq)

Quiescent == \A c \in Callers : pc[c] = "idle"

\* Every accepted mutation is journaled, in commit order, and
\* journal_position is the index of the last record, once no call is under
\* way.
JournalComplete ==
  Quiescent =>
    /\ Len(journal) = run.version
    /\ \A i \in DOMAIN journal : journal[i].version = i
    /\ run.version > 0 => run.jp = LastRecordIndex

\* journal.py: "Every accepted mutation ... is recorded as a RuntimeRecord".
EveryCommitJournaled == Quiescent => Len(journal) >= run.version

\* runtime_state.py says current_lease_id is the "ACTIVE lease for this
\* attempt, if any".
BindingIsActive ==
  \A a \in Attempts : run.attempt[a].lease # NoLease => IsActive(run, run.attempt[a].lease)

\* The sidecars EventRouter mirrors into the run's meta are the store's, once
\* no call is under way; a checkpoint relies on it.
SidecarsMirrored == Quiescent => run.seen = keys /\ run.stream = wm

\* What an attempt holds: its ACTIVE leases.
Holders(rs, a) ==
  {[id |-> l, token |-> rs.leases[l].token, gen |-> rs.leases[l].gen,
    expires |-> rs.leases[l].expires] : l \in ActiveLeases(rs, a)}

Authority == INSTANCE LeaseAuthority
  WITH Ids <- LeaseIds, Generations <- 1..MaxGeneration, Instants <- Times,
       holding <- [a \in Attempts |-> Holders(run, a)],
       issued <- [a \in Attempts |-> run.attempt[a].gen]

\* The services of lease.py, each cut at its store calls, implement a lease
\* authority: at no moment does an attempt have two ACTIVE leases, a new one
\* has a later generation than any before it, and no stale heartbeat shortens
\* one.
IsLeaseAuthority == Authority!Spec
=============================================================================
