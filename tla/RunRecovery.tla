----------------------------- MODULE RunRecovery -----------------------------
(***************************************************************************)
(* Checkpoint and crash recovery of a run: checkpoint.py builds a snapshot *)
(* of the stored run, journal.py replays the RuntimeRecords after it with  *)
(* pure reducers, and recover_from_checkpoint moves a run whose caller     *)
(* died into a fresh target store.  The live services are RunRuntime's.    *)
(***************************************************************************)
EXTENDS RunRuntime

CONSTANT NoRun      \* None

VARIABLES ckpt,     \* the last CheckpointSnapshot of this store, or NoRun
          accepted  \* history: the events committed, across recoveries

recVars == <<vars, ckpt, accepted>>

RecInit == Init /\ ckpt = NoRun /\ accepted = <<>>
-----------------------------------------------------------------------------
(* checkpoint.py                                                           *)

\* Mutant: only the store's sidecar goes into the checkpoint.
Snapshot_StoreOnly(rs) ==
  [rs EXCEPT !.seen = keys, !.stream = wm, !.jp = LastRecordIndex]

\* build_checkpoint_snapshot of the run rs: the store's dedupe sidecar merged
\* over the mirror in the run's meta, and the journal's last record index.
Snapshot(rs) ==
  [rs EXCEPT !.seen = [k \in Keys |-> IF keys[k] = NoEvent THEN rs.seen[k] ELSE keys[k]],
             !.stream = [a \in Attempts |-> IF wm[a] = 0 THEN rs.stream[a] ELSE wm[a]],
             !.jp = LastRecordIndex]

\* A checkpoint is built between service calls.
TakeCheckpoint ==
  /\ Quiescent
  /\ ckpt' = Snapshot(run)
  /\ UNCHANGED <<vars, accepted>>
-----------------------------------------------------------------------------
(* journal.py: the pure reducers.                                          *)

\* _apply_event_record: live acceptance is not run again, and a transition
\* that is not in the table is skipped.
ReplayEvent(rs, e, version) ==
  LET cur == rs.node[e.node].status
      to  == CASE e.type = "COMPLETED" /\ rs.status \notin RunTerminal /\ cur = "RUNNING"
                    -> "REVIEWING"
               [] e.type = "STATUS_CHANGE" /\ e.target # "DONE"
                    /\ ValidNodeTransition(cur, e.target) -> e.target
               [] OTHER -> cur
  IN  [rs EXCEPT !.version = version,
                 !.node[e.node].status = to,
                 !.seen = [k \in Keys |-> IF k \in DedupeKeys(e) THEN e ELSE rs.seen[k]],
                 !.stream[e.att] = e.seq + 1,
                 !.cursor = e,
                 !.last = e]

\* A grant record has no lease_generation: the lease gets None (which counts
\* as 0) and the attempt keeps the generation it had.  The state dictionary is
\* copied whole, so last_event_cursor stays.
ReplayGrant(rs, l, lease, version) ==
  LET leases == [rs.leases EXCEPT ![l] = [lease EXCEPT !.gen = 0]]
  IN  [rs EXCEPT !.version = version,
                 !.leases = leases,
                 !.active = {k \in LeaseIds : leases[k] # NoLease /\ leases[k].status = "ACTIVE"},
                 !.node[NodeOf[lease.att]].lease_ref = l,
                 !.attempt[lease.att].lease = l,
                 !.attempt[lease.att].token = lease.token]

EndStatus(op) ==
  CASE op \in {"release", "detach"} -> "RELEASED"
    [] op = "revoke" -> "REVOKED"
    [] op = "expire" -> "EXPIRED"

\* A "detach" record changes the lease only; a "renew" record changes nothing
\* but the version.
ReplayDetach(rs, l, version) ==
  [rs EXCEPT !.version = version,
             !.leases[l] = IF @ = NoLease THEN @ ELSE [@ EXCEPT !.status = "RELEASED"]]

\* Mutant: the replayed expiry leaves the node alone.
ReplayEnd_NoNode(rs, rec) ==
  LET a == rec.lease.att
  IN  [rs EXCEPT !.version = rec.version,
                 !.leases[rec.lid] = IF @ = NoLease THEN @
                                     ELSE [@ EXCEPT !.status = EndStatus(rec.op)],
                 !.active = @ \ {rec.lid},
                 !.attempt[a].lease = IF @ = rec.lid THEN NoLease ELSE @]

\* release, revoke and expire: the lease ends and is unbound.
ReplayEnd(rs, rec) ==
  LET a == rec.lease.att
  IN  [rs EXCEPT !.version = rec.version,
                 !.leases[rec.lid] = IF @ = NoLease THEN @
                                     ELSE [@ EXCEPT !.status = EndStatus(rec.op)],
                 !.active = @ \ {rec.lid},
                 !.node[NodeOf[a]].status =
                    IF rec.node_status = "NONE" THEN @ ELSE rec.node_status,
                 !.attempt[a].lease = IF @ = rec.lid THEN NoLease ELSE @]

\* apply_runtime_record; every record advances journal_position to its index.
ApplyRuntimeRecord(rs, rec, i) ==
  LET new == CASE rec.op = "event"  -> ReplayEvent(rs, rec.event, rec.version)
               [] rec.op = "grant"  -> ReplayGrant(rs, rec.lid, rec.lease, rec.version)
               [] rec.op = "detach" -> ReplayDetach(rs, rec.lid, rec.version)
               [] rec.op = "renew"  -> [rs EXCEPT !.version = rec.version]
               [] rec.op \in {"release", "revoke", "expire"} -> ReplayEnd(rs, rec)
  IN  [new EXCEPT !.jp = i - 1]

\* replay_records over the records of j with record_index > base.jp, in order.
ReplayRecords(j, base) ==
  LET upTo[i \in (base.jp + 1)..Len(j)] ==
        IF i = base.jp + 1 THEN base ELSE ApplyRuntimeRecord(upTo[i - 1], j[i], i)
  IN  upTo[Len(j)]

Replayed(base) == ReplayRecords(journal, base)

\* The callers die, wherever their calls are, and recover_from_checkpoint
\* carries the run into a fresh target store.  It takes its checkpoint from
\* the source there and then, so the records left to replay are none; the
\* target's journal starts empty.
Recover ==
  LET new == Replayed(Snapshot(run))
  IN  /\ run' = new
      /\ keys' = new.seen
      /\ wm' = new.stream
      /\ journal' = <<>>
      /\ pc' = [c \in Callers |-> "idle"]
      /\ snap' = [c \in Callers |-> new]
      /\ work' = [c \in Callers |-> NoWork]
      /\ ckpt' = NoRun
      /\ UNCHANGED accepted
-----------------------------------------------------------------------------
\* A step of the live services, with the history of the events they commit.
Live ==
  /\ Next
  /\ accepted' = IF \E c \in Callers : EventCommits(c)
                 THEN Append(accepted, run'.cursor) ELSE accepted
  /\ UNCHANGED ckpt

RecNext == Live \/ TakeCheckpoint \/ Recover

RecSpec == RecInit /\ [][RecNext]_recVars
-----------------------------------------------------------------------------
\* The lease an attempt holds: the one its record names, while it is ACTIVE.
HolderOf(rs, a) ==
  LET l == rs.attempt[a].lease
  IN  IF l # NoLease /\ IsActive(rs, l) /\ rs.leases[l].att = a THEN l ELSE NoLease

\* What replay rebuilds of a run: the version, the run and node statuses, which
\* lease has which status, token and attempt, which of them is in force for
\* whom, the fencing tokens, the dedupe fingerprints, the watermarks and the
\* meta's cursor.  ReplayNeverAhead is about everything else.
Essence(rs) ==
  [version |-> rs.version, status |-> rs.status, node |-> rs.node,
   leases  |-> [l \in LeaseIds |->
                  IF rs.leases[l] = NoLease THEN <<>>
                  ELSE <<rs.leases[l].att, rs.leases[l].token, rs.leases[l].status>>],
   active  |-> {l \in rs.active : IsActive(rs, l)},
   holder  |-> [a \in Attempts |-> HolderOf(rs, a)],
   token   |-> [a \in Attempts |-> rs.attempt[a].token],
   seen |-> rs.seen, stream |-> rs.stream, cursor |-> rs.cursor]

\* Replay fidelity (journal.py replay_records): whenever no call is under way,
\* replaying the journal over any earlier checkpoint gives the live run, as
\* far as node statuses, lease statuses, the leases in force, fencing, dedupe
\* and the journal position (once there is a record: a new run's position is
\* 0) go.
ReplayFaithful ==
  Quiescent /\ ckpt # NoRun =>
    /\ Essence(Replayed(ckpt)) = Essence(run)
    /\ journal # <<>> => Replayed(ckpt).jp = run.jp

\* The rest of the run is not rebuilt, but what replay leaves there errs on
\* one side only.  Replay takes no expiry from a "renew" record and finds no
\* generation in a grant record, so a lease never lasts longer than the live
\* one and no generation is later; an ended lease is unbound and taken off
\* active_leases, where the live run may still name it; an attempt's expiry is
\* not replayed; and last_event_cursor survives a grant or an expiry that
\* dropped it in the live run.
ReplayNeverAhead ==
  Quiescent /\ ckpt # NoRun =>
    LET rs == Replayed(ckpt)
    IN  /\ \A l \in LeaseIds : Held(rs, l) =>
             /\ rs.leases[l].expires <= run.leases[l].expires
             /\ rs.leases[l].gen <= run.leases[l].gen
        /\ \A a \in Attempts :
             /\ rs.attempt[a].gen <= run.attempt[a].gen
             /\ rs.attempt[a].lease \in {run.attempt[a].lease, NoLease}
             /\ run.attempt[a].status \in {rs.attempt[a].status, "LEASE_EXPIRED"}
        /\ rs.active \subseteq run.active
        /\ run.last \in {rs.last, NoEvent}

\* Exactly-once across crashes: no event id or idempotency key is committed
\* twice, even when the caller dies between route's put_run and its writes of
\* the dedupe sidecar and the run is recovered in between.
AcceptedOnce ==
  \A i, j \in DOMAIN accepted :
    i < j => DedupeKeys(accepted[i]) \cap DedupeKeys(accepted[j]) = {}

\* journal.py: "Replay reconstructs BOTH canonical state and runtime sidecars
\* (attempts/leases/current-lease/fencing, ...) from the records alone", that
\* is, all of the run.
ReplayRebuildsAll ==
  Quiescent /\ ckpt # NoRun => [Replayed(ckpt) EXCEPT !.jp = run.jp] = run

\* recover_from_checkpoint: "journal in target stays equal to source's
\* (untouched)", so the journal only grows.
JournalSurvives ==
  [][Len(journal') >= Len(journal) /\ SubSeq(journal', 1, Len(journal)) = journal]_recVars
=============================================================================
