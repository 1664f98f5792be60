# TLA+ verification of the DW-SuperApps task controller and run observatory

DW-SuperApps is a host-neutral control workspace for AI "Powers". Its core is
`taskcontroller/`: a Controller that hands bounded pieces of work to Executors,
over durable stores and mailboxes, and must survive late, lost, duplicated and
out-of-order answers, dead processes and replaced leases.
`projects/dw-observation/` is the web console that follows such a run live and
replays it. This directory holds TLA+ models of both, the TLC configurations that
check them on small instances, and TLAPS proofs of the main properties for every
instance.

`PROJECT.json` maps every definition to the lines it models, lists the runs, the
seeded faults each property detects, the findings, the hazards and the theorems.

## 1. Inventory of the system

Modelled components (sources under `taskcontroller/`, the last two under
`projects/dw-observation/`):

| Component | State | Operations | What makes it hard | Correct when |
|---|---|---|---|---|
| StateStore (`runtime/store.py`) | versioned run, per-run journal, dedupe keys and stream watermarks | `get_run`, `put_run` (compare-and-swap on the version), `journal_append`, `dedupe_put`, watermark save, `sync_journal_position` | each call is atomic, a service makes several; `sync_journal_position` writes without a new version | a matching version means the caller holds the stored run |
| LeaseManager (`runtime/lease.py`) | leases, attempt records and node lease references inside the run | `grant` (with detachment of the old lease), `release`, `renew`, `revoke`, `expire` | re-reads between its commits; stale heartbeats; expiry of a replaced lease | one ACTIVE lease per attempt, generations and expiries never move back, late expiry harmless |
| EventRouter (`runtime/event_router.py`) | cursor, node statuses, dedupe mirror | `route` | dedupe and sequence state is written after the commit | an event is accepted once, in order, and only under the current lease and token |
| Kernel tables (`kernel/transitions.py`) | none | `validate_node_transition` | - | nodes only move along the table |
| Checkpoint, journal, recovery (`runtime/checkpoint.py`, `journal.py`, `recovery.py`) | checkpoint snapshots | `build_checkpoint_snapshot`, `replay_records`, `recover_from_checkpoint` | a crash between any two store calls; replay has reducers of its own | replay gives the live run, no event is accepted again |
| Wakeup outbox (`controlplane/wakeup_outbox.py`) | intents with state and count, attempt rows | `create_intent`, `record_delivery_attempt`, `prepare_retry`, `deliver_with_retry` and its fallback | concurrent workers, a crash between callback and record, reads made before a transaction | log and summary agree, nothing is invented, DELIVERED is final, every intent settles |
| Controller session v2 (`runtime/high_integrity_session.py`, `controlplane/continuation_dispatch.py`, `mailbox_dispatch.py`, `result_resume.py`) | the durable continuation | materialize, event and poll resume, recover, authority guard, successor qualification | a crash between any two durable writes; specs run late or twice; results of replaced attempts | persist before dispatch, continuation only moves forward, every interrupted dispatch can be redone, polling ends |
| Dispatch ledger (`runtime/dispatch_ledger.py`) | prepared slots, committed requests | `prepare`, `dispatch`, `reconcile` | mailbox write without a committed record | a committed request is in the mailbox at its slot |
| Mailboxes and continuation store (`interaction/mailbox_repository.py`, `github_mailbox_v2.py`, `github_continuation_store.py`) | append-only events, monotone actor cursors, newest continuation | append, acknowledge, save with forward-only `updated_at` | a cursor acknowledged before its event is consumed | what was scanned is consumed |
| Terminal race (`controlplane/terminal_race.py`) | the race state: generation, cursor, committed winner | `resolve_terminal_race`, `commit_terminal_race` | signals in any order and repeatedly; a decision is committed after the state it was made on has moved | one current winner, the best one seen, the same for all who saw the same |
| Fan-out coordinator (`execution/fanout.py`) | an immutable snapshot: joined completions, generation, child attempts, stale evidence | `complete`, `retry_child`, `dispatch_window`, `join` | completions of replaced attempts and generations arrive late, those of the next one early | only current results join, evidence is kept, a waiting join has an open child |
| Live projection (`lib/live.ts`, `useLiveProjection.ts`, `supabaseRealtime.ts`) | listed events, high-water marks, anomalies, readiness latches, buffers | `bootstrap`, `resync`, `handleStatus`, `reconnectResync`, `receiveLive`, unmount | frames are lost, late, repeated; reads overlap, settle out of order and fail; every `await` is an interleaving point | the list is the durable log, holes are flagged, catching up ends |
| Replay and review (`lib/replay.ts`, `reviewIntelligence.ts`) | replay mode and cursor over the event list | `appendLive`, `rewindTo`, steps, `resumeLive`; reducer, recoveries | two ledgers with numbers and clocks of their own, either of which may be missing; events before the cursor | resuming loses nothing, anomalies tell clean from unclean, gates and recoveries agree |

Interaction: LeaseManager and EventRouter are called by controllers and adapters
and share nothing but the StateStore. Recovery reads the same store and journal.
The v2 session persists its continuation, writes a request to the Controller's
mailbox through the dispatch ledger, and waits for events in the Executor's
mailbox; Executors see a request only once it is in the mailbox. The outbox only
delivers pointers ("wake up and read your mailbox"). The terminal race and the
fan-out are pure libraries: a caller keeps their state, feeds them signals and
completions and stores the outcome. The console reads rows that the runtime's
projection commits to Postgres, and gets the same rows once more by Broadcast.

## 2. Modules

| Module | Models |
|---|---|
| `KernelTransitions` | node transition table, terminal run statuses |
| `RunRuntime` | StateStore, LeaseManager, EventRouter; with one caller it implements `LeaseAuthority` |
| `LeaseAuthority` | abstract: what a lease manager promises |
| `RunRecovery` | extends `RunRuntime` with checkpoint, replay and recovery |
| `WakeupOutbox` | the outbox database and its delivery processes |
| `ControllerSession` | v2 session, ledger, mailboxes, continuation store, executor entry point |
| `TerminalRace` | terminal race, resolved and committed by several controllers |
| `FanoutCoordinator` | fan-out coordinator under any completions and retries |
| `DurableView` | abstract: what a read-only view of a durable log promises |
| `LiveProjection` | live client, transport and table; implements `DurableView` |
| `ReplaySession` | reducer, timeline, session and review metrics |
| `MCRunRuntime`, `MCRunRecovery`, `MCWakeupOutbox`, `MCTerminalRace`, `MCFanoutCoordinator`, `MCReplaySession` | events, model values and symmetry for TLC (`ControllerSession` and `LiveProjection` need none) |
| `RunRuntimeProofs`, `OneCallerProofs`, `WakeupOutboxProofs`, `ControllerSessionProofs`, `TerminalRaceProofs`, `FanoutCoordinatorProofs`, `LiveProjectionProofs`, `ReplaySessionProofs` | theorems (`OneCallerProofs` also covers `RunRecovery`) |

### RunRuntime

`run` is the stored `VersionedRunState`; `journal`, `keys` and `wm` are the
store's journal and dedupe sidecar. Each caller has the snapshot it works on
(`snap`), the store call its service makes next (`pc`) and the record it still
has to write (`work`). One step is one StateStore call, because that is the unit
the store makes atomic: `InMemoryStateStore` is an object shared by its callers,
and the compare-and-swap contract is written for stores shared by processes. The
first step of a service (`Grant`, `GrantDetach`, `Release`, `Renew`, `Revoke`,
`Expire`, `Route`) does all its validation and its first `put_run`; a call that
raises before that changes nothing and is not a step. The remaining store calls
are `DetachSync`, `DetachRead`, `DetachAppend`, `DetachAppendSync`, `Register`,
`RegisterSync`, `RegisterRead`, `JournalAppend`, `FinalSync`, `DedupePut`,
`SaveStreamWatermark`, in the code's order. Reasons, provider references and
payloads are left out. `now` in a service call is any instant: the code takes it
from its caller. The state has two cursors, as in the code: `cursor` is the meta's
`event_cursor`, `last` is `TeamRunState.last_event_cursor`, which a grant
(`lease.py:843-849`) and the expiry of a current lease (`lease.py:689-695`) drop.
Two places are coarser than the code: `DedupePut` takes the two `dedupe_put` calls
of `event_router.py:204-205` as one step, and `CurrentGeneration` takes the latest
of an attempt's ACTIVE leases where `lease.py:250-261` takes the first in dict
order, which differs only once an attempt has two (`rt_two_active`).

### RunRecovery

`TakeCheckpoint` builds a snapshot between service calls; `Recover` is a crash of
the callers at any point followed by `recover_from_checkpoint` into a fresh
store. Replay (`ReplayRecords`) folds `ApplyRuntimeRecord` over the journal with
the reducers of `journal.py`, which are not those of the live services. `accepted`
is a history of the committed events. `journal.py:16-18` promises a rebuilt run,
attempts and current lease included; the reducers do less. `ReplayFaithful` is
about what they rebuild (`Essence`), `ReplayNeverAhead` about everything else:

| Left to `ReplayNeverAhead` | Live | Replay |
|---|---|---|
| a lease's expiry | `renew` extends it | no branch for `renew` records (`journal.py:246`) |
| generations of leases and attempts | set by `grant` | grant records carry none (`journal.py:264-301`) |
| `current_lease_id` of an attempt | kept by `release` and `revoke` (`lease.py:387-392`) | cleared (`journal.py:323-328`) |
| `active_leases` | keeps an ended lease | removes it (`journal.py:313`) |
| the attempt's status | LEASE_EXPIRED on expiry (`lease.py:707`) | kept |
| `last_event_cursor` | dropped by `grant` and `expire` | kept (`journal.py:243`, `340`) |

`Essence` still compares the part of the bindings that is in force: which ACTIVE
leases are listed active, and which ACTIVE lease holds which attempt.

### WakeupOutbox

`state`, `count` and `attempts` are the two tables. One step is one read of the
database, one `BEGIN IMMEDIATE` transaction or one delivery callback; a worker
keeps what it read in `job`. A worker may crash between any two steps. `woken` is
a history: the intents whose recipient accepted the pointer.

### ControllerSession

One Controller writer, as the GitHub stores declare (`single_writer_required`).
Its process runs one command at a time and may die between any two durable
writes; it keeps nothing else. `Begin` persists the continuation of a
materialization spec, then `Prepare`, `Write`, `Commit` and `Acknowledge` go
through ledger and mailbox. `ResumeScan` selects an event and acknowledges the
cursor, `ResumePersist` saves the continuation. `Recover`, `Reconcile` and
`ResumeExpired` are the other commands. Executors (`Bootstrap`, `Report`), the
lease issuer, the clock and the host that writes specs are the environment. There
is one spec per controller sequence, commands take the durable cursor, and all
events of the run have its correlation id. Document validation, digests and the
GitHub comment format are abstracted to equality of the values they protect.
`resume_controller_v2` compares events with an `expected_identity` its caller passes
(`high_integrity_session.py:614`, `654`); the caller is taken to pass the identity of
the attempt the continuation waits for, so `OnlyCurrentAttempt` is about such callers.
`StrictClock` says whether a resume observes a later instant than the last
update; the code does not require it.

One behaviour is worth knowing: an event that an Executor writes while the
session waits for the Controller makes the qualification of the next request fail
closed, because the mailbox tail has moved.

### TerminalRace

`race` is the current `TerminalRaceState`; each controller has the signals it
received (`inbox`) and the decision it holds (`held`). `Resolve` is
`resolve_terminal_race` on the state as it is now; `Commit` is
`commit_terminal_race` with that decision whenever the controller gets to it. The
code calls both pure functions from tests only, so the record that keeps the race
state, the arrival of signals, takeovers and the moving cursor are external.

### FanoutCoordinator

The variables are the fields of the immutable coordinator. An operation that
raises or returns the same snapshot is no step. `complete` is `Accept` or
`RecordStale`, `retry_child` is `Retry`; each also passes the checks of
`__post_init__` (`Constructible`), which are what rejects a bound completion that
follows unbound ones. Executors send any completion of any attempt at any time.
The caller is assumed to mint each attempt id for one generation and not to reuse
it, nor to go back to a former generation: the code only compares a retry with
the attempt it replaces. `retired` and `left` are histories.

### LiveProjection and DurableView

A row is its `projection_ordinal`. Everything asynchronous is a step: insert,
delivery, join and failure of the channel, and request, answer and settlement of
each `loadAll`. A browser callback runs to its end, so while it replays buffered
frames (`job`) nothing else runs; the continuation of `reconnectResync` is a
microtask (`tail`). Frames are lost, late or repeated (`Lossy`). A read
returns a prefix of the ordinals: rows are taken to become visible in ordinal order,
which concurrent transactions with identity ordinals do not guarantee. In
`DurableView` the view learns rows singly or reloads a prefix of the log; the
refinement maps `log` to the number of rows and `view` to the rows on screen
(`ShowsDurableLog`).

### ReplaySession

An event is any row: an ordinal, a source, a sequence and a time. Sequence and time
are the source's own; both are optional (`live.ts:19-34`), neither has to grow with
the ordinal, and a number may be used again (the table's index over it,
`sql/projection_events.sql:55`, is not unique). The table itself requires a time,
but the reducer is written for, and tested with, events that have none. Events are fed to the session in any
order and repeatedly while the user moves the cursor; an ordinal names one row.
A cursor is an integer: `clamp` truncates a fraction and takes 0 for what is not
finite (`replay.ts:348-349`) before it does what `Clamp` does. `GlobalDurableOrder`
is the stable sort by ordinal, as a fold of insertions; `ReduceEvents` folds the
reducer over the list. Both are recursive functions and not RECURSIVE operators,
so that they can be proved about. The recovery metric of `reviewIntelligence.ts` is
an operator over the same list, checked against what the replay shows.

## 3. Runs

Passing:

| Run | Instance | Shows |
|---|---|---|
| `rt_race` | 2 callers, 1 node, 1 attempt, 2 leases, 2 tokens, 3 events, 3 commits | a matching version means the stored run (`SnapshotCoherent`); an event commits only under an ACTIVE lease with its token (`FencedCommit`) |
| `rt_seq` | 1 caller, 2 attempts of one node, 2 leases, 2 instants, 4 commits, running and cancelled runs | `ActiveIsBound`, `EventOnce`, `JournalComplete`, `IsLeaseAuthority` (refinement of `LeaseAuthority`), `ExpiryFence` |
| `rec_serial` | 1 caller, 2 leases, 5 commits, crash anywhere | replay rebuilds statuses, leases in force, tokens, dedupe and watermarks (`ReplayFaithful`) and is never ahead in the rest (`ReplayNeverAhead`); no event is accepted twice over crashes (`AcceptedOnce`) |
| `wake` | 2 workers, 2 intents, one with a fallback, 2 attempts, 1 retry, 1 crash, fair | `SummaryMatchesLog`, `DeliveredWasTaken`, and for intents without fallback `AttemptsBounded` and `DeliveredIsFinal`; `EveryIntentSettles` |
| `cs_crash` | 2 requests, 7 instants, 2 executor events, 1 crash, leases of 3 | `PersistedFirst`, `CommittedInMailbox`, `CrashIsRetryable`, `ContinuationForward`, `OnlyCurrentAttempt` |
| `cs_live` | 2 requests, 5 instants, 1 executor event, 1 crash, fair | `PollingEnds` |
| `terminal` | 2 controllers, 7 signals, 2 deliveries each, 2 generations, 3 sequence numbers | `OneTerminalWrite`, `WinnerIsCurrent`, `AgreeOnWinner`, `NoBetterSeen` |
| `fanout` | 3 children in two waves, 3 attempts, 2 generations and none, another plan | `SupersededStaysOut`, `OneGenerationJoins`, `NoStuckWave`, `EvidenceKept` |
| `live` | 1 source, 3 rows, 2 reads at once, 2 joins, 1 failed read, lossy, fair | `ShowsDurableLog` (refinement of `DurableView`), `ShownOnce`, `HighWaterExact`, `HolesAreFlagged`, `CatchUpEnds`, `BufferDrains` |
| `replay` | 2 ledgers, 3 ordinals, 3 deliveries, sequences 0 to 2 or none, 2 instants or none, a gate that fails or passes | cursor within bounds (`TypeOK`), `ResumeUncorrupted`, `AnomaliesExact`, `GateFollowsLedger`, `ReviewAgreesWithReplay` |

The type invariants of the other modules are proved for every instance (section
4) and are not run again.

Violations, each a finding in `PROJECT.json`:

| Run | What the code does |
|---|---|
| `rt_two_active` | two concurrent grants of one attempt both end ACTIVE: `grant` works on a run re-read after its detach and does not look for an ACTIVE lease again |
| `cs_lost_late_progress` | progress scanned after the result makes the poll raise after the cursor was acknowledged: the result is never consumed |

Further disagreements seen while modelling, without a run of their own. Where a
definition is named, putting it in the cfg given reproduces the disagreement.

Runtime and control plane:

- `EventOnce` with `rt_race`'s constants (an event offered to both
  callers): the same event commits twice, because the dedupe keys are written
  after `put_run` (`event_router.py:204`).
- `ReplayRebuildsAll` with `rec_serial`'s constants: replay gives back the whole run
  (`journal.py:16-18`). It differs in every row of the table in section 2, already
  after one grant (no generation) or one renewal (the expiry of the grant).
- Intents with an approved fallback: a worker that read the intent before
  another one's fallback succeeded overwrites DELIVERED with BLOCKED, and each
  late worker appends one more fallback row (`wakeup_outbox.py:1012`). Without
  the exception for `HasFallback`, `DeliveredIsFinal` and `AttemptsBounded` fail
  in `wake`.
- `EveryCommitJournaled` with `rt_two_active`'s constants: a commit of another
  caller between a grant's `put_run` and its `sync_journal_position` makes the
  sync raise, and the committed grant never reaches the journal (`lease.py:885`).
- `GenerationNeverRegresses` with `rt_two_active`'s constants: a replacing grant
  overwrites a higher generation granted between its detach and registration.
- `BindingIsActive` with `rt_seq`'s constants: `release` and `revoke` leave the
  ended lease in the attempt's `current_lease_id` (`runtime_state.py:45` calls
  it the "ACTIVE lease").
- `JournalSurvives` with `rec_serial`'s constants: the recovered store's journal is
  empty although `journal.py:430` says it equals the source's.
- `SelectedIsConsumed` with `cs_lost_late_progress`'s constants, `RESULT_A` as the
  only kind, and `MaxCrashes = 1` (a crash between acknowledgement and save) or
  `StrictClock = FALSE` (a resume at the instant of the last update is refused by
  the store after the acknowledgement).
- `RestartSafe` with `cs_lost_late_progress`'s constants: progress that keeps the
  Controller waiting changes the checkpoint id, and recovery then rejects the
  session's own request.

- `terminal_race.py:464` says "deterministic for the same state and signal set";
  when no signal is eligible the evidence keeps its arrival order. A signal that
  reuses the id of the committed winner with other content is not reported as an
  idempotency conflict once that winner is committed.
- `retry_child` "without reusing the old identity" (`fanout.py:1395`) only
  compares with the current attempt: a1, a2, a1 is accepted, after which late
  results of the first a1 join. It also accepts a former generation.
- `retry_child` keeps the first stale record of a child and attempt and drops a
  different second one silently, where `_record_stale` raises. A completion sent
  without digests, accepted and then retried, raises `IDEMPOTENCY_CONFLICT` when
  it is delivered again, because its record has the digests filled in.
- On a coordinator not yet bound, naming the generation for the first time in a
  retry forgets the attempts of all other children (`fanout.py:1435`): a result
  of an attempt retried before may then join.

Observation console:

- `LiveIsComplete` in `live` with `Lossy = FALSE`: a row committed between
  bootstrap's read and the first SUBSCRIBED is in neither, and the view is LIVE
  without it (`live.ts:257`; `live.ts:137` says the buffering closes this window).
- `LiveMeansJoined` in `live`: a channel error while the reconnect's resync is
  awaited is overwritten by its continuation (`live.ts:284`).
- A gap's CATCHING_UP is overwritten to LIVE by the next frame in sequence; a
  frame handled while a resync is awaited disappears with the older snapshot, and
  an older read that settles last replaces a newer one; after a failed reconnect
  resync a further frame leaves the view CATCHING_UP for ever; after a failed
  bootstrap a reconnect makes the view LIVE while frames stay buffered.
- `LiveProjectionPane` gives the client the page's fixed snapshot as its store
  (`FixedStore = TRUE`): a resync rewinds the view and a gap never heals. Remounting
  the effect (React StrictMode) on a closed transport does not subscribe again.
- `NoFalseAlarm` in `replay`: an event without a time does not advance the high-water
  once there is one with a time (`replay.ts:183`, `211`, `231-239`), so (t1, 0),
  (no time, 1), (t2, 2) of one source raises a GAP at the third although nothing is
  missing. Times are optional (`live.ts:32`) and `reviewIntelligence.test.ts:107-113`
  feeds such events. `AnomaliesExact` therefore asks that a source that records times
  goes on doing so.
- `NothingHidden` in `replay`: a source that uses a number again behind an event
  without a time, such as (t1, 0), (no time, 1), (t1, 0), raises nothing, because
  the last event is compared with the first. `AnomaliesExact` asks that a number is
  given to one event.
- `GateFollowsOrder` in `replay`: with two ledgers a gate event of the second one
  with a lower sequence is ignored without an anomaly (`replay.ts:270`). A gate
  event without a sequence is ignored; an event inserted before a REPLAY cursor
  shifts what the cursor shows; a clean run without failures has no complete
  history.

The run-store races need callers that share one store. If a deployment serialises
all service calls per run, `rt_seq` and `OneCallerProofs` describe it.

### Bounds

Every bound is a constant. Two callers are enough for a race between two
services; two lease ids let a lease be replaced and an old one expire late, and
let ids be reused; `MaxVersion` bounds commits, and 3 (race), 4 (sequence) and 5
(recovery) leave room for grant, replacement (two commits), event and an ended
lease. Two workers let one crash or be late while the other delivers. Two requests let
a spec be replayed behind its successor; two executor events let a result and
late progress, two different results, or results of two attempts be scanned
together; `Ttl < MaxTime` lets leases expire before the clock stops. Two
deliveries to each of two controllers let them see the same signals in different
order, a duplicate, and one signal the other lacks. Two attempts of one generation
and one of the next let a child be retried twice and results come early and late;
three children in waves of two let a sibling fail and a finished wave be reopened.
Three rows are a gap with rows on both sides, two reads at once settle in either
order; a second source makes `live` too large for TLC and meets only its
own marks, and the theorems hold for any number of sources. Three events of two
ledgers are a duplicate, a step back, a hole, a missing time between two recorded
ones, or a failure with its recovery in between.
What the theorems cover does not depend on the bounds.

`CHECK_DEADLOCK FALSE` is set outside the run store: an outbox whose intents are
settled, a decided race, a READY fan-out, an unmounted or quiet console and a
session at the end of its bounds have nothing to do.

### Fairness

- `WakeupOutbox!FairSpec`: a worker that is delivering goes on
  (`WF(Deliver(w))`; `deliver_with_retry` is a loop that runs to its end unless
  the process dies, which is the bounded `Crash`), and an open intent is picked
  up (`WF` on `Start`; callers poll open intents).
- `ControllerSession!FairSpec`: a command runs to its end (`WF(Drive)`), time
  passes (`WF(Tick)`), and the host that resumes a polling session keeps doing so
  and redoes an interrupted dispatch, whatever other commands come in between
  (`SF(Resume)`, `SF(Redo)`). Executors are not assumed to answer, nor the lease
  issuer to renew: the wait must then end at the authority boundary.
- `LiveProjection!Spec`: the browser's event loop runs the callbacks and
  microtasks that are due, and a `loadAll` is answered or fails (`WF` on
  `ReplayFrame`, `ReconnectTail`, `StoreRead`, `LoadDone` or `LoadFail`). No
  fairness of frames, joins or inserts: nothing has to arrive.
- The terminal race, the fan-out and the replay session are calls of their user,
  with no liveness of their own.
- The run store has no liveness: its services are synchronous calls.

## 4. Proofs

All theorems hold for every value of the constants that satisfies the named
assumptions of the modules (types of the constants, `None` values different from
real ones).

**`RunRuntimeProofs`** (any number of callers). The inductive invariant is
`TypeOK /\ PendingOK /\ SnapshotCoherent`. `SnapshotCoherent` alone is not
inductive: the middle of a grant registers a lease over a run it read two steps
ago, so `PendingOK` records, per program point, what the pending work knows (a
well-formed record, and for the grant's points which lease is to be registered).
`sync_journal_position`, which changes the run without a new version, is the
reason coherence is stated up to `journal_position`. From the invariant:
`TypeCorrect`, `CasSound` (`SnapshotCoherent`), `FencingSound` (`FencedCommit`),
`ReducerAuthority` (`LegalNodeStep`), `LateExpiryHarmless` (`ExpiryFence`).

**`OneCallerProofs`** (assumes a single caller; `RunRuntime` and `RunRecovery`).
The invariants build on each other:

- `OneInv` gives `ReplacementDetaches`: an ACTIVE lease is the one its attempt is
  bound to. Its strengthening `Detached` says that between detach and registration
  the attempt has no ACTIVE lease at all; with two callers that is exactly what
  fails (`rt_two_active`).
- `SoloInv` adds what nobody else disturbs: a call in the middle finds the run as
  it left it (`Undisturbed`), and the store's dedupe keys and watermarks are the
  run's except for the event being written at that moment (`Mirrored`). It gives
  `SidecarsAgree`.
- `LogInv` adds that the journal is one record short exactly while a commit waits
  for its record (`Counted`), that every journaled event is in the keys or is the
  one whose keys are still to be written (`JournalSeen`) and that a pending event
  is new (`PendingNew`). It gives `AcceptedInOrder` (`EventOnce`) and
  `OneRecordPerCommit` (`JournalComplete`).
- `GenInv` adds that a grant which has detached the old lease is still ahead of its
  attempt's generation, although it compared them before the detachment. It gives
  `GenerationsAdvance`.
- `AuthorityInv` adds that the lease a detached grant is going to register is ACTIVE
  and within the generations. It gives `ImplementsAuthority` (`IsLeaseAuthority`):
  the initial run maps to an authority without holders; release, revoke, expire and
  the detachment of a grant map to `End`, renew to `Extend`, the registration of a
  lease to `Issue`, and every other store call to no step. A replacing grant is
  therefore two steps of the authority, with a moment in between in which nobody
  holds the attempt.
- `AcceptInv`, over `RecSpec`, says that the keys of every accepted event are in the
  run itself: that, and not the store's sidecar, is what survives a crash between
  the commit and the sidecar's writes. It gives `ExactlyOnce` (`AcceptedOnce`).
- `ReplayInv` says what replaying the journal gives at every program point and not
  only between calls: the live run, or the live run as it was before the commit
  whose record is still to be written, in which case that record applied to it
  gives the live run (`Rebuilt`, `Expected`). Runs are compared by `Alike`, which
  leaves out what replay does not keep (the table in section 2). It needs one lemma per record type that
  `journal.py`'s reducer and the live service do the same (`GrantAlike`,
  `DetachAlike`, `EndAlike`, `RenewAlike`, `EventAlike`).
- `BehindInv` adds the same for what replay leaves out: at every program point the
  replayed run, with the record under way applied to it, trails the live one
  (`Trails`): leases, attempts, `active_leases` and `last_event_cursor` each differ in
  one direction only. Two facts of the live run are needed: every ACTIVE lease is
  listed in `active_leases` (`Listed`), and a grant in its middle is ahead of its
  attempt (`GenerationAhead`), because replay keeps the attempt's old generation, which
  the registration must not undercut. It gives `ReplayRebuilds` (`ReplayFaithful`: the
  part in force is the same in both) and `ReplayLags` (`ReplayNeverAhead`).
  `OneRecordPerCommit`, `SidecarsAgree`, `ReplayRebuilds` and `ReplayLags` also assume
  that there is a caller: they speak of states in which no call is under way.

**`WakeupOutboxProofs`** (any number of workers, crashes, retries). The invariant
adds `NumbersHeld` (a worker never holds a number beyond the next free row) and
`AcceptedIsTaken` to the properties; from it `OutboxTypes`, `SummarySound` and
`NoFalseDelivery`. `DeliveryFinal` and `DeliveryBounded` are about the intents
without an approved fallback, whatever other intents there are; the first rests on
`HeldIsStale`: once such an intent is DELIVERED, every number a worker still holds
is already used, so its record is refused.

**`ControllerSessionProofs`** (any number of requests, events, crashes, instants).
The invariant is `TypeOK /\ SpecOK /\ ContOK /\ LedgerOK /\ RetryOK /\ PersistOK`:
a spec the store would still accept is the direct successor of the durable
continuation; all requests before the current one are in the mailbox; a prepared
slot belongs to a request already persisted; a waiting request that is not in the
mailbox has an unchanged checkpoint and a slot at the mailbox's end; and between
the two writes of a resume its target is a valid successor of the continuation.
From it: `SessionTypes`, `PersistBeforeDispatch`, `LedgerSound`,
`DispatchRetryable`, and the action properties `SessionForward` and
`AttemptFenced`.

**`TerminalRaceProofs`** (any controllers, signals, deliveries, generations). The
invariant is `TypeOK /\ HeldIsBest /\ OneTerminalWrite /\ WinnerIsCurrent`.
`HeldIsBest` is the strengthening: a held decision was made from a prefix of the
inbox, and its winner comes before every resolved signal of the same execution
that is newer than the cursor, although the state it was resolved on may be gone.
That a set of signals without conflicting ids has a first one uses the
well-foundedness of the naturals. From it: `RaceTypes`, `OneWinner`,
`CurrentWinner`, `SameWinner`, `BestWins`.

**`FanoutCoordinatorProofs`** (any plan, children, attempts, generations). The
invariant is `TypeOK /\ OneGenerationJoins /\ JoinedIsBound /\ Retirement`. That
late results stay out is not inductive alone: `Retirement` says that what is bound
or retired was minted for the present or a former generation, and that a child
with a retired attempt of the present generation is bound to another one, so the
only way to forget a binding, a new generation, also makes the old attempts
foreign. From it: `FanoutTypes`, `NoLateJoin`, `JoinIsCurrent`, `EvidenceStays`;
`WaveOpen` takes the first stage with a missing child.

**`LiveProjectionProofs`** (any sources, rows, reads, joins). The invariant is
`TypeOK /\ Numbered /\ ShownOnce /\ HighWaterExact /\ HolesAreFlagged /\
UnreadyIsLoading /\ CatchUpIsPending`: sources number their rows without holes, a
hole on screen needs the mark to be exact to be noticed, and the mark is exact only
because resync replaces it together with the list. From it: `LiveTypes`,
`NoDuplicates`, `MarksExact`, `HolesFlagged`, `CatchUpPending` and the refinement
`ImplementsDurableView`: the initial state maps to an initial state of
`DurableView`, and each step to `Commit`, `Learn`, `Reload` or a stutter.

**`ReplaySessionProofs`** (any sources, kinds, events, instants). The invariant
`SessionInv` says that the list is the sort of what was fed and that a LIVE cursor is
at its end. `ResumeIsUncorrupted` rests on the sort: inserting into the sorted list
one event at a time gives the sort of all of them (`SortAppend`, `SortOrdered`). The
others are inductions over the list, with an invariant of the reducer's frames.
`AnomaliesAreExact` has one for each direction. As long as there is no anomaly, no
time of a source is past its high-water, whose sequence is that of the source's last
event or, where events without a time did not advance it, the one before (`Tails`);
an event that then raises nothing fits its ledger, because a number that is used once
cannot be the one before (`Unalarmed`). And on a clean list whose sources go on
recording times the high-water is exactly the last event (`HighWater`), so the next
one raises nothing (`Alarmless`). `GatesFollowLedgers` needs that on a clean list the
sequences of a ledger grow (`CleanGrows`), so that a gate shows the last of its events
so far (`GateHere`); `ReviewAndReplayAgree` follows from it. `SessionTypeCorrect` is
the type invariant.

**Induction over data.** The library's induction theorems take an operator as a
parameter, which the provers cannot instantiate. Both modules that need induction
derive a form with a set instead (`NatSetInduction`: a set that has 0 and is closed
under successor has every natural) from the well-foundedness of the naturals. A
fold is then handled by its list of intermediate values: one exists, it is unique,
and it only depends on the prefix (`UnfoldExists`, `UnfoldUnique`, `ReplayAppend`;
`ChainExists`, `ChainUnique`, `ReduceIs`, `SortIs`).

## 5. Only model-checked

Liveness (`EveryIntentSettles`, `PollingEnds`, `CatchUpEnds`, `BufferDrains`) is
outside what TLAPS proves here. Every other property of the passing runs is also
proved.

## 6. Abstractions to keep in mind

- Names, payloads, digests and timestamps are members of small sets; equality of
  digests is equality of what they cover.
- One run, one mailbox pair, one outbox database. Runs share no state.
- An attempt determines its node and execution, as in the attempt registry.
- SQLite transactions and single StateStore calls are atomic; a GitHub comment is
  either created or not.
- The stores do not lose what they acknowledged.

## 7. Not modelled

`PROJECT.json` gives the reason for each component. In short:

- Most lines of JavaScript and TypeScript in the repository are the Storybook
  bundles under `projects/dw-observation/storybook-static` (some 62,000 generated
  lines of third-party code) and the fixture of one recorded run; neither is the
  program's logic. Of the hand-written console, the live client, the replay and
  the review carry the behaviour; pages, cards, graph layout and players draw what
  they are given, server reads are one paged SELECT, and the backfill script maps
  archived runs to rows once.
- Request compilation, execution boundary, admission, routing and standards are
  stateless checks of documents. The MVP pilot, projections, synthesis pipeline and
  certification harness format and gather evidence. `scripts/` packages and
  installs in one process.
- Still open: cancellation, takeover and retry as callers of `RunRuntime` together
  with the generation fence; the fan-out manifest (`execution/manifest.py`); the v1
  controller session and crash-recovery binding; the external action ledger and
  audit writer; kernel control intents and the DAG; two writers on the GitHub
  mailbox, outside its declared single-writer use.

## 8. Running

    tlc -config MCRunRuntime_race.cfg MCRunRuntime
    tlc -config ControllerSession_crash.cfg ControllerSession
    tlc -config LiveProjection.cfg LiveProjection
    tlapm FanoutCoordinatorProofs.tla

Each run of `PROJECT.json` names its module and cfg. The slowest are `cs_crash`
(about 2.9 million states), `replay` (1.8 million) and `fanout`, some two minutes
each; the proofs take some minutes from nothing.
