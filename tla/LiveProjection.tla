--------------------------- MODULE LiveProjection ---------------------------
(***************************************************************************)
(* The observation console's live view of one run: the browser client      *)
(* LiveProjectionClient (lib/live.ts), its React binding                   *)
(* (lib/useLiveProjection.ts) and the Supabase Broadcast transport         *)
(* (lib/supabaseRealtime.ts), against the durable table projection_events  *)
(* whose insert trigger broadcasts every row.                              *)
(*                                                                         *)
(* Everything asynchronous is a step of its own: a row is inserted, its    *)
(* frame is delivered late, twice or never, the channel joins and fails,   *)
(* and each loadAll is requested, read by the store and settled, with      *)
(* anything in between and in any order among several.  A callback of the  *)
(* browser runs to completion: while `job' holds frames that bootstrap or  *)
(* resync replays, no other callback runs; and the continuations of        *)
(* reconnectResync in `tail' are microtasks, before which another settled  *)
(* loadAll may still be handled but no new frame or channel status.        *)
(*                                                                         *)
(* A row is its projection_ordinal, its position in `rows'.  The client's  *)
(* list of events is kept as the number of copies of each row in it: every *)
(* row has an ordinal, and globalDurableOrder puts the list in ordinal     *)
(* order whenever it changes.                                              *)
(***************************************************************************)
EXTENDS Integers, Sequences, FiniteSets

CONSTANTS
  Sources,     \* source systems, each with a ledger of its own
  MaxRows,     \* bound: rows inserted in all
  MaxLoads,    \* bound: loadAll calls under way at once
  MaxJoins,    \* bound: successful joins of the channel
  MaxFails,    \* bound: loadAll calls that fail
  MaxBuffer,   \* bound: frames buffered before bootstrap completes
  FixedStore,  \* TRUE: loadAll answers from the page's server snapshot
  Lossy        \* TRUE: a broadcast to a joined channel may be lost

ASSUME SourcesAssumption == Sources # {}
ASSUME BoundsAssumption ==
  /\ MaxRows \in Nat
  /\ MaxLoads \in Nat \ {0}
  /\ MaxJoins \in Nat
  /\ MaxFails \in Nat
  /\ MaxBuffer \in Nat
ASSUME FlagsAssumption == FixedStore \in BOOLEAN /\ Lossy \in BOOLEAN

VARIABLES
  rows,      \* projection_events: the run's rows in projection_ordinal order
  ledger,    \* per source, the sequence number it gives out next
  page,      \* rows in the server snapshot the page came with (FixedStore)
  chan,      \* state of the Broadcast channel
  net,       \* frames on their way to the client
  load,      \* loadAll calls under way
  state, shown, highWater, anomalies,
  durableReady, transportReady, hasConnected, bootstrapped, buffer,
  job,       \* frames the running bootstrap/resync has still to replay
  tail,      \* reconnectResyncs due to go on, with what resync answered
  joins, fails   \* counters of the bounds

storeVars  == <<rows, ledger, page>>
latchVars  == <<durableReady, transportReady, hasConnected>>
countVars  == <<joins, fails>>
vars == <<rows, ledger, page, chan, net, load, state, shown, highWater,
          anomalies, durableReady, transportReady, hasConnected,
          bootstrapped, buffer, job, tail, joins, fails>>

NoSeq    == -1          \* a row without a source sequence
BadFrame == 0           \* a frame receiveLive rejects: malformed, another run
Ordinals == 1 .. MaxRows
Frames   == {BadFrame} \cup Ordinals
LoadIds  == 1 .. MaxLoads

LiveStates == {"UNAVAILABLE", "LIVE", "CATCHING_UP", "PROJECTION_UNAVAILABLE"}
Unread == -1
NoLoad == [kind |-> "none", snap |-> Unread]
Loads  == [kind : {"none", "boot", "gap", "reconnect"}, snap : {Unread} \cup (0 .. MaxRows)]

Sequenced(o) == rows[o].seq # NoSeq
Hidden == [o \in Ordinals |-> 0]
OnScreen == {o \in Ordinals : shown[o] > 0}

\* Mutant: a view without transport gets a state of its own.
RecomputeState_Degraded(some, durable, transport) ==
  IF some /\ durable /\ ~transport THEN "DEGRADED" ELSE "LIVE"

(***************************************************************************)
(* recomputeState: the state the readiness latch stands for.               *)
(***************************************************************************)
RecomputeState(some, durable, transport) ==
  IF ~some THEN IF durable THEN "PROJECTION_UNAVAILABLE" ELSE "UNAVAILABLE"
  ELSE IF ~durable THEN "CATCHING_UP"
  ELSE IF transport THEN "LIVE" ELSE "PROJECTION_UNAVAILABLE"

\* highWaterOf: h gives each source the largest sequence among its rows in
\* S, and -1 when it has none.
HighWaterOf(h, S) ==
  \A s \in Sources :
    LET seqs == {rows[o].seq : o \in {p \in S : rows[p].src = s}}
    IN  /\ h[s] \in seqs \cup {-1}
        /\ \A q \in seqs : q <= h[s]

\* Mutant: the read starts after the first row.
Snapshot_OffByOne(n) == [o \in Ordinals |-> IF 1 < o /\ o <= n THEN 1 ELSE 0]

\* The list after a load of n rows: the store replaces what was listed.
Snapshot(n) == [o \in Ordinals |-> IF o <= n THEN 1 ELSE 0]

\* Mutant: a resync replaces the list and keeps the marks.
RebuildHighWater_Kept(n) == highWater' = highWater

\* this.highWater = highWaterOf(this.events) after a load.
RebuildHighWater(n) ==
  /\ highWater' \in [Sources -> -1 .. MaxRows]
  /\ HighWaterOf(highWater', 1 .. n)

\* External: each source numbers its rows 0, 1, 2, ... in the order they are
\* committed; a row may also come without a number.
Numbered ==
  /\ \A o \in DOMAIN rows :
       rows[o].seq = NoSeq \/ rows[o].seq \in 0 .. (ledger[rows[o].src] - 1)
  /\ \A s \in Sources : \A q \in 0 .. (ledger[s] - 1) :
       \E o \in DOMAIN rows : rows[o].src = s /\ rows[o].seq = q
  /\ \A o, p \in DOMAIN rows :
       o < p /\ rows[o].src = rows[p].src /\ Sequenced(o) /\ Sequenced(p)
         => rows[o].seq < rows[p].seq

Init ==
  /\ \E n \in 0 .. MaxRows :
       /\ \E src \in [1 .. n -> Sources], seq \in [1 .. n -> NoSeq .. (MaxRows - 1)] :
            rows = [o \in 1 .. n |-> [src |-> src[o], seq |-> seq[o]]]
       /\ ledger \in [Sources -> 0 .. MaxRows]
       /\ Numbered
       /\ page = IF FixedStore THEN n ELSE 0
  /\ \/ /\ chan = "connecting"
        /\ state = "UNAVAILABLE"
     \/ /\ chan = "idle"
        /\ state \in {"UNAVAILABLE", "PROJECTION_UNAVAILABLE"}
  /\ net = {}
  /\ load = [i \in LoadIds |-> IF i = 1 THEN [NoLoad EXCEPT !.kind = "boot"] ELSE NoLoad]
  /\ shown = Hidden
  /\ highWater = [s \in Sources |-> -1]
  /\ anomalies = {}
  /\ durableReady = FALSE
  /\ transportReady = FALSE
  /\ hasConnected = FALSE
  /\ bootstrapped = FALSE
  /\ buffer = <<>>
  /\ job = <<>>
  /\ tail = <<>>
  /\ joins = 0
  /\ fails = 0

-----------------------------------------------------------------------------
\* External: the producer commits a row, and the insert trigger broadcasts
\* it.  The frame reaches this client only if the channel is joined, and even
\* then a broadcast may be lost.
Insert(s, q) ==
  /\ Len(rows) < MaxRows
  /\ q \in {NoSeq, ledger[s]}
  /\ rows' = Append(rows, [src |-> s, seq |-> q])
  /\ ledger' = [ledger EXCEPT ![s] = IF q = NoSeq THEN @ ELSE @ + 1]
  /\ \/ /\ chan = "joined"
        /\ net' = net \cup {Len(rows) + 1}
     \/ /\ chan # "joined" \/ Lossy
        /\ net' = net
  /\ UNCHANGED <<page, chan, load, state, shown, highWater, anomalies, latchVars,
                 bootstrapped, buffer, job, tail, countVars>>

FreeLoads == {i \in LoadIds : load[i].kind = "none"}

\* Mutant: a gap is reported and nothing is read again.
StartLoad_ReconnectOnly(kind) ==
  IF kind # "reconnect" THEN load' = load
  ELSE \E i \in FreeLoads :
         load' = [load EXCEPT ![i] = [kind |-> kind, snap |-> Unread]]

\* loadAll is called: the call takes a free slot.
StartLoad(kind) ==
  \E i \in FreeLoads :
    /\ \A j \in FreeLoads : i <= j
    /\ load' = [load EXCEPT ![i] = [kind |-> kind, snap |-> Unread]]

\* globalDurableOrder([...events, evt]), or events.push(evt).
Show(f) ==
  /\ shown' = [shown EXCEPT ![f] = @ + 1]
  /\ state' = RecomputeState(TRUE, durableReady, transportReady)

\* Mutant: frames wait for the transport instead of the history.
Accepting_WhenUp == transportReady

\* Frames are handled at once, or kept for later.
Accepting == bootstrapped

(***************************************************************************)
(* receiveLive, one operator per kind of answer.                           *)
(***************************************************************************)
Buffered(f) ==
  /\ ~Accepting
  /\ Len(buffer) < MaxBuffer
  /\ buffer' = Append(buffer, f)
  /\ UNCHANGED <<load, state, shown, highWater, anomalies>>

\* Mutant: only the last row of a source is recognised.
Duplicate_OfLast(f) == f \in OnScreen /\ rows[f].seq = highWater[rows[f].src]

\* events.some(...) on source_system and source_event_id.
Duplicate(f) == f \in OnScreen

IgnoredFrame(f) ==
  /\ Accepting
  /\ f = BadFrame \/ Duplicate(f)
  /\ UNCHANGED <<load, state, shown, highWater, anomalies, buffer>>

Unsequenced(f) ==
  /\ Accepting
  /\ f # BadFrame
  /\ ~Duplicate(f)
  /\ ~Sequenced(f)
  /\ Show(f)
  /\ UNCHANGED <<load, highWater, anomalies, buffer>>

\* Mutant: a single missing row is no gap.
IsGap_OffByOne(f) ==
  LET hw == highWater[rows[f].src] IN hw >= 0 /\ rows[f].seq > hw + 2

\* hw >= 0 && seq > expected.
IsGap(f) ==
  LET hw == highWater[rows[f].src] IN hw >= 0 /\ rows[f].seq > hw + 1

Gap(f) ==
  /\ Accepting
  /\ f # BadFrame
  /\ ~Duplicate(f)
  /\ Sequenced(f)
  /\ IsGap(f)
  /\ anomalies' = anomalies \cup {<<"GAP", rows[f].src>>}
  /\ state' = "CATCHING_UP"
  /\ StartLoad("gap")
  /\ UNCHANGED <<shown, highWater, buffer>>

Appended(f) ==
  LET s  == rows[f].src
      q  == rows[f].seq
      hw == highWater[s]
  IN  /\ Accepting
      /\ f # BadFrame
      /\ ~Duplicate(f)
      /\ Sequenced(f)
      /\ ~IsGap(f)
      /\ Show(f)
      /\ highWater' = [highWater EXCEPT ![s] = IF q > hw THEN q ELSE hw]
      /\ anomalies' = IF q < hw /\ hw >= 0 THEN anomalies \cup {<<"STALE", s>>}
                      ELSE anomalies
      /\ UNCHANGED <<load, buffer>>

Receive(f) ==
  \/ Buffered(f)
  \/ IgnoredFrame(f)
  \/ Unsequenced(f)
  \/ Gap(f)
  \/ Appended(f)

\* The browser is between two tasks.
Quiet == job = <<>> /\ tail = <<>>

\* The channel hands a frame to receiveLive; the same frame may come again.
Deliver(f) ==
  /\ Quiet
  /\ chan = "joined"
  /\ f \in net \cup {BadFrame}
  /\ net' \in {net, net \ {f}}
  /\ Receive(f)
  /\ UNCHANGED <<storeVars, chan, latchVars, bootstrapped, job, tail, countVars>>

\* One round of `for (const frame of buffered) this.receiveLive(frame)'.
ReplayFrame ==
  /\ job # <<>>
  /\ Receive(Head(job))
  /\ job' = Tail(job)
  /\ UNCHANGED <<storeVars, chan, net, latchVars, bootstrapped, tail, countVars>>

-----------------------------------------------------------------------------
\* The store answers a loadAll: the rows that are there now, or, behind
\* LiveProjectionPane, the rows the page was rendered with.  Rows are taken to
\* become visible in the order of their ordinals, which transactions that
\* commit concurrently do not have to do.
StoreRead(i) ==
  /\ load[i].kind # "none"
  /\ load[i].snap = Unread
  /\ load' = [load EXCEPT ![i].snap = IF FixedStore THEN page ELSE Len(rows)]
  /\ UNCHANGED <<storeVars, chan, net, state, shown, highWater, anomalies, latchVars,
                 bootstrapped, buffer, job, tail, countVars>>

\* bootstrap or resync goes on with the rows of its loadAll, up to the loop
\* over the buffered frames, which ReplayFrame takes from here.
LoadDone(i) ==
  LET n == load[i].snap
      reconnect == load[i].kind = "reconnect"
  IN  /\ job = <<>>
      /\ n # Unread
      /\ shown' = Snapshot(n)
      /\ RebuildHighWater(n)
      /\ durableReady' = TRUE
      /\ bootstrapped' = (bootstrapped \/ load[i].kind = "boot")
      /\ state' = RecomputeState(n > 0, TRUE, transportReady)
      /\ job' = buffer
      /\ buffer' = <<>>
      /\ tail' = IF reconnect THEN Append(tail, "ok") ELSE tail
      /\ load' = [load EXCEPT ![i] = NoLoad]
      /\ UNCHANGED <<storeVars, chan, net, anomalies, transportReady, hasConnected,
                     countVars>>

\* loadAll is rejected: the hook marks the transport down when it was
\* bootstrap's, and resync's catch block answers false.
LoadFail(i) ==
  LET kind == load[i].kind
      some == OnScreen # {}
  IN  /\ job = <<>>
      /\ kind # "none"
      /\ fails < MaxFails
      /\ fails' = fails + 1
      /\ load' = [load EXCEPT ![i] = NoLoad]
      /\ \/ /\ kind = "boot"
            /\ transportReady' = FALSE
            /\ state' = RecomputeState(some, durableReady, FALSE)
            /\ tail' = tail
         \/ /\ kind # "boot"
            /\ state' = IF some THEN "PROJECTION_UNAVAILABLE" ELSE "UNAVAILABLE"
            /\ tail' = IF kind = "reconnect" THEN Append(tail, "failed") ELSE tail
            /\ transportReady' = transportReady
      /\ UNCHANGED <<storeVars, chan, net, shown, highWater, anomalies, durableReady,
                     hasConnected, bootstrapped, buffer, job, joins>>

\* reconnectResync after its await.
ReconnectTail ==
  /\ job = <<>>
  /\ tail # <<>>
  /\ transportReady' = (Head(tail) = "ok")
  /\ state' = IF Head(tail) = "ok" THEN RecomputeState(OnScreen # {}, durableReady, TRUE)
              ELSE state
  /\ tail' = Tail(tail)
  /\ UNCHANGED <<storeVars, chan, net, load, shown, highWater, anomalies, durableReady,
                 hasConnected, bootstrapped, buffer, job, countVars>>

-----------------------------------------------------------------------------
\* handleStatus("SUBSCRIBED"): the first join is up at once, a later one
\* goes through a durable resync.
FirstJoin ==
  /\ ~hasConnected
  /\ hasConnected' = TRUE
  /\ transportReady' = TRUE
  /\ state' = RecomputeState(OnScreen # {}, durableReady, TRUE)
  /\ UNCHANGED <<load, durableReady>>

Reconnect ==
  /\ hasConnected
  /\ state' = "CATCHING_UP"
  /\ transportReady' = FALSE
  /\ durableReady' = FALSE
  /\ StartLoad("reconnect")
  /\ UNCHANGED hasConnected

Subscribed ==
  /\ Quiet
  /\ chan \in {"connecting", "down"}
  /\ joins < MaxJoins
  /\ joins' = joins + 1
  /\ chan' = "joined"
  /\ FirstJoin \/ Reconnect
  /\ UNCHANGED <<storeVars, net, shown, highWater, anomalies, bootstrapped, buffer,
                 job, tail, fails>>

\* CHANNEL_ERROR, TIMED_OUT or CLOSED: the client recomputes its state, then
\* the hook's listener overrides it.  Frames on their way are lost.
ChannelDown ==
  /\ Quiet
  /\ chan \in {"connecting", "joined", "down"}
  /\ chan' = "down"
  /\ net' = {}
  /\ transportReady' = FALSE
  /\ state' = "PROJECTION_UNAVAILABLE"
  /\ UNCHANGED <<storeVars, load, shown, highWater, anomalies, durableReady,
                 hasConnected, bootstrapped, buffer, job, tail, countVars>>

\* Any other status of the channel only makes the client recompute.
OtherStatus ==
  /\ Quiet
  /\ chan \in {"connecting", "joined", "down"}
  /\ state' = RecomputeState(OnScreen # {}, durableReady, transportReady)
  /\ UNCHANGED <<storeVars, chan, net, load, shown, highWater, anomalies, latchVars,
                 bootstrapped, buffer, job, tail, countVars>>

\* The effect's cleanup closes the transport; nothing is delivered any more.
Unmount ==
  /\ Quiet
  /\ chan # "left"
  /\ chan' = "left"
  /\ net' = {}
  /\ UNCHANGED <<storeVars, load, state, shown, highWater, anomalies, latchVars,
                 bootstrapped, buffer, job, tail, countVars>>

Next ==
  \/ \E s \in Sources : \E q \in {NoSeq, ledger[s]} : Insert(s, q)
  \/ \E f \in Frames : Deliver(f)
  \/ ReplayFrame
  \/ \E i \in LoadIds : StoreRead(i)
  \/ \E i \in LoadIds : LoadDone(i)
  \/ \E i \in LoadIds : LoadFail(i)
  \/ ReconnectTail
  \/ Subscribed
  \/ ChannelDown
  \/ OtherStatus
  \/ Unmount

\* The event loop keeps running what is queued, and the store answers every
\* call in the end, with rows or with an error.  Frames, joins and channel
\* errors need never happen.
Fairness ==
  /\ WF_vars(ReplayFrame)
  /\ WF_vars(ReconnectTail)
  /\ \A i \in LoadIds : WF_vars(StoreRead(i)) /\ WF_vars(LoadDone(i) \/ LoadFail(i))

Spec == Init /\ [][Next]_vars /\ Fairness

-----------------------------------------------------------------------------
(***************************************************************************)
(* Properties                                                              *)
(***************************************************************************)

\* Every variable has its type: the client's latches and counters, the
\* channel, the calls under way and the rows of the store.
TypeOK ==
  /\ rows \in Seq([src : Sources, seq : {NoSeq} \cup Nat]) /\ Len(rows) <= MaxRows
  /\ ledger \in [Sources -> Nat]
  /\ page \in 0 .. Len(rows)
  /\ chan \in {"idle", "connecting", "joined", "down", "left"}
  /\ net \subseteq 1 .. Len(rows)
  /\ load \in [LoadIds -> Loads]
  /\ \A i \in LoadIds : load[i].snap <= Len(rows)
  /\ state \in LiveStates
  /\ shown \in [Ordinals -> Nat]
  /\ highWater \in [Sources -> {-1} \cup Nat]
  /\ anomalies \subseteq {"GAP", "STALE"} \X Sources
  /\ durableReady \in BOOLEAN /\ transportReady \in BOOLEAN
  /\ hasConnected \in BOOLEAN /\ bootstrapped \in BOOLEAN
  /\ buffer \in Seq({BadFrame} \cup 1 .. Len(rows))
  /\ job \in Seq({BadFrame} \cup 1 .. Len(rows))
  /\ tail \in Seq({"ok", "failed"})
  /\ joins \in 0 .. MaxJoins /\ fails \in 0 .. MaxFails

\* However frames, loads and reconnects interleave, no row is listed twice
\* and no row is listed that the store did not commit (duplicate test of
\* receiveLive, wholesale replacement in bootstrap and resync).
ShownOnce ==
  \A o \in Ordinals : /\ shown[o] <= 1
                      /\ shown[o] > 0 => o <= Len(rows)

\* The mark the gap test compares with is the largest sequence on screen,
\* also after a resync has replaced the list by an older one and the mark
\* has gone back with it: a mark above the list would hide a hole, a mark
\* below it would report gaps that are not there.
HighWaterExact == HighWaterOf(highWater, OnScreen)

\* A source whose listed sequences have a hole in the middle has had a STALE
\* anomaly recorded: receiveLive withholds frames past a gap and rebuilds the
\* list from the store, so only a late frame of a source that was first seen
\* past its beginning can leave a hole.
HolesAreFlagged ==
  \A o, p \in OnScreen :
    /\ rows[o].src = rows[p].src
    /\ Sequenced(o) /\ Sequenced(p)
    => \/ <<"STALE", rows[o].src>> \in anomalies
       \/ \A q \in rows[o].seq .. rows[p].seq :
            \E r \in OnScreen : rows[r].src = rows[o].src /\ rows[r].seq = q

\* CATCHING_UP is never shown with nothing under way that could end it: a
\* gap or a reconnect has a loadAll out, unless a read failed.
CatchUpIsPending ==
  state = "CATCHING_UP" => fails > 0 \/ \E i \in LoadIds : load[i].kind # "none"

\* What the console shows implements the view of a durable log: rows enter
\* one by one or by a reload of the log as it was at some moment.
View == INSTANCE DurableView WITH log <- Len(rows), view <- OnScreen
ShowsDurableLog == View!Spec

\* CATCHING_UP ends: when a gap or a reconnect was seen, the resync it
\* started settles and takes the state away, unless a read failed.
CatchUpEnds == state = "CATCHING_UP" ~> (state # "CATCHING_UP" \/ fails > 0)

\* Frames buffered before the history was there are replayed and not left
\* behind, unless the history could not be read.
BufferDrains == buffer # <<>> ~> (buffer = <<>> \/ fails > 0)

\* live.ts: LIVE requires BOTH durable history ready AND the transport
\* connected.
LiveMeansJoined == state = "LIVE" => chan \in {"joined", "left"}

\* live.ts: buffering closes the bootstrap/subscription/reconnect frame-loss
\* window.  So when no broadcast was lost and nothing is under way any more,
\* a LIVE view has every committed row.
LiveIsComplete ==
  state = "LIVE" /\ chan = "joined" /\ net = {} /\ FreeLoads = LoadIds /\ Quiet
    => OnScreen = 1 .. Len(rows)
=============================================================================
