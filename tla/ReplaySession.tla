--------------------------- MODULE ReplaySession ----------------------------
(***************************************************************************)
(* The observation console's replay (lib/replay.ts) and the review metrics *)
(* that share its events (lib/reviewIntelligence.ts).                      *)
(*                                                                         *)
(* Events are rows that independent sources recorded, each with a global   *)
(* ordinal.  They reach the session in any order and more than once, in    *)
(* LIVE and in REPLAY; the cursor moves; and every frame folds the prefix  *)
(* of the list up to the cursor.  Sequence and time of a row are its       *)
(* source's own: either may be missing, neither need grow, and a number    *)
(* may be used again.  What an event says is a kind from Kinds: its type,  *)
(* the gate or node it is about and its outcome.  Identity, actor and      *)
(* authority of an event are its ordinal.                                  *)
(***************************************************************************)
EXTENDS Integers, Sequences

CONSTANTS
  Sources,   \* source systems, each with its own ledger
  Kinds,     \* what events say: [type, on, outcome]
  MaxOrd,    \* bound: ordinals 1 .. MaxOrd
  MaxSeq,    \* bound: sequences 0 .. MaxSeq
  MaxFed,    \* bound: events the session is given
  MaxTime    \* bound: instants 1 .. MaxTime

ASSUME SourcesAssumption == Sources # {}
ASSUME KindsAssumption ==
  \A k \in Kinds : DOMAIN k = {"type", "on", "outcome"}
ASSUME BoundsAssumption ==
  MaxOrd \in Nat /\ MaxSeq \in Nat /\ MaxFed \in Nat /\ MaxTime \in Nat \ {0}

VARIABLES
  fed,      \* history: the events the session was given, in that order
  items, mode, cursor

vars == <<fed, items, mode, cursor>>

NoSeq  == -1
NoTime == 0        \* occurred_at is optional
Nothing == ""      \* an outcome that was not recorded

Targets == {k.on : k \in Kinds}
Events ==
  [ord : 1 .. MaxOrd, src : Sources, seq : {NoSeq} \cup (0 .. MaxSeq),
   time : {NoTime} \cup (1 .. MaxTime), kind : Kinds]

GateStatus == [gate_passed |-> "passed", gate_approved |-> "approved",
               gate_released |-> "released", gate_failed |-> "failed"]
NodeEvents == {"node_progress", "node_started", "node_completed"}
IsGateEvent(e) == e.kind.type \in DOMAIN GateStatus
IsNodeEvent(e) == e.kind.type \in NodeEvents

-----------------------------------------------------------------------------
(***************************************************************************)
(* The reducer: a fold of a prefix.                                        *)
(***************************************************************************)
EmptyProjection ==
  [startedAt |-> NoTime, lastEventAt |-> NoTime,
   gates |-> [t \in Targets |-> [status |-> "none", lastEventSeq |-> -1, by |-> 0]],
   nodes |-> [t \in Targets |-> [status |-> "absent", lastEventSeq |-> -1]],
   anomalies |-> {}, seen |-> {},
   hwSeq |-> [s \in Sources |-> -1], hwTime |-> [s \in Sources |-> NoTime]]

AnomalyKinds == {"DUPLICATE", "OUT_OF_ORDER", "STALE", "GAP"}

\* Mutant: only repeated identities are reported.
AnomaliesOf_DuplicatesOnly(p, e, i) ==
  IF e.ord \in p.seen THEN {<<"DUPLICATE", i>>} ELSE {}

\* The anomalies of the event at position i, against the source's high-water.
AnomaliesOf(p, e, i) ==
  LET hw == p.hwSeq[e.src]
      at == p.hwTime[e.src]
      holds(k) ==
        CASE k = "DUPLICATE"    -> e.ord \in p.seen
          [] k = "OUT_OF_ORDER" -> e.seq # NoSeq /\ i > 1 /\ hw >= 0 /\ e.seq < hw
          [] k = "STALE"        -> /\ e.seq # NoSeq
                                   /\ at # NoTime /\ e.time # NoTime
                                   /\ e.time < at \/ (e.time = at /\ e.seq < hw)
          [] k = "GAP"          -> e.seq # NoSeq /\ i > 1 /\ hw >= 0 /\ e.seq > hw + 1
  IN  {<<k, i>> : k \in {a \in AnomalyKinds : holds(a)}}

\* Monotone high-water advance on (occurred_at, sequence).  Over a high-water
\* without a time anything advances; over one with a time, nothing untimed.
Advances(p, e) ==
  LET at == p.hwTime[e.src]
  IN  /\ e.seq # NoSeq
      /\ \/ at = NoTime
         \/ /\ e.time # NoTime
            /\ e.time > at \/ (e.time = at /\ e.seq > p.hwSeq[e.src])

\* Mutant: the next event of the ledger does not count as newer.
ApplyGate_Strict(g, e) ==
  IF g.lastEventSeq + 1 < e.seq \/ g.status = "none"
  THEN [status |-> GateStatus[e.kind.type], lastEventSeq |-> e.seq, by |-> e.ord]
  ELSE g

\* applyEvent on the gate the event is about ...
ApplyGate(g, e) ==
  IF g.lastEventSeq <= e.seq \/ g.status = "none"
  THEN [status |-> GateStatus[e.kind.type], lastEventSeq |-> e.seq, by |-> e.ord]
  ELSE g

\* ... and on the node.
ApplyNode(n, e) ==
  LET old == IF n.status = "absent" THEN "pending" ELSE n.status
  IN  IF n.lastEventSeq <= e.seq \/ old = "pending"
      THEN [status |-> IF e.kind.outcome # Nothing THEN e.kind.outcome ELSE old,
            lastEventSeq |-> e.seq]
      ELSE [n EXCEPT !.status = old]

ApplyEvent(p, e) ==
  LET on == e.kind.on
  IN  [p EXCEPT !.startedAt = IF e.kind.type = "run_started" THEN e.time ELSE @,
                !.gates[on] = IF IsGateEvent(e) THEN ApplyGate(@, e) ELSE @,
                !.nodes[on] = IF IsNodeEvent(e) THEN ApplyNode(@, e) ELSE @]

ReduceStep(p, e, i) ==
  ApplyEvent(
    [p EXCEPT !.anomalies = @ \cup AnomaliesOf(p, e, i),
              !.seen = @ \cup {e.ord},
              !.hwSeq[e.src] = IF Advances(p, e) THEN e.seq ELSE @,
              !.hwTime[e.src] = IF Advances(p, e) THEN e.time ELSE @,
              !.lastEventAt = IF e.time # NoTime THEN e.time ELSE @],
    e)

ReduceEvents(s) ==
  LET upTo[i \in 0 .. Len(s)] ==
        IF i = 0 THEN EmptyProjection ELSE ReduceStep(upTo[i - 1], s[i], i)
  IN  upTo[Len(s)]

-----------------------------------------------------------------------------
(***************************************************************************)
(* The session.                                                            *)
(***************************************************************************)
\* Where e goes in a list sorted by ordinal: after every event whose ordinal
\* is not greater.
Place(s, e) ==
  CHOOSE p \in 0 .. Len(s) :
    /\ \A i \in 1 .. p : s[i].ord <= e.ord
    /\ p < Len(s) => e.ord < s[p + 1].ord

Insert(s, e) ==
  LET p == Place(s, e)
  IN  [i \in 1 .. (Len(s) + 1) |->
         IF i <= p THEN s[i] ELSE IF i = p + 1 THEN e ELSE s[i - 1]]

\* globalDurableOrder: the stable sort by ordinal, one insertion at a time.
\* Durable rows always have an ordinal; the code puts an event without one at
\* the end.
GlobalDurableOrder(s) ==
  LET sorted[i \in 0 .. Len(s)] ==
        IF i = 0 THEN <<>> ELSE Insert(sorted[i - 1], s[i])
  IN  sorted[Len(s)]

\* Mutant: a cursor beyond the end stays there.
Clamp_NoUpper(c) == IF c < 0 THEN 0 ELSE c

\* ReplayTimeline.clamp of an integer; a fraction is truncated to one first,
\* and what is not finite gives 0.
Clamp(c) == IF c < 0 THEN 0 ELSE IF c > Len(items) THEN Len(items) ELSE c
Frame(c) == ReduceEvents(SubSeq(items, 1, c))
Tip == ReduceEvents(items)

\* The session starts LIVE at the tip of what it was constructed with; rows
\* that were there already come as the first calls of AppendLive.
Init ==
  /\ fed = <<>>
  /\ items = <<>>
  /\ mode = "LIVE"
  /\ cursor = 0

\* Mutant: a live event always goes to the end.
ListOf_Unsorted(e) == Append(items, e)

\* The list an event is added to.
ListOf(e) == GlobalDurableOrder(Append(items, e))

\* An ordinal names one row, so an event that comes again is the same event.
AppendLive(e) ==
  /\ Len(fed) < MaxFed
  /\ \A i \in DOMAIN fed : fed[i].ord = e.ord => fed[i] = e
  /\ fed' = Append(fed, e)
  /\ items' = ListOf(e)
  /\ cursor' = IF mode = "LIVE" THEN Len(items') ELSE cursor
  /\ UNCHANGED mode

\* enterReplay and rewindTo with a cursor of any value.
RewindTo(c) ==
  /\ mode' = "REPLAY"
  /\ cursor' = Clamp(c)
  /\ UNCHANGED <<fed, items>>

EnterReplay   == RewindTo(Len(items))
StepBack(n)   == RewindTo(cursor - n)
StepForward(n) == RewindTo(cursor + n)

ResumeLive ==
  /\ mode' = "LIVE"
  /\ cursor' = Len(items)
  /\ UNCHANGED <<fed, items>>

Next ==
  \/ \E e \in Events : AppendLive(e)
  \/ \E c \in -1 .. (Len(items) + 1) : RewindTo(c)
  \/ EnterReplay
  \/ StepBack(1)
  \/ StepForward(1)
  \/ ResumeLive

Spec == Init /\ [][Next]_vars

-----------------------------------------------------------------------------
(***************************************************************************)
(* The review metrics over the same list.                                  *)
(***************************************************************************)
Failures   == {"gate_failed", "node_failed", "run_failed"}
Recoveries == {"gate_passed", "gate_approved", "gate_released",
               "node_completed", "node_started", "node_progress"}

\* recoveryProfile: the positions that recover the failure at position i; the
\* first one is reported, and none when there is none.
Recovers(s, i) ==
  {j \in (i + 1) .. Len(s) : s[j].kind.type \in Recoveries /\ s[j].kind.on = s[i].kind.on}

\* Mutant: an event before the failure counts as its recovery.
Recovered_AnyPosition(s, i) ==
  \E j \in 1 .. Len(s) : s[j].kind.type \in Recoveries /\ s[j].kind.on = s[i].kind.on

\* RecoverySpan.recovered.
Recovered(s, i) == Recovers(s, i) # {}

-----------------------------------------------------------------------------
(***************************************************************************)
(* Properties                                                              *)
(***************************************************************************)
\* The session's list, mode and cursor have their types and the cursor is a
\* position of the list.
TypeOK ==
  /\ fed \in Seq(Events) /\ items \in Seq(Events)
  /\ Len(items) = Len(fed) /\ Len(fed) <= MaxFed
  /\ mode \in {"LIVE", "REPLAY"}
  /\ cursor \in 0 .. Len(items)

\* A session that is LIVE shows what a session would show that was given all
\* the events at once and never left LIVE, whatever order they came in and
\* however the cursor moved in between (appendLive, resumeLive).
ResumeUncorrupted ==
  mode = "LIVE" => Frame(cursor) = ReduceEvents(GlobalDurableOrder(fed))

\* Position j of a list comes next after position i in the ledger of their
\* source.
Follows(s, i, j) ==
  /\ s[i].src = s[j].src /\ s[i].seq # NoSeq /\ s[j].seq # NoSeq
  /\ \A m \in (i + 1) .. (j - 1) : s[m].src # s[i].src \/ s[m].seq = NoSeq

\* Positions i and j, in this order, are sequenced events of one source.
Precedes(s, i, j) ==
  i < j /\ s[i].src = s[j].src /\ s[i].seq # NoSeq /\ s[j].seq # NoSeq

\* Nothing is wrong with a list: no event twice, every ledger without a hole
\* and in order, and its recorded times never going back.
Clean(s) ==
  /\ \A i, j \in DOMAIN s : s[i].ord = s[j].ord => i = j
  /\ \A i, j \in DOMAIN s : i < j /\ Follows(s, i, j) => s[j].seq = s[i].seq + 1
  /\ \A i, j \in DOMAIN s :
       Precedes(s, i, j) /\ s[i].time # NoTime /\ s[j].time # NoTime
         => s[i].time <= s[j].time

\* A source gives every number to one event.
NumbersOnce(s) ==
  \A i, j \in DOMAIN s :
    Precedes(s, i, j) /\ s[i].seq = s[j].seq => s[i].ord = s[j].ord

\* A source that records times does not stop.
KeepsTiming(s) ==
  \A i, j \in DOMAIN s : Precedes(s, i, j) /\ s[i].time # NoTime => s[j].time # NoTime

\* reduceEvents' per-source high-water, which an event without a time does not
\* advance once there is a time: if the tip reports no anomaly, the list is
\* clean, as long as no source uses a number twice; and a clean list raises no
\* alarm however the ledgers interleave, as long as a source that records times
\* goes on recording them.
AnomaliesExact ==
  /\ NumbersOnce(items) /\ Tip.anomalies = {} => Clean(items)
  /\ Clean(items) /\ KeepsTiming(items) => Tip.anomalies = {}

\* The positions that change a gate's or a node's status.
About(s, t, about(_)) == {i \in DOMAIN s : s[i].kind.on = t /\ about(s[i])}
LastOf(S) == CHOOSE i \in S : \A j \in S : j <= i
OneLedger(s, S) ==
  /\ \A i \in S : s[i].seq # NoSeq
  /\ \A i, j \in S : s[i].src = s[j].src

\* A gate whose events all come from one ledger shows, on a clean list, what
\* its last event said, and that event's actor and authority.
GateFollowsLedger ==
  \A t \in Targets :
    LET S == About(items, t, IsGateEvent)
        last == items[LastOf(S)]
        gate == Tip.gates[t]
    IN  S # {} /\ OneLedger(items, S) /\ Clean(items)
          => gate.status = GateStatus[last.kind.type] /\ gate.by = last.ord

\* The review's recoveries and the replayed gates tell the same story: on a
\* clean list the last failure of a one-ledger gate counts as recovered
\* exactly when the gate is not shown as failed.
ReviewAgreesWithReplay ==
  \A t \in Targets :
    LET S == About(items, t, IsGateEvent)
        F == {i \in S : items[i].kind.type \in Failures}
    IN  F # {} /\ OneLedger(items, S) /\ Clean(items) /\ About(items, t, IsNodeEvent) = {}
          => (Recovered(items, LastOf(F)) <=> Tip.gates[t].status # "failed")

\* replay.ts: supplied order IS replay order, and anomalies are surfaced and
\* never hidden.  So without an anomaly a gate shows what the last of its
\* sequenced events in the list said.
GateFollowsOrder ==
  \A t \in Targets :
    LET S == About(items, t, IsGateEvent)
    IN  S # {} /\ Tip.anomalies = {} /\ (\A i \in S : items[i].seq # NoSeq)
          => Tip.gates[t].status = GateStatus[items[LastOf(S)].kind.type]

\* Without the provisos of AnomaliesExact: a clean list raises no alarm, and
\* nothing that is wrong goes unreported.
NoFalseAlarm == Clean(items) => Tip.anomalies = {}
NothingHidden == Tip.anomalies = {} => Clean(items)
=============================================================================
