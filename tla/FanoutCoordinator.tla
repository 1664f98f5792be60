------------------------- MODULE FanoutCoordinator --------------------------
(***************************************************************************)
(* The bounded fan-out of one parent (execution/fanout.py): its children   *)
(* are dispatched stage by stage, their completions arrive in any order,   *)
(* late and repeatedly, a child may be retried as a new attempt, perhaps   *)
(* under a new parent attempt and lease generation, and the join decides   *)
(* over what is current.                                                   *)
(*                                                                         *)
(* The coordinator is an immutable snapshot: an operation returns a new    *)
(* one, returns itself (no step here) or raises (no step either).  parent_ *)
(* attempt_id and lease_generation are only ever used as a pair and are    *)
(* one generation here; result_ref and result_digest are one result; a     *)
(* plan other than "this" stands for a wrong plan version, plan, source or *)
(* standards digest.  Contract digests match.  The caller (external) mints *)
(* every attempt id for one generation, and none a second time.            *)
(***************************************************************************)
EXTENDS Integers, Sequences, FiniteSets

CONSTANTS Children,
          Stages,      \* FanoutPlan.stages, as a sequence of sets
          Attempts,    \* child attempt ids
          Generations, \* (parent_attempt_id, lease_generation)
          GenOf,       \* attempt -> the generation it was minted for, or None
          Results,
          Statuses,    \* CompletionStatus
          None,
          MaxEvidence, \* bound: stale records after which no late one is sent
          MaxRetired   \* bound: retried attempts after which only a new generation retries

ASSUME StagesAssumption ==
  /\ Stages \in Seq(SUBSET Children)
  /\ \A c \in Children : \E i \in DOMAIN Stages : c \in Stages[i]
  /\ \A i, j \in DOMAIN Stages : i # j => Stages[i] \cap Stages[j] = {}
ASSUME IdentityAssumption ==
  /\ None \notin Attempts /\ None \notin Generations
  /\ GenOf \in [Attempts -> Generations \cup {None}]
ASSUME StatusAssumption == {"SUCCEEDED", "STALE"} \subseteq Statuses

VARIABLES completions, \* child -> the completion that joins, or None
          gen,         \* the coordinator's generation, None before it is bound
          attempt,     \* child_attempt_ids: child -> attempt, or None
          stale,       \* stale_completions
          retired,     \* history: <<child, attempt>> replaced by a retry
          left         \* history: generations the coordinator has left

vars == <<completions, gen, attempt, stale, retired, left>>

\* The generation an attempt was minted for; the anonymous attempt of a legacy
\* completion has none.
MintedFor(a) == IF a = None THEN None ELSE GenOf[a]

\* ChildCompletion.  Its source and standards digests are optional; those left
\* out count as right and are filled in, so a wrong one is a wrong plan here.
Completion ==
  [child : Children, attempt : Attempts \cup {None}, gen : Generations \cup {None},
   plan : {"this", "other"}, status : Statuses, result : Results, evidence : BOOLEAN]

\* What the constructor lets through, sent by the executor of a minted attempt.
\* A completion without a binding names no plan.
Messages ==
  {m \in Completion : /\ m.gen = MintedFor(m.attempt)
                      /\ m.gen = None => m.plan = "this"
                      /\ m.evidence => m.status = "STALE"}

\* has_parent_binding
Bound(m) == m.gen # None

ASSUME NoneAssumption == None \notin Completion

TypeOK ==
  /\ completions \in [Children -> Completion \cup {None}]
  /\ gen \in Generations \cup {None}
  /\ attempt \in [Children -> Attempts \cup {None}]
  /\ stale \subseteq Completion
  /\ retired \subseteq Children \X Attempts
  /\ left \subseteq Generations \cup {None}

\* from_parent: bound to a generation or not, with or without child attempts.
Init ==
  /\ completions = [c \in Children |-> None]
  /\ gen \in Generations \cup {None}
  /\ attempt \in [Children -> {a \in Attempts : GenOf[a] = gen} \cup {None}]
  /\ stale = {}
  /\ retired = {}
  /\ left = {}
-----------------------------------------------------------------------------
(* Reading a snapshot.                                                     *)

Missing(c) == completions[c] = None
Succeeded(c) == completions[c] # None /\ completions[c].status = "SUCCEEDED"
Failed(c) == completions[c] # None /\ completions[c].status # "SUCCEEDED"

Open_Unbound(c) ==  \* Mutant: a child with an attempt counts as dispatched
  \E i \in DOMAIN Stages :
    /\ c \in Stages[i] /\ Missing(c) /\ attempt[c] = None
    /\ \A d \in Stages[i] : ~Failed(d)
    /\ \A j \in 1..(i - 1) : \A d \in Stages[j] : Succeeded(d)

\* dispatch_window: what is missing in the first stage that is not through,
\* and nothing if a child of it failed.
Open(c) ==
  \E i \in DOMAIN Stages :
    /\ c \in Stages[i] /\ Missing(c)
    /\ \A d \in Stages[i] : ~Failed(d)
    /\ \A j \in 1..(i - 1) : \A d \in Stages[j] : Succeeded(d)

Window == {c \in Children : Open(c)}

\* current_attempt_id
CurrentAttempt(c) ==
  IF attempt[c] # None \/ Missing(c) THEN attempt[c] ELSE completions[c].attempt

\* join
Join == IF \E c \in Children : Failed(c) THEN "BLOCKED"
        ELSE IF \E c \in Children : Missing(c) THEN "NOT_READY" ELSE "READY"

\* __post_init__: what every new snapshot is checked for.
Constructible_AnyGeneration(cs, g, at, st) ==  \* Mutant: the binding is not checked
  /\ \A c \in Children : cs[c] # None /\ at[c] # None => cs[c].attempt = at[c]
  /\ \A s, t \in st : s.child = t.child /\ s.attempt = t.attempt => s = t

Constructible(cs, g, at, st) ==
  /\ \A c \in Children : cs[c] # None =>
       /\ g # None => cs[c].gen = g /\ cs[c].plan = "this"
       /\ at[c] # None => cs[c].attempt = at[c]
  /\ \A s, t \in st : s.child = t.child /\ s.attempt = t.attempt => s = t
-----------------------------------------------------------------------------
(* Operations.                                                             *)

AsEvidence(m) == [m EXCEPT !.status = "STALE", !.evidence = TRUE]

\* The stale records under the child and attempt of a completion.
RecordsOf(m) == {s \in stale : s.child = m.child /\ s.attempt = m.attempt}

\* The completion names this plan and generation, or neither side names one.
Eligible(m) == IF Bound(m) THEN m.plan = "this" /\ gen \in {None, m.gen} ELSE gen = None

\* What complete passes to _record_stale.  A completion of another plan is
\* refused by a coordinator that is not bound.
Late(m) ==
  \/ m.evidence
  \/ Bound(m) /\ gen # None /\ ~Eligible(m)
  \/ Eligible(m) /\ attempt[m.child] \notin {None, m.attempt}

\* complete, of a late completion: _record_stale.  An equal record is there
\* already; a different one under the same key raises.
RecordStale(m) ==
  /\ Late(m) /\ RecordsOf(m) = {}
  /\ stale' = stale \cup {AsEvidence(m)}
  /\ Constructible(completions, gen, attempt, stale')
  /\ UNCHANGED <<completions, gen, attempt, retired, left>>

\* complete, of a current one.  The first bound completion binds the
\* coordinator.
Accept(m) ==
  /\ Missing(m.child)
  /\ ~Late(m) /\ Eligible(m)
  /\ Open(m.child)
  /\ completions' = [completions EXCEPT ![m.child] = m]
  /\ gen' = IF Bound(m) THEN m.gen ELSE gen
  /\ attempt' = IF m.attempt = None THEN attempt ELSE [attempt EXCEPT ![m.child] = m.attempt]
  /\ Constructible(completions', gen', attempt', stale)
  /\ left' = IF gen' = gen THEN left ELSE left \cup {gen}
  /\ UNCHANGED <<stale, retired>>

\* Which children a retry of c under generation g starts afresh.
Moved(c, g) == IF g # gen THEN Children ELSE {c}

\* The bindings after the retry.
Rebound_Kept(c, a, g) ==  \* Mutant: a binding that is there stays
  [x \in Children |-> IF x = c /\ attempt[x] = None THEN a
                      ELSE IF g # gen THEN None ELSE attempt[x]]

Rebound(c, a, g) ==
  [x \in Children |-> IF x = c THEN a ELSE IF g # gen THEN None ELSE attempt[x]]

\* The completions that stop joining, as evidence, unless there is a record
\* of their child and attempt.
Shelved_Retried(c, g) ==  \* Mutant: what the other children reported is dropped
  {AsEvidence(completions[x]) :
     x \in {y \in {c} : ~Missing(y) /\ RecordsOf(completions[y]) = {}}}

Shelved(c, g) ==
  {AsEvidence(completions[x]) :
     x \in {y \in Moved(c, g) : ~Missing(y) /\ RecordsOf(completions[y]) = {}}}

\* retry_child
Retry(c, a, g) ==
  /\ <<c, a>> \notin retired /\ g \notin left  \* the caller mints a
  /\ g = gen \/ g # None
  /\ CurrentAttempt(c) # a
  /\ completions' = [x \in Children |-> IF x \in Moved(c, g) THEN None ELSE completions[x]]
  /\ gen' = g
  /\ attempt' = Rebound(c, a, g)
  /\ stale' = stale \cup Shelved(c, g)
  /\ Constructible(completions', gen', attempt', stale')
  /\ retired' = retired \cup {<<c, x>> : x \in {CurrentAttempt(c)} \ {None}}
  /\ left' = IF g = gen THEN left ELSE left \cup {gen}

\* Executors may report anything about their attempt, at any time, again and again.
Next ==
  \/ \E m \in Messages : \/ Cardinality(stale) < MaxEvidence /\ RecordStale(m)
                         \/ Accept(m)
  \/ \E c \in Children, a \in Attempts :
       (GenOf[a] = gen => Cardinality(retired) < MaxRetired) /\ Retry(c, a, GenOf[a])

Spec == Init /\ [][Next]_vars
-----------------------------------------------------------------------------
(* Properties.                                                             *)

\* A result of an attempt that a retry replaced, or of a generation the parent
\* has left, never joins, however late it comes and however often the child is
\* retried (complete, retry_child).
SupersededStaysOut ==
  \A c \in Children : ~Missing(c) =>
    <<c, completions[c].attempt>> \notin retired /\ completions[c].gen \notin left

\* All that joins is of the coordinator's own generation and plan, also when
\* completions without a binding came before the first bound one (complete
\* would bind the coordinator, only __post_init__ looks at the earlier ones).
OneGenerationJoins ==
  \A c \in Children : ~Missing(c) =>
    completions[c].gen = gen /\ (gen # None => completions[c].plan = "this")

\* A join that still waits has an open child to wait for, in the first stage
\* that is not through, and one that is READY has none (dispatch_window, join).
NoStuckWave ==
  /\ Join = "NOT_READY" => Window # {}
  /\ Join = "READY" => Window = {}

\* Evidence is never lost: a completion that stops joining is from then on
\* found under its child and attempt among the stale records, which only grow
\* (retry_child, _record_stale).
EvidenceKept ==
  [][/\ stale \subseteq stale'
     /\ \A c \in Children : ~Missing(c) /\ completions'[c] # completions[c] =>
          \E s \in stale' : s.child = c /\ s.attempt = completions[c].attempt]_vars
=============================================================================
