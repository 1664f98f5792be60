--------------------------- MODULE OneCallerProofs ---------------------------
(***************************************************************************)
(* A run with a single caller, and its recovery.  Replacement detachment   *)
(* holds: an ACTIVE lease is the one its attempt is bound to, by id, token *)
(* and generation (with two callers it does not: run rt_two_active).  The  *)
(* journal has one record per commit, no event is accepted twice, even     *)
(* across crashes, generations never go back, and replaying the journal    *)
(* over a checkpoint rebuilds the live run.                                *)
(***************************************************************************)
EXTENDS RunRecovery, RunRuntimeProofs, WellFoundedInduction

AllBound(rs) == \A l \in LeaseIds : IsActive(rs, l) => BoundTo(rs, l)

\* A change of one lease that makes none ACTIVE and rebinds no attempt.
LEMMA WeakenBound ==
  ASSUME NEW rs \in RunState, NEW new \in RunState, NEW l \in LeaseIds,
         AllBound(rs), new.attempt = rs.attempt,
         \A k \in LeaseIds \ {l} : new.leases[k] = rs.leases[k],
         IsActive(new, l) => /\ IsActive(rs, l)
                             /\ new.leases[l].att = rs.leases[l].att
                             /\ new.leases[l].token = rs.leases[l].token
                             /\ new.leases[l].gen = rs.leases[l].gen
  PROVE  AllBound(new)
<1> SUFFICES ASSUME NEW k \in LeaseIds, IsActive(new, k)
             PROVE  BoundTo(new, k)
  BY DEF AllBound
<1>1. CASE k = l
  BY <1>1 DEF AllBound, BoundTo
<1>2. CASE k # l
  BY <1>2 DEF AllBound, BoundTo, IsActive, Held
<1> QED
  BY <1>1, <1>2

\* Ending a lease keeps the ACTIVE ones bound.
LEMMA SetStatusBound ==
  ASSUME NEW rs \in RunState, NEW l \in LeaseIds, Held(rs, l), AllBound(rs),
         NEW st \in LeaseStatus \ {"ACTIVE"}
  PROVE  AllBound(SetStatus(rs, l, st))
<1> DEFINE new == SetStatus(rs, l, st)
<1>1. /\ new \in RunState
      /\ new.attempt = rs.attempt
      /\ new.leases = [rs.leases EXCEPT ![l].status = st]
  BY SetStatusFacts
<1> HIDE DEF new
<1>2. DOMAIN rs.leases = LeaseIds /\ rs.leases[l] \in Lease
  BY DEF RunState, Held
<1>3. new.leases[l].status = st
  BY <1>1, <1>2 DEF Lease
<1>4. ~IsActive(new, l)
  BY <1>3 DEF IsActive
<1>5. \A k \in LeaseIds \ {l} : new.leases[k] = rs.leases[k]
  BY <1>1, <1>2
<1>6. AllBound(new)
  BY <1>1, <1>4, <1>5, WeakenBound
<1> QED
  BY <1>6 DEF new

\* Renewing a lease keeps the ACTIVE ones bound.
LEMMA RenewedBound ==
  ASSUME NEW rs \in RunState, NEW l \in LeaseIds, IsActive(rs, l), AllBound(rs),
         NEW t \in Times
  PROVE  AllBound(Renewed(rs, l, t))
<1> DEFINE new == Renewed(rs, l, t)
<1>1. /\ new \in RunState
      /\ new.attempt = rs.attempt
      /\ new.leases = [rs.leases EXCEPT ![l].expires = t]
  BY RenewedFacts DEF IsActive
<1> HIDE DEF new
<1>2. DOMAIN rs.leases = LeaseIds /\ rs.leases[l] \in Lease
  BY DEF RunState, IsActive, Held
<1>3. new.leases[l] = [rs.leases[l] EXCEPT !.expires = t]
  BY <1>1, <1>2
<1>4. /\ new.leases[l].att = rs.leases[l].att
      /\ new.leases[l].token = rs.leases[l].token
      /\ new.leases[l].gen = rs.leases[l].gen
  BY <1>2, <1>3 DEF Lease
<1>5. \A k \in LeaseIds \ {l} : new.leases[k] = rs.leases[k]
  BY <1>1, <1>2
<1>6. AllBound(new)
  BY <1>1, <1>4, <1>5, WeakenBound
<1> QED
  BY <1>6 DEF new

\* Expiring the current lease unbinds its attempt, which then has no ACTIVE
\* lease.
LEMMA ExpiredCurrentBound ==
  ASSUME NEW rs \in RunState, NEW l \in LeaseIds, IsActive(rs, l), AllBound(rs)
  PROVE  AllBound(ExpiredCurrent(rs, l))
<1> DEFINE new == ExpiredCurrent(rs, l)
           a   == rs.leases[l].att
<1>1. /\ new \in RunState
      /\ new.attempt = [rs.attempt EXCEPT ![a].status = "LEASE_EXPIRED",
                                          ![a].lease = NoLease]
      /\ new.leases = [rs.leases EXCEPT ![l].status = "EXPIRED"]
  BY ExpiredCurrentFacts DEF IsActive
<1> HIDE DEF new
<1>2. DOMAIN rs.leases = LeaseIds /\ rs.leases[l] \in Lease
  BY DEF RunState, IsActive, Held
<1>3. new.leases[l].status = "EXPIRED"
  BY <1>1, <1>2 DEF Lease
<1> SUFFICES ASSUME NEW k \in LeaseIds, IsActive(new, k)
             PROVE  BoundTo(new, k)
  BY DEF AllBound, new
<1>4. k # l
  BY <1>3 DEF IsActive
<1>5. new.leases[k] = rs.leases[k] /\ IsActive(rs, k)
  BY <1>1, <1>2, <1>4 DEF IsActive, Held
<1>6. BoundTo(rs, k) /\ BoundTo(rs, l)
  BY <1>5 DEF AllBound
<1>7. rs.leases[k].att # a
  BY <1>4, <1>6 DEF BoundTo
<1>8. new.attempt[rs.leases[k].att] = rs.attempt[rs.leases[k].att]
  <2>1. rs.leases[k].att \in Attempts /\ DOMAIN rs.attempt = Attempts
    BY <1>5 DEF RunState, IsActive, Held, Lease
  <2> QED
    BY <1>1, <1>7, <2>1
<1> QED
  BY <1>5, <1>6, <1>8 DEF BoundTo

\* Registering a lease for an attempt without an ACTIVE one binds the attempt
\* to it.
LEMMA RegisteredBound ==
  ASSUME NEW rs \in RunState, NEW l \in LeaseIds, NEW lease \in Lease, AllBound(rs),
         ActiveLeases(rs, lease.att) = {}
  PROVE  AllBound(Registered(rs, l, lease))
<1> DEFINE new == Registered(rs, l, lease)
           a   == lease.att
<1>1. /\ new \in RunState
      /\ new.attempt = NewAttempt(rs, l, lease)
      /\ new.leases = NewLeases(rs, l, lease)
  BY RegisteredFacts, Zenon
<1> HIDE DEF new
<1>2. /\ DOMAIN rs.leases = LeaseIds
      /\ DOMAIN rs.attempt = Attempts
      /\ a \in Attempts
      /\ rs.attempt[a] \in AttemptRecord
  BY DEF RunState, Lease
<1>3. new.leases[l] = lease /\ new.attempt[a] = Bound(rs.attempt[a], l, lease)
  BY <1>1, <1>2 DEF NewLeases, NewAttempt
<1> SUFFICES ASSUME NEW k \in LeaseIds, IsActive(new, k)
             PROVE  BoundTo(new, k)
  BY DEF AllBound, new
<1>4. CASE k = l
  BY <1>2, <1>3, <1>4 DEF BoundTo, Bound, AttemptRecord
<1>5. CASE k # l
  <2>1. new.leases[k] = rs.leases[k] /\ IsActive(rs, k)
    BY <1>1, <1>2, <1>5 DEF NewLeases, IsActive, Held
  <2>2. rs.leases[k].att # a
    BY <2>1 DEF ActiveLeases
  <2>3. rs.leases[k].att \in Attempts
    BY <2>1 DEF RunState, IsActive, Held, Lease
  <2>4. new.attempt[rs.leases[k].att] = rs.attempt[rs.leases[k].att]
    BY <1>1, <1>2, <2>2, <2>3 DEF NewAttempt
  <2> QED
    BY <2>1, <2>4 DEF BoundTo, AllBound
<1> QED
  BY <1>4, <1>5

\* Detaching one ACTIVE lease of an attempt leaves none, since at most one is
\* bound.
LEMMA DetachedNone ==
  ASSUME NEW rs \in RunState, NEW a \in Attempts, NEW old \in ActiveLeases(rs, a),
         AllBound(rs)
  PROVE  ActiveLeases(SetStatus(rs, old, "RELEASED"), a) = {}
<1> DEFINE new == SetStatus(rs, old, "RELEASED")
<1>1. old \in LeaseIds /\ IsActive(rs, old) /\ rs.leases[old].att = a
  BY DEF ActiveLeases
<1>2. /\ new \in RunState
      /\ new.leases = [rs.leases EXCEPT ![old].status = "RELEASED"]
  BY <1>1, SetStatusFacts DEF IsActive, LeaseStatus
<1> HIDE DEF new
<1>3. DOMAIN rs.leases = LeaseIds /\ rs.leases[old] \in Lease
  BY <1>1 DEF RunState, IsActive, Held
<1>4. new.leases[old].status = "RELEASED"
  BY <1>1, <1>2, <1>3 DEF Lease
<1>5. ASSUME NEW k \in LeaseIds, IsActive(new, k), new.leases[k].att = a
      PROVE  FALSE
  <2>1. k # old
    BY <1>4, <1>5 DEF IsActive
  <2>2. new.leases[k] = rs.leases[k]
    BY <1>1, <1>2, <1>3, <2>1
  <2>3. IsActive(rs, k) /\ rs.leases[k].att = a
    BY <1>5, <2>2 DEF IsActive, Held
  <2>4. rs.attempt[a].lease = k /\ rs.attempt[a].lease = old
    BY <1>1, <2>3 DEF AllBound, BoundTo
  <2> QED
    BY <2>1, <2>4
<1> QED
  BY <1>5 DEF ActiveLeases, new

\* Boundness depends on the leases and the attempt records only.
LEMMA SameBound ==
  ASSUME NEW rs, NEW new, AllBound(rs), new.leases = rs.leases, new.attempt = rs.attempt
  PROVE  AllBound(new)
BY DEF AllBound, BoundTo, IsActive, Held
-----------------------------------------------------------------------------
DetachPC == {"detachSync", "detachRead", "detachAppend", "detachAppendSync", "register"}

\* Between the two commits of a grant the attempt has no ACTIVE lease.
Detached ==
  \A c \in Callers :
    pc[c] \in DetachPC => ActiveLeases(run, work[c].rec.lease.att) = {}

OneInv == Inv /\ ActiveIsBound /\ Detached

OneCaller == \A c, d \in Callers : c = d

\* The snapshot a commit is based on is bound as the stored run is.
LEMMA SnapBound ==
  ASSUME OneInv, NEW c \in Callers, snap[c].version = run.version
  PROVE  /\ snap[c] \in RunState
         /\ AllBound(snap[c])
         /\ \A a \in Attempts : ActiveLeases(snap[c], a) = ActiveLeases(run, a)
<1>1. snap[c] \in RunState
  BY DEF OneInv, Inv, TypeOK
<1>2. snap[c].leases = run.leases /\ snap[c].attempt = run.attempt
  BY SameFields DEF OneInv, Inv
<1>3. AllBound(run)
  BY DEF OneInv, ActiveIsBound, AllBound
<1> QED
  BY <1>1, <1>2, <1>3, SameBound DEF ActiveLeases, IsActive, Held

\* The caller is out of the grant's detach phase after any other commit.
LEMMA OutOfDetach ==
  ASSUME OneCaller, Inv, NEW c \in Callers, NEW q, q \notin DetachPC,
         pc' = [pc EXCEPT ![c] = q]
  PROVE  Detached'
BY DEF OneCaller, Detached, Inv, TypeOK

\* The only caller's service calls keep ACTIVE leases bound, and a grant that
\* detached leaves its attempt without an ACTIVE lease.
LEMMA ServiceOne ==
  ASSUME OneCaller, OneInv, NEW c \in Callers, CallService(c)
  PROVE  ActiveIsBound' /\ Detached'
<1> USE DEF OneInv
<1> SUFFICES AllBound(run') /\ Detached'
  BY DEF AllBound, ActiveIsBound
<1>1. ASSUME NEW rec, ThenJournal(c, rec) PROVE Detached'
  BY <1>1, OutOfDetach DEF ThenJournal, Goto, DetachPC
<1>2. ASSUME NEW l \in LeaseIds, Expire(c, l) PROVE AllBound(run') /\ Detached'
  <2>1. snap[c].version = run.version /\ IsActive(snap[c], l)
    BY <1>2 DEF Expire, PutRun
  <2>2. CASE IsCurrentLease(snap[c], l)
    BY <1>2, <2>1, <2>2, <1>1, SnapBound, ExpiredCurrentBound DEF Expire, PutRun
  <2>3. CASE ~IsCurrentLease(snap[c], l)
    BY <1>2, <2>1, <2>3, <1>1, SnapBound, SetStatusBound
       DEF Expire, PutRun, LeaseStatus, IsActive
  <2> QED
    BY <2>2, <2>3
<1>3. ASSUME NEW l \in LeaseIds, Revoke(c, l) PROVE AllBound(run') /\ Detached'
  BY <1>3, <1>1, SnapBound, SetStatusBound DEF Revoke, PutRun, LeaseStatus, IsActive
<1>4. ASSUME NEW l \in LeaseIds, NEW now \in Times, Release(c, l, now)
      PROVE  AllBound(run') /\ Detached'
  BY <1>4, <1>1, SnapBound, SetStatusBound DEF Release, PutRun, LeaseStatus, IsActive
<1>5. ASSUME NEW l \in LeaseIds, NEW token \in Tokens, NEW expires \in Times,
             NEW now \in Times, Renew(c, l, token, expires, now)
      PROVE  AllBound(run') /\ Detached'
  BY <1>5, <1>1, SnapBound, RenewedBound DEF Renew, PutRun
<1>6. ASSUME NEW l \in LeaseIds, NEW a \in Attempts, NEW token \in Tokens,
             NEW expires \in Times, NEW gen \in 1..MaxGeneration,
             Grant(c, l, a, token, expires, gen)
      PROVE  AllBound(run') /\ Detached'
  <2> DEFINE lease == NewLease(a, token, expires, gen)
  <2>1. lease \in Lease /\ lease.att = a
    BY NewLeaseType DEF NewLease
  <2>2. /\ snap[c].version = run.version
        /\ run' = Registered(snap[c], l, lease)
        /\ pc' = [pc EXCEPT ![c] = "registerSync"]
        /\ ActiveLeases(snap[c], a) = {}
    BY <1>6 DEF Grant, Commit, PutRun, Goto
  <2> HIDE DEF lease
  <2>3. AllBound(run')
    BY <2>1, <2>2, SnapBound, RegisteredBound
  <2>4. Detached'
    BY <2>2, OutOfDetach DEF DetachPC
  <2> QED
    BY <2>3, <2>4
<1>7. ASSUME NEW l \in LeaseIds, NEW a \in Attempts, NEW token \in Tokens,
             NEW expires \in Times, NEW gen \in 1..MaxGeneration,
             GrantDetach(c, l, a, token, expires, gen)
      PROVE  AllBound(run') /\ Detached'
  <2> DEFINE rec == LeaseRecord("grant", l, NewLease(a, token, expires, gen), "NONE", 0)
  <2>1. PICK old \in ActiveLeases(snap[c], a) :
          /\ PutRun(SetStatus(snap[c], old, "RELEASED"), snap[c].version)
          /\ work' = [work EXCEPT ![c] =
               Pending(rec, old, SetStatus(snap[c], old, "RELEASED").version)]
    BY <1>7 DEF GrantDetach
  <2>2. /\ snap[c].version = run.version
        /\ run' = SetStatus(snap[c], old, "RELEASED")
    BY <2>1 DEF PutRun
  <2>3. AllBound(run')
    BY <2>2, SnapBound, SetStatusBound DEF ActiveLeases, IsActive, LeaseStatus
  <2>4. ActiveLeases(run', a) = {}
    BY <2>2, SnapBound, DetachedNone
  <2>5. work'[c].rec.lease.att = a
    BY <2>1 DEF Inv, TypeOK, Pending, LeaseRecord, NewLease
  <2>6. Detached'
    BY <2>4, <2>5 DEF OneCaller, Detached
  <2> QED
    BY <2>3, <2>6
<1>8. ASSUME NEW e \in Events, Route(c, e) PROVE AllBound(run') /\ Detached'
  <2>1. PICK s \in NextNodeStatus(snap[c], e) :
          PutRun(Applied(snap[c], e, s), snap[c].version)
    BY <1>8 DEF Route
  <2>2. snap[c] \in RunState /\ snap[c].version = run.version /\ AllBound(snap[c])
    BY <2>1, SnapBound DEF PutRun
  <2>3. /\ Applied(snap[c], e, s).attempt = snap[c].attempt
        /\ Applied(snap[c], e, s).leases = snap[c].leases
    BY <2>2 DEF Applied, RunState
  <2>4. AllBound(run')
    BY <2>1, <2>2, <2>3, SameBound DEF PutRun
  <2>5. Detached'
    BY <1>8, OutOfDetach DEF Route, Goto, DetachPC
  <2> QED
    BY <2>4, <2>5
<1> QED
  BY <1>2, <1>3, <1>4, <1>5, <1>6, <1>7, <1>8 DEF CallService

\* So do its store calls: nobody granted between the detach and the register.
LEMMA StoreCallOne ==
  ASSUME OneCaller, OneInv, NEW c \in Callers, StoreCall(c)
  PROVE  ActiveIsBound' /\ Detached'
<1> USE DEF OneInv
<1> SUFFICES AllBound(run') /\ Detached'
  BY DEF AllBound, ActiveIsBound
<1>b. AllBound(run)
  BY DEF AllBound, ActiveIsBound
<1>1. ASSUME run'.leases = run.leases, run'.attempt = run.attempt
      PROVE  AllBound(run')
  BY <1>1, <1>b, SameBound
<1>2. ASSUME NEW v, SyncJournalPosition(v)
      PROVE  run'.leases = run.leases /\ run'.attempt = run.attempt
  BY <1>2 DEF SyncJournalPosition, Inv, TypeOK, RunState
<1>3. ASSUME NEW v, StaleSync(c, v) PROVE AllBound(run') /\ Detached'
  BY <1>1, <1>3, OutOfDetach DEF StaleSync, DetachPC
\* A store call inside the detach phase that keeps leases and the grant.
<1>4. ASSUME pc[c] \in DetachPC, run'.leases = run.leases, run'.attempt = run.attempt,
             work'[c].rec.lease = work[c].rec.lease
      PROVE  AllBound(run') /\ Detached'
  <2>1. ActiveLeases(run', work'[c].rec.lease.att) = {}
    BY <1>4 DEF Detached, ActiveLeases, IsActive, Held
  <2> QED
    BY <1>1, <1>4, <2>1 DEF OneCaller, Detached
<1>5. CASE DetachSync(c)
  BY <1>2, <1>3, <1>4, <1>5 DEF DetachSync, DetachPC
<1>6. CASE DetachRead(c)
  <2>1. work'[c].rec.lease = work[c].rec.lease
    BY <1>6 DEF DetachRead, Inv, TypeOK, Work
  <2> QED
    BY <1>4, <1>6, <2>1 DEF DetachRead, DetachPC
<1>7. CASE DetachAppend(c)
  BY <1>4, <1>7 DEF DetachAppend, DetachPC
<1>8. CASE DetachAppendSync(c)
  BY <1>2, <1>3, <1>4, <1>8 DEF DetachAppendSync, DetachPC
<1>9. CASE Register(c)
  <2> DEFINE l == work[c].rec.lid
             lease == work[c].rec.lease
  <2>1. l \in LeaseIds /\ lease \in Lease
    BY <1>9 DEF Register, Inv, PendingOK, PendingOf, GrantPC
  <2>2. /\ snap[c].version = run.version
        /\ run' = Registered(snap[c], l, lease)
        /\ pc' = [pc EXCEPT ![c] = "registerSync"]
    BY <1>9 DEF Register, Commit, PutRun, Goto
  <2>3. ActiveLeases(run, lease.att) = {} /\ lease.att \in Attempts
    BY <1>9, <2>1 DEF Register, Detached, DetachPC, Lease
  <2> HIDE DEF l, lease
  <2>4. AllBound(run')
    BY <2>1, <2>2, <2>3, SnapBound, RegisteredBound
  <2> QED
    BY <2>2, <2>4, OutOfDetach DEF DetachPC
<1>10. CASE RegisterConflict(c)
  BY <1>3, <1>10 DEF RegisterConflict
<1>11. CASE RegisterSync(c)
  BY <1>1, <1>2, <1>3, <1>11, OutOfDetach DEF RegisterSync, Goto, DetachPC
<1>12. CASE RegisterRead(c)
  BY <1>1, <1>12, OutOfDetach DEF RegisterRead, Goto, DetachPC
<1>13. CASE JournalAppend(c)
  <2>1. \E q : q \notin DetachPC /\ pc' = [pc EXCEPT ![c] = q]
    BY <1>13 DEF JournalAppend, Goto, DetachPC
  <2> QED
    BY <1>1, <1>13, <2>1, OutOfDetach DEF JournalAppend
<1>14. CASE DedupePut(c) \/ SaveStreamWatermark(c)
  BY <1>1, <1>14, OutOfDetach DEF DedupePut, SaveStreamWatermark, Goto, DetachPC
<1>15. CASE FinalSync(c)
  BY <1>1, <1>2, <1>3, <1>15, OutOfDetach DEF FinalSync, Goto, DetachPC
<1> QED
  BY <1>5, <1>6, <1>7, <1>8, <1>9, <1>10, <1>11, <1>12, <1>13, <1>14, <1>15
     DEF StoreCall

\* With one caller every step preserves the strengthened invariant.
LEMMA OneNext == ASSUME OneCaller PROVE OneInv /\ [Next]_vars => OneInv'
<1> SUFFICES ASSUME OneInv, [Next]_vars PROVE OneInv'
  OBVIOUS
<1>1. Inv'
  BY NextInv DEF OneInv
<1>2. CASE UNCHANGED vars
  BY <1>1, <1>2 DEF vars, OneInv, ActiveIsBound, Detached, ActiveLeases, BoundTo, IsActive,
     Held
<1>3. ASSUME NEW c \in Callers, GetRun(c) PROVE ActiveIsBound' /\ Detached'
  BY <1>3 DEF GetRun, OneInv, ActiveIsBound, Detached, ActiveLeases, BoundTo, IsActive, Held
<1> QED
  BY <1>1, <1>2, <1>3, ServiceOne, StoreCallOne DEF Next, OneInv

\* The strengthened invariant holds initially.
LEMMA OneInit == Init => OneInv
<1> SUFFICES ASSUME Init PROVE OneInv
  OBVIOUS
<1>1. PICK status \in InitStatuses, token \in Tokens : run = InitRun(status, token)
  BY DEF Init
<1>2. \A l \in LeaseIds : ~IsActive(run, l)
  BY <1>1 DEF InitRun, IsActive, Held
<1>3. ActiveIsBound
  BY <1>2 DEF ActiveIsBound
<1>4. Detached
  BY DEF Init, Detached, DetachPC
<1> QED
  BY <1>3, <1>4, InitInv DEF OneInv

\* With one caller, grant's detach-then-register never leaves two ACTIVE leases
\* for an attempt, nor an ACTIVE lease its attempt record does not name.
THEOREM ReplacementDetaches ==
  ASSUME OneCaller
  PROVE  Spec => []ActiveIsBound
<1>1. OneInv => ActiveIsBound
  BY DEF OneInv
<1> QED
  BY <1>1, OneInit, OneNext, PTL DEF Spec
-----------------------------------------------------------------------------
(* The journal and the sidecars keep step with the commits of one caller.  *)

\* Where a commit is in the store and its record is not in the journal yet.
Unjournaled == {"detachSync", "detachRead", "detachAppend", "registerSync", "registerRead",
                "append"}

\* Nobody else commits while the only caller's operation is under way.
Undisturbed ==
  \A c \in Callers :
    /\ pc[c] # "idle" => work[c].committed = run.version
    /\ pc[c] = "append" => work[c].rec.version = run.version
    /\ pc[c] \in {"detachAppend", "detachAppendSync", "register"}
         => snap[c].version = run.version

\* An accepted event whose dedupe keys, or whose watermark, are not written yet.
Unkeyed(q, w) == (q = "append" /\ w.rec.op = "event") \/ q = "dedupe"
Unmarked(q, w) == Unkeyed(q, w) \/ q = "watermark"

Keyed(ks, e) == [k \in Keys |-> IF k \in DedupeKeys(e) THEN e ELSE ks[k]]

\* The run's meta is ahead of the store's sidecars by the pending event only.
Mirrored ==
  \A c \in Callers :
    /\ run.seen = IF Unkeyed(pc[c], work[c]) THEN Keyed(keys, work[c].rec.event) ELSE keys
    /\ run.stream = IF Unmarked(pc[c], work[c])
                    THEN [wm EXCEPT ![work[c].rec.event.att] = work[c].rec.event.seq + 1]
                    ELSE wm

\* journal_position is that of the last record between operations.
Positioned == \A c \in Callers : pc[c] = "idle" /\ journal # <<>> => run.jp = LastRecordIndex

SoloInv == OneInv /\ Undisturbed /\ Mirrored /\ Positioned

\* What a commit leaves of the run's status, mirrored sidecars and cursor.
Carries(rs, new) ==
  /\ new.status = rs.status
  /\ new.seen = rs.seen
  /\ new.stream = rs.stream
  /\ new.cursor = rs.cursor

\* A lease operation carries them all.
LEMMA SetStatusCarries ==
  ASSUME NEW rs \in RunState, NEW l, NEW st
  PROVE  Carries(rs, SetStatus(rs, l, st))
BY DEF Carries, SetStatus, RunState

\* Renewing ...
LEMMA RenewedCarries ==
  ASSUME NEW rs \in RunState, NEW l, NEW t
  PROVE  Carries(rs, Renewed(rs, l, t))
BY DEF Carries, Renewed, RunState

\* ... expiring ...
LEMMA ExpiredCarries ==
  ASSUME NEW rs \in RunState, NEW l
  PROVE  Carries(rs, ExpiredCurrent(rs, l))
BY DEF Carries, SetStatus, ExpiredCurrent, RunState

\* ... and registering as well.
LEMMA RegisteredCarries ==
  ASSUME NEW rs \in RunState, NEW l, NEW lease
  PROVE  Carries(rs, Registered(rs, l, lease))
BY DEF Carries, Registered, RunState

\* An event is mirrored with its keys, its watermark and the cursor.
LEMMA EventMirrored ==
  ASSUME NEW rs \in RunState, NEW e, NEW s
  PROVE  /\ Applied(rs, e, s).status = rs.status
         /\ Applied(rs, e, s).seen = Keyed(keys, e)
         /\ Applied(rs, e, s).stream = [wm EXCEPT ![e.att] = e.seq + 1]
         /\ Applied(rs, e, s).cursor = e
BY DEF Applied, Keyed, RunState

\* So does a snapshot at the stored version.
LEMMA SnapCarries ==
  ASSUME TypeOK, SnapshotCoherent, NEW c \in Callers, snap[c].version = run.version
  PROVE  snap[c] \in RunState /\ Carries(run, snap[c])
BY DEF TypeOK, SnapshotCoherent, RunState, Carries

\* And a sync.
LEMMA SyncCarries ==
  ASSUME TypeOK, NEW v, SyncJournalPosition(v)
  PROVE  Carries(run, run') /\ run'.version = run.version /\ run'.jp = LastRecordIndex
BY DEF TypeOK, SyncJournalPosition, RunState, Carries

\* What a service call commits and leaves to be done: a lease operation, or
\* an event that the sidecars do not know.
LeaseCommits(c) ==
  /\ Carries(run, run')
  /\ ~Unkeyed(pc'[c], work'[c])

EventOf(c, e) ==
  /\ pc'[c] = "append"
  /\ work'[c].rec = EventRecord(e, run'.version)
  /\ run'.seen = Keyed(keys, e)
  /\ run'.stream = [wm EXCEPT ![e.att] = e.seq + 1]
  /\ run'.cursor = e
  /\ \A k \in DedupeKeys(e) : keys[k] = NoEvent
  /\ e.seq = wm[e.att]

ServiceEffect(c) ==
  /\ pc[c] = "idle"
  /\ pc'[c] \in {"append", "registerSync", "detachSync"}
  /\ UNCHANGED <<journal, keys, wm, snap>>
  /\ run'.version = run.version + 1
  /\ work'[c].committed = run'.version
  /\ pc'[c] = "append" => work'[c].rec.version = run'.version
  /\ LeaseCommits(c) \/ \E e \in Events : EventOf(c, e)

\* A lease operation that journals as soon as it has committed.
LEMMA JournaledEffect ==
  ASSUME Inv, NEW c \in Callers, pc[c] = "idle", NEW new, NEW rec,
         Carries(snap[c], new), new.version = snap[c].version + 1,
         PutRun(new, snap[c].version), ThenJournal(c, rec),
         rec.version = new.version, rec.op # "event"
  PROVE  ServiceEffect(c)
<1>1. Carries(run, run') /\ run'.version = run.version + 1
  BY SnapCarries DEF Inv, PutRun, Carries
<1>2. /\ pc'[c] = "append"
      /\ work'[c] = Pending(rec, NoLease, rec.version)
      /\ UNCHANGED <<journal, keys, wm, snap>>
  BY DEF ThenJournal, Goto, Inv, TypeOK
<1> QED
  BY <1>1, <1>2 DEF ServiceEffect, LeaseCommits, Unkeyed, Pending, PutRun

\* The registration of a lease.
LEMMA CommitEffect ==
  ASSUME Inv, NEW c \in Callers, NEW l \in LeaseIds, NEW lease \in Lease, Commit(c, l, lease)
  PROVE  /\ pc'[c] = "registerSync"
         /\ UNCHANGED <<journal, keys, wm, snap>>
         /\ Carries(run, run')
         /\ run' = Registered(snap[c], l, lease)
         /\ run'.version = run.version + 1
         /\ work'[c] = Pending(LeaseRecord("grant", l, lease, "NONE", run'.version),
                               NoLease, run'.version)
<1>1. snap[c] \in RunState /\ Carries(run, snap[c]) /\ snap[c].version = run.version
  BY SnapCarries DEF Inv, Commit, PutRun
<1>2. Carries(snap[c], Registered(snap[c], l, lease))
  BY <1>1, RegisteredCarries
<1>3. /\ run' = Registered(snap[c], l, lease)
      /\ pc'[c] = "registerSync"
      /\ UNCHANGED <<journal, keys, wm, snap>>
      /\ work'[c] = Pending(LeaseRecord("grant", l, lease, "NONE", run'.version),
                            NoLease, run'.version)
  BY DEF Commit, PutRun, Goto, Inv, TypeOK
<1>4. run'.version = run.version + 1
  BY <1>1, <1>3, RegisteredFacts
<1> QED
  BY <1>1, <1>2, <1>3, <1>4 DEF Carries

\* Every service call has that effect.
LEMMA ServiceShape ==
  ASSUME Inv, NEW c \in Callers, CallService(c)
  PROVE  ServiceEffect(c)
<1>s. snap[c] \in RunState
  BY DEF Inv, TypeOK
<1>1. ASSUME NEW l \in LeaseIds, Expire(c, l) PROVE ServiceEffect(c)
  <2> DEFINE cur == IsCurrentLease(snap[c], l)
             new == IF cur THEN ExpiredCurrent(snap[c], l)
                    ELSE SetStatus(snap[c], l, "EXPIRED")
             rec == LeaseRecord("expire", l, new.leases[l],
                                IF cur THEN "LEASE_EXPIRED" ELSE "NONE", new.version)
  <2>1. pc[c] = "idle" /\ Held(snap[c], l) /\ PutRun(new, snap[c].version) /\ ThenJournal(c, rec)
    BY <1>1 DEF Expire, IsActive
  <2>2. Carries(snap[c], new) /\ new.version = snap[c].version + 1
    BY <1>s, <2>1, SetStatusCarries, ExpiredCarries, SetStatusFacts, ExpiredCurrentFacts DEF LeaseStatus
  <2>3. rec.version = new.version /\ rec.op # "event"
    BY DEF LeaseRecord
  <2> HIDE DEF new, rec
  <2> QED
    BY <2>1, <2>2, <2>3, JournaledEffect
<1>2. ASSUME NEW l \in LeaseIds, NEW op \in {"release", "revoke"},
             NEW st \in {"RELEASED", "REVOKED"}, pc[c] = "idle", IsActive(snap[c], l),
             PutRun(SetStatus(snap[c], l, st), snap[c].version),
             ThenJournal(c, LeaseRecord(op, l, SetStatus(snap[c], l, st).leases[l], "NONE",
                                        SetStatus(snap[c], l, st).version))
      PROVE  ServiceEffect(c)
  <2> DEFINE new == SetStatus(snap[c], l, st)
             rec == LeaseRecord(op, l, new.leases[l], "NONE", new.version)
  <2>0. Held(snap[c], l) /\ st \in LeaseStatus
    BY <1>2 DEF LeaseStatus, IsActive
  <2>1. Carries(snap[c], new) /\ new.version = snap[c].version + 1
    BY <1>s, <2>0, SetStatusCarries, SetStatusFacts
  <2>2. rec.version = new.version /\ rec.op # "event"
    BY DEF LeaseRecord
  <2>3. PutRun(new, snap[c].version) /\ ThenJournal(c, rec)
    BY <1>2
  <2> HIDE DEF new, rec
  <2> QED
    BY <1>2, <2>1, <2>2, <2>3, JournaledEffect
<1>3. ASSUME NEW l \in LeaseIds, Revoke(c, l) PROVE ServiceEffect(c)
  BY <1>2, <1>3 DEF Revoke
<1>4. ASSUME NEW l \in LeaseIds, NEW now \in Times, Release(c, l, now) PROVE ServiceEffect(c)
  BY <1>2, <1>4 DEF Release
<1>5. ASSUME NEW l \in LeaseIds, NEW token \in Tokens, NEW expires \in Times,
             NEW now \in Times, Renew(c, l, token, expires, now)
      PROVE  ServiceEffect(c)
  <2> DEFINE new == Renewed(snap[c], l, expires)
             rec == LeaseRecord("renew", l, new.leases[l], "NONE", new.version)
  <2>1. pc[c] = "idle" /\ Held(snap[c], l) /\ PutRun(new, snap[c].version) /\ ThenJournal(c, rec)
    BY <1>5 DEF Renew, IsActive
  <2>2. Carries(snap[c], new) /\ new.version = snap[c].version + 1
    BY <1>s, <2>1, RenewedCarries, RenewedFacts
  <2>3. rec.version = new.version /\ rec.op # "event"
    BY DEF LeaseRecord
  <2> HIDE DEF new, rec
  <2> QED
    BY <2>1, <2>2, <2>3, JournaledEffect
<1>6. ASSUME NEW l \in LeaseIds, NEW a \in Attempts, NEW token \in Tokens,
             NEW expires \in Times, NEW gen \in 1..MaxGeneration,
             Grant(c, l, a, token, expires, gen)
      PROVE  ServiceEffect(c)
  <2>1. pc[c] = "idle" /\ Commit(c, l, NewLease(a, token, expires, gen))
    BY <1>6 DEF Grant
  <2>2. NewLease(a, token, expires, gen) \in Lease
    BY NewLeaseType
  <2> DEFINE lease == NewLease(a, token, expires, gen)
  <2> HIDE DEF lease
  <2>3. Commit(c, l, lease) /\ lease \in Lease
    BY <2>1, <2>2 DEF lease
  <2>4. /\ pc'[c] = "registerSync"
        /\ UNCHANGED <<journal, keys, wm, snap>>
        /\ Carries(run, run')
        /\ run'.version = run.version + 1
        /\ work'[c].committed = run'.version
    <3>1. /\ pc'[c] = "registerSync"
          /\ UNCHANGED <<journal, keys, wm, snap>>
          /\ Carries(run, run')
          /\ run'.version = run.version + 1
          /\ work'[c] = Pending(LeaseRecord("grant", l, lease, "NONE", run'.version),
                                NoLease, run'.version)
      BY <2>3, CommitEffect, Zenon
    <3> QED
      BY <3>1 DEF Pending
  <2> QED
    BY <2>1, <2>4 DEF ServiceEffect, LeaseCommits, Unkeyed
<1>7. ASSUME NEW l \in LeaseIds, NEW a \in Attempts, NEW token \in Tokens,
             NEW expires \in Times, NEW gen \in 1..MaxGeneration,
             GrantDetach(c, l, a, token, expires, gen)
      PROVE  ServiceEffect(c)
  <2> DEFINE rec == LeaseRecord("grant", l, NewLease(a, token, expires, gen), "NONE", 0)
  <2>1. PICK old \in ActiveLeases(snap[c], a) :
          /\ PutRun(SetStatus(snap[c], old, "RELEASED"), snap[c].version)
          /\ work' = [work EXCEPT ![c] =
               Pending(rec, old, SetStatus(snap[c], old, "RELEASED").version)]
    BY <1>7 DEF GrantDetach
  <2> DEFINE new == SetStatus(snap[c], old, "RELEASED")
  <2>2. Carries(snap[c], new) /\ new.version = snap[c].version + 1
    BY <1>s, SetStatusCarries, SetStatusFacts DEF LeaseStatus, ActiveLeases, IsActive
  <2>3. /\ pc[c] = "idle"
        /\ pc'[c] = "detachSync"
        /\ UNCHANGED <<journal, keys, wm, snap>>
    BY <1>7 DEF GrantDetach, Goto, Inv, TypeOK
  <2>4. run' = new /\ snap[c].version = run.version /\ work'[c] = Pending(rec, old, new.version)
    BY <2>1 DEF PutRun, Inv, TypeOK
  <2> HIDE DEF new, rec
  <2>5. Carries(run, run') /\ run'.version = run.version + 1
    BY <2>2, <2>4, SnapCarries DEF Carries, Inv
  <2> QED
    BY <2>3, <2>4, <2>5 DEF ServiceEffect, LeaseCommits, Unkeyed, Pending
<1>8. ASSUME NEW e \in Events, Route(c, e) PROVE ServiceEffect(c)
  <2>1. PICK s \in NextNodeStatus(snap[c], e) :
          PutRun(Applied(snap[c], e, s), snap[c].version)
    BY <1>8 DEF Route
  <2>2. run' = Applied(snap[c], e, s) /\ snap[c].version = run.version
    BY <2>1 DEF PutRun
  <2>3. run'.version = run.version + 1
    <3>1. s \in NodeStatus
      BY <1>s, NextNodeStatusFacts
    <3>2. Applied(snap[c], e, s).version = snap[c].version + 1
      BY <1>s, <3>1, AppliedFacts, Zenon DEF Inv
    <3> QED
      BY <2>2, <3>2
  <2>4. /\ pc[c] = "idle"
        /\ pc'[c] = "append"
        /\ work'[c] = Pending(EventRecord(e, run'.version), NoLease, run'.version)
        /\ UNCHANGED <<journal, keys, wm, snap>>
        /\ \A k \in DedupeKeys(e) : keys[k] = NoEvent
        /\ e.seq = wm[e.att]
    BY <1>8, <2>2, <2>3 DEF Route, Goto, Inv, TypeOK
  <2>5. EventOf(c, e)
    BY <1>s, <2>2, <2>4, EventMirrored DEF EventOf, Pending
  <2> QED
    BY <2>3, <2>4, <2>5 DEF ServiceEffect, Pending, EventRecord
<1> QED
  BY <1>1, <1>3, <1>4, <1>5, <1>6, <1>7, <1>8 DEF CallService

\* The store calls that sync journal_position, and what follows each.
SyncThen ==
  [detachSync |-> "detachRead", detachAppendSync |-> "register",
   registerSync |-> "registerRead", appendSync |-> "idle"]

Synced(c) ==
  /\ pc[c] \in DOMAIN SyncThen
  /\ SyncJournalPosition(run.version)
  /\ pc'[c] = SyncThen[pc[c]]
  /\ work'[c] = IF pc[c] = "appendSync" THEN NoWork ELSE work[c]
  /\ UNCHANGED <<journal, keys, wm, snap>>

\* An undisturbed caller's syncs never fail.
LEMMA StoreShape ==
  ASSUME Inv, Undisturbed, NEW c \in Callers, StoreCall(c)
  PROVE  \/ Synced(c) \/ DetachRead(c) \/ DetachAppend(c) \/ Register(c) \/ RegisterRead(c)
         \/ JournalAppend(c) \/ DedupePut(c) \/ SaveStreamWatermark(c)
<1>1. ~StaleSync(c, run.version)
  BY DEF StaleSync
<1>2. pc \in [Callers -> PC] /\ work \in [Callers -> Work]
  BY DEF Inv, TypeOK
<1>3. pc[c] # "idle" => work[c].committed = run.version
  BY DEF Undisturbed
<1>4. CASE DetachSync(c) \/ DetachAppendSync(c) \/ RegisterSync(c)
  BY <1>1, <1>2, <1>3, <1>4 DEF DetachSync, DetachAppendSync, RegisterSync, Synced, SyncThen, Goto
<1>5. CASE FinalSync(c)
  BY <1>1, <1>2, <1>3, <1>5 DEF FinalSync, Synced, SyncThen, Goto
<1>6. ~RegisterConflict(c)
  BY <1>1 DEF RegisterConflict, Undisturbed
<1> QED
  BY <1>4, <1>5, <1>6 DEF StoreCall

\* A step of the only caller, as far as the sidecars and the journal see it.
LEMMA SoloStep ==
  ASSUME OneCaller, SoloInv, OneInv', NEW c \in Callers, CallService(c) \/ StoreCall(c)
  PROVE  SoloInv'
<1> USE DEF SoloInv, OneInv
<1> DEFINE und == /\ pc'[c] # "idle" => work'[c].committed = run'.version
                  /\ pc'[c] = "append" => work'[c].rec.version = run'.version
                  /\ pc'[c] \in {"detachAppend", "detachAppendSync", "register"}
                       => snap'[c].version = run'.version
           mir == /\ run'.seen = IF Unkeyed(pc'[c], work'[c])
                                 THEN Keyed(keys', work'[c].rec.event) ELSE keys'
                  /\ run'.stream = IF Unmarked(pc'[c], work'[c])
                                   THEN [wm' EXCEPT ![work'[c].rec.event.att] =
                                           work'[c].rec.event.seq + 1]
                                   ELSE wm'
           pos == pc'[c] = "idle" /\ journal' # <<>> => run'.jp = Len(journal') - 1
<1>0. SUFFICES und /\ mir /\ pos
  BY DEF OneCaller, Undisturbed, Mirrored, Positioned, LastRecordIndex
<1>t. /\ TypeOK /\ pc[c] \in PC /\ work[c] \in Work
      /\ pc \in [Callers -> PC] /\ work \in [Callers -> Work]
      /\ snap \in [Callers -> RunState]
  BY DEF Inv, TypeOK
<1>u. /\ pc[c] # "idle" => work[c].committed = run.version
      /\ pc[c] = "append" => work[c].rec.version = run.version
      /\ pc[c] \in {"detachAppend", "detachAppendSync", "register"}
           => snap[c].version = run.version
  BY DEF Undisturbed
<1>m. /\ run.seen = IF Unkeyed(pc[c], work[c]) THEN Keyed(keys, work[c].rec.event) ELSE keys
      /\ run.stream = IF Unmarked(pc[c], work[c])
                      THEN [wm EXCEPT ![work[c].rec.event.att] = work[c].rec.event.seq + 1]
                      ELSE wm
  BY DEF Mirrored
<1> HIDE DEF SoloInv, OneInv
<1>1. CASE ServiceEffect(c)
  <2>1. und /\ pos
    BY <1>1 DEF ServiceEffect
  <2>2. CASE LeaseCommits(c)
    <3>1. ~Unmarked(pc[c], work[c]) /\ ~Unmarked(pc'[c], work'[c])
      BY <1>1, <2>2 DEF ServiceEffect, LeaseCommits, Unkeyed, Unmarked
    <3> QED
      BY <1>1, <1>m, <2>1, <2>2, <3>1 DEF ServiceEffect, LeaseCommits, Carries, Unmarked
  <2>3. ASSUME NEW e \in Events, EventOf(c, e) PROVE mir
    <3>1. Unkeyed(pc'[c], work'[c]) /\ Unmarked(pc'[c], work'[c]) /\ work'[c].rec.event = e
      BY <2>3 DEF EventOf, Unkeyed, Unmarked, EventRecord
    <3> QED
      BY <1>1, <2>3, <3>1 DEF ServiceEffect, EventOf
  <2> QED
    BY <1>1, <2>1, <2>2, <2>3 DEF ServiceEffect
<1>2. CASE Synced(c)
  <2>1. Carries(run, run') /\ run'.version = run.version /\ run'.jp = LastRecordIndex
    BY <1>2, <1>t, SyncCarries DEF Synced
  <2>2. ~Unmarked(pc[c], work[c]) /\ ~Unmarked(pc'[c], work'[c])
    BY <1>2 DEF Synced, SyncThen, Unkeyed, Unmarked
  <2>3. mir
    BY <1>2, <1>m, <2>1, <2>2 DEF Synced, Carries, Unmarked
  <2>4. und /\ pos
    BY <1>2, <1>u, <2>1 DEF Synced, SyncThen, LastRecordIndex
  <2> QED
    BY <2>3, <2>4
<1>3. CASE DetachRead(c) \/ DetachAppend(c) \/ RegisterRead(c)
  <2>1. und /\ pos
    <3>1. CASE DetachRead(c)
      BY <3>1, <1>t, <1>u DEF DetachRead, Goto, Work
    <3>2. CASE DetachAppend(c)
      BY <3>2, <1>t, <1>u DEF DetachAppend, Goto
    <3>3. CASE RegisterRead(c)
      BY <3>3, <1>t, <1>u DEF RegisterRead, Goto, Work, Record
    <3> QED
      BY <1>3, <3>1, <3>2, <3>3
  <2>2. ~Unmarked(pc[c], work[c]) /\ ~Unmarked(pc'[c], work'[c])
    <3>1. CASE DetachRead(c) \/ DetachAppend(c)
      BY <3>1, <1>t DEF DetachRead, DetachAppend, Goto, Unkeyed, Unmarked
    <3>2. CASE RegisterRead(c)
      <4>1. work[c].rec.op = "grant" /\ work[c].rec \in Record
        BY <3>2, <1>t DEF RegisterRead, SoloInv, OneInv, Inv, PendingOK, PendingOf, GrantPC, Work
      <4>2. work'[c].rec.op = "grant"
        BY <3>2, <1>t, <4>1 DEF RegisterRead, Work, Record
      <4> QED
        BY <3>2, <1>t, <4>2 DEF RegisterRead, Goto, Unkeyed, Unmarked
    <3> QED
      BY <1>3, <3>1, <3>2
  <2>3. UNCHANGED <<run, keys, wm>>
    BY <1>3 DEF DetachRead, DetachAppend, RegisterRead
  <2> QED
    BY <1>m, <2>1, <2>2, <2>3 DEF Unmarked
<1>4. CASE Register(c)
  <2>1. work[c].rec.lid \in LeaseIds /\ work[c].rec.lease \in Lease
    BY <1>4 DEF Register, SoloInv, OneInv, Inv, PendingOK, PendingOf, GrantPC
  <2>2. /\ pc'[c] = "registerSync"
        /\ UNCHANGED <<journal, keys, wm, snap>>
        /\ Carries(run, run')
        /\ work'[c].committed = run'.version
    <3>1. Commit(c, work[c].rec.lid, work[c].rec.lease)
      BY <1>4 DEF Register
    <3>2. Inv
      BY DEF SoloInv, OneInv
    <3>3. /\ pc'[c] = "registerSync"
          /\ UNCHANGED <<journal, keys, wm, snap>>
          /\ Carries(run, run')
          /\ work'[c] = Pending(LeaseRecord("grant", work[c].rec.lid, work[c].rec.lease, "NONE",
                                            run'.version), NoLease, run'.version)
      BY <2>1, <3>1, <3>2, CommitEffect, Zenon
    <3> QED
      BY <3>3 DEF Pending
  <2>3. ~Unmarked(pc[c], work[c]) /\ ~Unmarked(pc'[c], work'[c])
    BY <1>4, <2>2 DEF Register, Unkeyed, Unmarked
  <2> QED
    BY <1>m, <2>2, <2>3 DEF Carries, Unmarked
<1>5. CASE JournalAppend(c)
  <2>1. /\ UNCHANGED <<run, keys, wm, snap, work>>
        /\ pc[c] = "append"
        /\ pc'[c] = IF work[c].rec.op = "event" THEN "dedupe" ELSE "appendSync"
    BY <1>5, <1>t DEF JournalAppend, Goto
  <2>2. /\ Unkeyed(pc[c], work[c]) = Unkeyed(pc'[c], work'[c])
        /\ Unmarked(pc[c], work[c]) = Unmarked(pc'[c], work'[c])
    BY <2>1 DEF Unkeyed, Unmarked
  <2> QED
    BY <1>m, <1>u, <2>1, <2>2
<1>6. CASE DedupePut(c)
  <2>1. /\ UNCHANGED <<run, journal, wm, snap, work>>
        /\ pc[c] = "dedupe" /\ pc'[c] = "watermark"
        /\ keys' = Keyed(keys, work[c].rec.event)
    BY <1>6, <1>t DEF DedupePut, Goto, Keyed
  <2> QED
    BY <1>m, <1>u, <2>1 DEF Unkeyed, Unmarked
<1>7. CASE SaveStreamWatermark(c)
  <2>1. /\ UNCHANGED <<run, journal, keys, snap, work>>
        /\ pc[c] = "watermark" /\ pc'[c] = "appendSync"
        /\ wm' = [wm EXCEPT ![work[c].rec.event.att] = work[c].rec.event.seq + 1]
    BY <1>7, <1>t DEF SaveStreamWatermark, Goto
  <2> QED
    BY <1>m, <1>u, <2>1 DEF Unkeyed, Unmarked
<1> QED
  BY <1>1, <1>2, <1>3, <1>4, <1>5, <1>6, <1>7, ServiceShape, StoreShape DEF SoloInv, OneInv

\* A caller that only reads the run again changes nothing the invariant is about.
LEMMA SoloRead ==
  ASSUME SoloInv, OneInv', NEW c \in Callers, GetRun(c)
  PROVE  SoloInv'
<1>1. UNCHANGED <<run, journal, keys, wm, pc, work>> /\ pc[c] = "idle"
  BY DEF GetRun
<1>2. \A d \in Callers : pc[d] # "idle" => snap'[d] = snap[d]
  BY DEF GetRun, SoloInv, OneInv, Inv, TypeOK
<1>3. Undisturbed'
  BY <1>1, <1>2 DEF SoloInv, Undisturbed
<1>4. Mirrored' /\ Positioned'
  BY <1>1 DEF SoloInv, Mirrored, Positioned, Unkeyed, Unmarked, Keyed, LastRecordIndex
<1> QED
  BY <1>3, <1>4 DEF SoloInv

\* With one caller every step of the services preserves the invariant.
LEMMA SoloNext == ASSUME OneCaller PROVE SoloInv /\ [Next]_vars => SoloInv'
<1> SUFFICES ASSUME SoloInv, [Next]_vars PROVE SoloInv'
  OBVIOUS
<1>1. OneInv'
  BY OneNext DEF SoloInv
<1>2. CASE UNCHANGED vars
  BY <1>1, <1>2 DEF vars, SoloInv, Undisturbed, Mirrored, Positioned, Unkeyed, Unmarked, Keyed,
     LastRecordIndex
<1> QED
  BY <1>1, <1>2, SoloStep, SoloRead DEF Next

\* It holds of a new run.
LEMMA SoloInit == Init => SoloInv
<1> SUFFICES ASSUME Init PROVE SoloInv
  OBVIOUS
<1>1. run.seen = keys /\ run.stream = wm
  BY DEF Init, InitRun
<1>2. \A c \in Callers : pc[c] = "idle" /\ journal = <<>>
  BY DEF Init
<1>3. Undisturbed /\ Mirrored /\ Positioned
  BY <1>1, <1>2 DEF Undisturbed, Mirrored, Positioned, Unkeyed, Unmarked
<1> QED
  BY <1>3, OneInit DEF SoloInv
-----------------------------------------------------------------------------
(* One record per commit, in commit order; and no event twice.             *)

\* The journal is behind the run by the commit under way, if there is one.
Counted ==
  /\ \A c \in Callers : run.version = IF pc[c] \in Unjournaled THEN Len(journal) + 1
                                                               ELSE Len(journal)
  /\ \A i \in DOMAIN journal : journal[i].version = i

Before(e, f) == DedupeKeys(e) \cap DedupeKeys(f) = {} /\ (e.att = f.att => e.seq < f.seq)

IsEvent(i) == journal[i].op = "event"

\* The mirror knows every journaled event ...
JournalSeen ==
  \A i \in DOMAIN journal :
    IsEvent(i) =>
      LET e == journal[i].event
      IN  /\ e \in Events
          /\ \A k \in DedupeKeys(e) : run.seen[k] # NoEvent
          /\ e.seq < run.stream[e.att]

\* ... and an event on its way to the journal comes after all of them.
PendingNew ==
  \A c \in Callers :
    pc[c] = "append" /\ work[c].rec.op = "event"
      => \A i \in DOMAIN journal : IsEvent(i) => Before(journal[i].event, work[c].rec.event)

LogInv == SoloInv /\ Counted /\ JournalSeen /\ PendingNew /\ EventOnce

\* An event's dedupe keys are keys of the sidecar.
LEMMA KeysOfEvents == ASSUME NEW e \in Events PROVE DedupeKeys(e) \subseteq Keys
BY DEF Keys

\* The mirror forgets nothing.
SeenGrows ==
  /\ \A k \in Keys : run.seen[k] # NoEvent => run'.seen[k] # NoEvent
  /\ \A a \in Attempts : run.stream[a] <= run'.stream[a]

\* A step that keeps the journal keeps what is known of it.
LEMMA SameJournal ==
  ASSUME TypeOK, TypeOK', JournalSeen, EventOnce, SeenGrows, journal' = journal
  PROVE  JournalSeen' /\ EventOnce'
<1>1. EventOnce'
  BY DEF EventOnce
<1>2. ASSUME NEW i \in DOMAIN journal, journal[i].op = "event"
      PROVE  LET e == journal[i].event
             IN  /\ e \in Events
                 /\ \A k \in DedupeKeys(e) : run'.seen[k] # NoEvent
                 /\ e.seq < run'.stream[e.att]
  <2> DEFINE e == journal[i].event
  <2>1. /\ e \in Events
        /\ \A k \in DedupeKeys(e) : run.seen[k] # NoEvent
        /\ e.seq < run.stream[e.att]
    BY <1>2 DEF JournalSeen, IsEvent
  <2>2. e.att \in Attempts /\ e.seq \in Nat
    BY <2>1, EventsAssumption
  <2>3. run.stream[e.att] \in Nat /\ run'.stream[e.att] \in Nat
    BY <2>2 DEF TypeOK, RunState
  <2> QED
    BY <2>1, <2>2, <2>3, KeysOfEvents DEF SeenGrows
<1> QED
  BY <1>1, <1>2 DEF JournalSeen, IsEvent

\* The mirror grows with every service call, and an accepted event is new to
\* every journaled one.
LEMMA ServiceLog ==
  ASSUME OneCaller, LogInv, SoloInv', NEW c \in Callers, ServiceEffect(c)
  PROVE  JournalSeen' /\ PendingNew' /\ EventOnce'
<1>t. TypeOK /\ TypeOK' /\ run \in RunState
  BY DEF LogInv, SoloInv, OneInv, Inv, TypeOK
<1>m. pc[c] = "idle" /\ run.seen = keys /\ run.stream = wm /\ journal' = journal
  BY DEF ServiceEffect, LogInv, SoloInv, Mirrored, Unkeyed, Unmarked
<1>1. CASE LeaseCommits(c)
  <2>1. SeenGrows
    BY <1>1, <1>t DEF LeaseCommits, Carries, SeenGrows, RunState
  <2>2. PendingNew'
    BY <1>1 DEF PendingNew, LeaseCommits, Unkeyed, OneCaller
  <2> QED
    BY <1>t, <1>m, <2>1, <2>2, SameJournal DEF LogInv
<1>2. ASSUME NEW e \in Events, EventOf(c, e)
      PROVE  JournalSeen' /\ PendingNew' /\ EventOnce'
  <2>1. e.att \in Attempts /\ e.seq \in Nat /\ e # NoEvent
    BY EventsAssumption, NoneAssumption
  <2>2. SeenGrows
    <3>1. \A k \in Keys : run.seen[k] # NoEvent => run'.seen[k] # NoEvent
      BY <1>2, <1>m, <2>1 DEF EventOf, Keyed
    <3>2. wm \in [Attempts -> Nat]
      BY <1>t DEF TypeOK
    <3>3. \A a \in Attempts : run.stream[a] <= run'.stream[a]
      BY <1>2, <1>m, <2>1, <3>2 DEF EventOf
    <3> QED
      BY <3>1, <3>3 DEF SeenGrows
  <2>3. work'[c].rec.event = e
    BY <1>2 DEF EventOf, EventRecord
  <2>4. ASSUME NEW i \in DOMAIN journal, IsEvent(i) PROVE Before(journal[i].event, e)
    <3>1. /\ journal[i].event \in Events
          /\ \A k \in DedupeKeys(journal[i].event) : keys[k] # NoEvent
          /\ journal[i].event.seq < wm[journal[i].event.att]
      BY <2>4, <1>m DEF LogInv, JournalSeen
    <3> QED
      BY <1>2, <3>1 DEF EventOf, Before
  <2>5. PendingNew'
    BY <1>m, <2>3, <2>4 DEF PendingNew, OneCaller, IsEvent
  <2> QED
    BY <1>t, <1>m, <2>2, <2>5, SameJournal DEF LogInv
<1> QED
  BY <1>1, <1>2 DEF ServiceEffect

\* Appending a record that is not an event's.
LEMMA LeaseRecordLog ==
  ASSUME LogInv, TypeOK', NEW rec \in Record, rec.op # "event", journal' = Append(journal, rec),
         run' = run
  PROVE  JournalSeen' /\ EventOnce'
<1>1. journal \in Seq(Record)
  BY DEF LogInv, SoloInv, OneInv, Inv, TypeOK
<1>2. /\ DOMAIN journal' = DOMAIN journal \cup {Len(journal) + 1}
      /\ \A i \in DOMAIN journal : journal'[i] = journal[i]
      /\ journal'[Len(journal) + 1] = rec
  BY <1>1
<1>3. \A i \in DOMAIN journal' : journal'[i].op = "event" => i \in DOMAIN journal
  BY <1>2
<1>4. EventOnce'
  <2> SUFFICES ASSUME NEW i \in DOMAIN journal', NEW j \in DOMAIN journal', i < j,
                      journal'[i].op = "event", journal'[j].op = "event"
               PROVE  Before(journal'[i].event, journal'[j].event)
    BY DEF EventOnce, Before
  <2>1. i \in DOMAIN journal /\ j \in DOMAIN journal
    BY <1>3
  <2> QED
    BY <1>2, <2>1 DEF LogInv, EventOnce, Before
<1>5. JournalSeen'
  BY <1>2, <1>3 DEF LogInv, JournalSeen, IsEvent
<1> QED
  BY <1>4, <1>5

\* Appending the pending event's.
LEMMA EventRecordLog ==
  ASSUME LogInv, TypeOK', NEW c \in Callers, pc[c] = "append", work[c].rec.op = "event",
         journal' = Append(journal, work[c].rec), run' = run
  PROVE  JournalSeen' /\ EventOnce'
<1> DEFINE rec == work[c].rec
           e   == rec.event
<1>1. journal \in Seq(Record) /\ rec \in Record /\ Len(journal) \in Nat
  BY DEF LogInv, SoloInv, OneInv, Inv, TypeOK, Work
<1>2. /\ DOMAIN journal' = DOMAIN journal \cup {Len(journal) + 1}
      /\ DOMAIN journal = 1..Len(journal)
      /\ \A i \in DOMAIN journal : journal'[i] = journal[i]
      /\ journal'[Len(journal) + 1] = rec
  BY <1>1
<1>3. e \in Events /\ e # NoEvent /\ e.att \in Attempts /\ e.seq \in Nat
  BY EventsAssumption, NoneAssumption
     DEF LogInv, SoloInv, OneInv, Inv, PendingOK, PendingOf
<1>4. run.seen = Keyed(keys, e) /\ run.stream = [wm EXCEPT ![e.att] = e.seq + 1]
  BY DEF LogInv, SoloInv, Mirrored, Unkeyed, Unmarked
<1>5. \A k \in DedupeKeys(e) : run.seen[k] # NoEvent
  BY <1>3, <1>4, KeysOfEvents DEF Keyed
<1>6. e.seq < run.stream[e.att]
  BY <1>3, <1>4 DEF LogInv, SoloInv, OneInv, Inv, TypeOK
<1>7. \A i \in DOMAIN journal : journal[i].op = "event" => Before(journal[i].event, e)
  BY DEF LogInv, PendingNew, IsEvent
<1> HIDE DEF e, rec
<1>8. EventOnce'
  <2> SUFFICES ASSUME NEW i \in DOMAIN journal', NEW j \in DOMAIN journal', i < j,
                      journal'[i].op = "event", journal'[j].op = "event"
               PROVE  Before(journal'[i].event, journal'[j].event)
    BY DEF EventOnce, Before
  <2>1. i \in DOMAIN journal
    BY <1>1, <1>2
  <2>2. CASE j \in DOMAIN journal
    BY <1>2, <2>1, <2>2 DEF LogInv, EventOnce, Before
  <2>3. CASE j = Len(journal) + 1
    BY <1>2, <1>7, <2>1, <2>3 DEF e
  <2> QED
    BY <1>2, <2>2, <2>3
<1>9. JournalSeen'
  <2> SUFFICES ASSUME NEW i \in DOMAIN journal', journal'[i].op = "event"
               PROVE  LET f == journal'[i].event
                      IN  /\ f \in Events
                          /\ \A k \in DedupeKeys(f) : run.seen[k] # NoEvent
                          /\ f.seq < run.stream[f.att]
    BY DEF JournalSeen, IsEvent
  <2>1. CASE i \in DOMAIN journal
    BY <1>2, <2>1 DEF LogInv, JournalSeen, IsEvent
  <2>2. CASE i = Len(journal) + 1
    BY <1>2, <1>3, <1>5, <1>6, <2>2 DEF e
  <2> QED
    BY <1>2, <2>1, <2>2
<1> QED
  BY <1>8, <1>9

\* So the journal stays complete and free of repeated events.
LEMMA LogStep ==
  ASSUME OneCaller, LogInv, SoloInv', NEW c \in Callers, CallService(c) \/ StoreCall(c)
  PROVE  LogInv'
<1>i. Inv /\ Undisturbed /\ SoloInv
  BY DEF LogInv, SoloInv, OneInv
<1>t. /\ TypeOK /\ TypeOK' /\ run \in RunState /\ journal \in Seq(Record)
      /\ work[c] \in Work /\ work[c].rec \in Record /\ run.version \in Nat
      /\ pc \in [Callers -> PC] /\ work \in [Callers -> Work]
  BY DEF LogInv, SoloInv, OneInv, Inv, TypeOK, Work, RunState
<1>u. /\ pc[c] # "idle" => work[c].committed = run.version
      /\ pc[c] = "append" => work[c].rec.version = run.version
  BY DEF LogInv, SoloInv, Undisturbed
<1> DEFINE cnt == run'.version = IF pc'[c] \in Unjournaled THEN Len(journal') + 1
                                                          ELSE Len(journal')
           ver == \A i \in DOMAIN journal' : journal'[i].version = i
           new == JournalSeen' /\ PendingNew' /\ EventOnce'
<1>0. SUFFICES cnt /\ ver /\ new
  BY DEF LogInv, Counted, OneCaller
<1>c. /\ run.version = IF pc[c] \in Unjournaled THEN Len(journal) + 1 ELSE Len(journal)
      /\ \A i \in DOMAIN journal : journal[i].version = i
  BY DEF LogInv, Counted
<1>1. ASSUME NEW rec \in Record, journal' = Append(journal, rec), run' = run,
             rec.version = run.version, pc[c] \in Unjournaled, pc'[c] \notin Unjournaled
      PROVE  cnt /\ ver
  BY <1>1, <1>c, <1>t
<1>2. ASSUME journal' = journal, SeenGrows, ~(pc'[c] = "append" /\ work'[c].rec.op = "event")
      PROVE  new
  BY <1>2, <1>t, SameJournal DEF LogInv, PendingNew, OneCaller
<1>3. ASSUME Carries(run, run') PROVE SeenGrows
  BY <1>3, <1>t DEF Carries, SeenGrows, RunState
<1>4. CASE ServiceEffect(c)
  BY <1>4, <1>c, <1>t, <1>i, ServiceLog DEF ServiceEffect, Unjournaled
<1>5. CASE Synced(c)
  <2>1. Carries(run, run') /\ run'.version = run.version
    BY <1>5, <1>t, SyncCarries DEF Synced
  <2>2. cnt /\ ver
    BY <1>5, <1>c, <2>1 DEF Synced, SyncThen, Unjournaled
  <2> QED
    BY <1>2, <1>3, <1>5, <2>1, <2>2 DEF Synced, SyncThen
<1>6. CASE DetachRead(c) \/ RegisterRead(c)
  <2>1. /\ UNCHANGED <<run, journal>>
        /\ pc[c] \in Unjournaled /\ pc'[c] \in Unjournaled
        /\ pc'[c] \in {"detachAppend", "append"}
    BY <1>6, <1>t DEF DetachRead, RegisterRead, Goto, Unjournaled
  <2>2. ~(pc'[c] = "append" /\ work'[c].rec.op = "event")
    <3>1. CASE DetachRead(c)
      BY <3>1, <1>t DEF DetachRead, Goto
    <3>2. CASE RegisterRead(c)
      <4>1. work[c].rec.op = "grant"
        BY <3>2, <1>i DEF RegisterRead, Inv, PendingOK, PendingOf, GrantPC
      <4>2. work'[c].rec.op = "grant"
        BY <3>2, <1>t, <4>1 DEF RegisterRead, Work, Record
      <4> QED
        BY <4>2
    <3> QED
      BY <1>6, <3>1, <3>2
  <2>3. SeenGrows
    BY <1>3, <2>1 DEF Carries
  <2> QED
    BY <1>2, <1>c, <2>1, <2>2, <2>3
<1>7. CASE DetachAppend(c)
  <2> DEFINE rec == LeaseRecord("detach", work[c].old, NoLease, "NONE", work[c].committed)
  <2>1. /\ pc[c] = "detachAppend" /\ pc'[c] = "detachAppendSync"
        /\ journal' = Append(journal, rec) /\ run' = run
    BY <1>7, <1>t DEF DetachAppend, Goto
  <2>2. rec \in Record /\ rec.op # "event" /\ rec.version = run.version
    <3>1. work[c].old \in LeaseIds \cup {NoLease} /\ work[c].committed = run.version
      BY <1>t, <1>u, <2>1 DEF Work
    <3>2. rec \in Record
      BY <1>t, <3>1, LeaseRecordType DEF Ops
    <3> QED
      BY <3>1, <3>2 DEF LeaseRecord
  <2> HIDE DEF rec
  <2>3. JournalSeen' /\ EventOnce'
    BY <1>t, <2>1, <2>2, LeaseRecordLog
  <2>4. PendingNew'
    BY <2>1 DEF PendingNew, OneCaller
  <2>5. cnt /\ ver
    BY <1>1, <2>1, <2>2 DEF Unjournaled
  <2> QED
    BY <2>3, <2>4, <2>5
<1>8. CASE Register(c)
  <2>1. work[c].rec.lid \in LeaseIds /\ work[c].rec.lease \in Lease
    BY <1>8, <1>i DEF Register, Inv, PendingOK, PendingOf, GrantPC
  <2>2. /\ pc'[c] = "registerSync" /\ journal' = journal
        /\ Carries(run, run') /\ run'.version = run.version + 1
    <3>1. Commit(c, work[c].rec.lid, work[c].rec.lease)
      BY <1>8 DEF Register
    <3> QED
      BY <1>i, <2>1, <3>1, CommitEffect, Zenon
  <2>3. cnt /\ ver
    BY <1>8, <1>c, <2>2 DEF Register, Unjournaled
  <2> QED
    BY <1>2, <1>3, <2>2, <2>3
<1>9. CASE JournalAppend(c)
  <2>1. /\ pc[c] = "append" /\ run' = run /\ journal' = Append(journal, work[c].rec)
        /\ pc'[c] \in {"dedupe", "appendSync"}
    BY <1>9, <1>t DEF JournalAppend, Goto
  <2>2. cnt /\ ver
    BY <1>1, <1>t, <1>u, <2>1 DEF Unjournaled
  <2>3. PendingNew'
    BY <2>1 DEF PendingNew, OneCaller
  <2>4. JournalSeen' /\ EventOnce'
    BY <1>t, <2>1, LeaseRecordLog, EventRecordLog
  <2> QED
    BY <2>2, <2>3, <2>4
<1>10. CASE DedupePut(c) \/ SaveStreamWatermark(c)
  <2>1. /\ UNCHANGED <<run, journal>>
        /\ pc[c] \in {"dedupe", "watermark"} /\ pc'[c] \in {"watermark", "appendSync"}
    BY <1>10, <1>t DEF DedupePut, SaveStreamWatermark, Goto
  <2>2. SeenGrows
    BY <1>3, <2>1 DEF Carries
  <2> QED
    BY <1>2, <1>c, <2>1, <2>2 DEF Unjournaled
<1> QED
  BY <1>i, <1>4, <1>5, <1>6, <1>7, <1>8, <1>9, <1>10, ServiceShape, StoreShape

\* With one caller every step preserves it.
LEMMA LogNext == ASSUME OneCaller PROVE LogInv /\ [Next]_vars => LogInv'
<1> SUFFICES ASSUME LogInv, [Next]_vars PROVE LogInv'
  OBVIOUS
<1>1. SoloInv'
  BY SoloNext DEF LogInv
<1>2. CASE UNCHANGED <<run, journal, pc, work>>
  BY <1>1, <1>2 DEF LogInv, Counted, JournalSeen, PendingNew, EventOnce, IsEvent
<1>3. ASSUME NEW c \in Callers, GetRun(c) PROVE LogInv'
  BY <1>2, <1>3 DEF GetRun
<1> QED
  BY <1>1, <1>2, <1>3, LogStep DEF Next, vars

\* It holds of a new run.
LEMMA LogInit == Init => LogInv
<1> SUFFICES ASSUME Init PROVE LogInv
  OBVIOUS
<1>1. journal = <<>> /\ run.version = 0 /\ \A c \in Callers : pc[c] = "idle"
  BY DEF Init, InitRun
<1> QED
  BY <1>1, SoloInit DEF LogInv, Counted, JournalSeen, PendingNew, EventOnce, Unjournaled

\* With one caller no two journaled events share an event id or an idempotency
\* key, and a stream's sequence numbers grow: route's dedupe and watermark
\* checks against the store are enough although it writes them after its commit.
THEOREM AcceptedInOrder ==
  ASSUME OneCaller
  PROVE  Spec => []EventOnce
<1>1. LogInv => EventOnce
  BY DEF LogInv
<1> QED
  BY <1>1, LogInit, LogNext, PTL DEF Spec

\* With one caller there is exactly one record per commit, in commit order, and
\* journal_position is that of the last one, whenever no call is under way.
THEOREM OneRecordPerCommit ==
  ASSUME OneCaller, Callers # {}
  PROVE  Spec => []JournalComplete
<1>1. LogInv => JournalComplete
  <2> SUFFICES ASSUME LogInv, Quiescent PROVE JournalComplete
    BY DEF JournalComplete
  <2>1. PICK c \in Callers : pc[c] = "idle"
    BY DEF Quiescent
  <2>2. Len(journal) = run.version /\ \A i \in DOMAIN journal : journal[i].version = i
    BY <2>1 DEF LogInv, Counted, Unjournaled
  <2>3. run.version > 0 => run.jp = LastRecordIndex
    BY <2>1, <2>2 DEF LogInv, SoloInv, Positioned
  <2> QED
    BY <2>2, <2>3 DEF JournalComplete
<1> QED
  BY <1>1, LogInit, LogNext, PTL DEF Spec

\* With one caller the dedupe keys and watermarks mirrored into the run are the
\* store's whenever no call is under way.
THEOREM SidecarsAgree ==
  ASSUME OneCaller, Callers # {}
  PROVE  Spec => []SidecarsMirrored
<1>1. SoloInv => SidecarsMirrored
  BY DEF SoloInv, SidecarsMirrored, Quiescent, Mirrored, Unkeyed, Unmarked
<1> QED
  BY <1>1, SoloInit, SoloNext, PTL DEF Spec
-----------------------------------------------------------------------------
(* Lease generations.                                                       *)

\* A grant that has detached the old lease is still ahead of its attempt.
GenerationAhead ==
  \A c \in Callers :
    pc[c] \in DetachPC
      => run.attempt[work[c].rec.lease.att].gen < work[c].rec.lease.gen

GenInv == SoloInv /\ GenerationAhead

\* What grant compares with is at least the attempt record's generation: with
\* ACTIVE leases bound, it is that generation.
LEMMA CurrentGenerationIs ==
  ASSUME NEW rs \in RunState, NEW a \in Attempts, AllBound(rs)
  PROVE  CurrentGeneration(rs, a) = rs.attempt[a].gen
<1> DEFINE g    == rs.attempt[a].gen
           gens == {g} \cup {rs.leases[l].gen : l \in ActiveLeases(rs, a)}
<1>1. g \in Nat
  BY DEF RunState, AttemptRecord
<1>2. \A l \in ActiveLeases(rs, a) : rs.leases[l].gen = g
  BY DEF ActiveLeases, AllBound, BoundTo
<1>3. gens = {g}
  BY <1>2
<1> HIDE DEF g
<1>4. CurrentGeneration(rs, a) = CHOOSE h \in gens : \A k \in gens : k <= h
  BY DEF CurrentGeneration, g
<1> HIDE DEF gens
<1>5. \A h \in {g} : (\A k \in {g} : k <= h) <=> TRUE
  BY <1>1
<1>6. (CHOOSE h \in gens : \A k \in gens : k <= h) \in {g}
  BY <1>3, <1>5
<1> QED
  BY <1>4, <1>6 DEF g

GenerationsKept == \A a \in Attempts : run'.attempt[a].gen >= run.attempt[a].gen

\* A step that keeps the attempt records' generations.
LEMMA SameGenerations ==
  ASSUME Inv, \A a \in Attempts : run'.attempt[a].gen = run.attempt[a].gen
  PROVE  GenerationsKept
BY DEF Inv, TypeOK, RunState, AttemptRecord, GenerationsKept

\* Registering a lease of a later generation.
LEMMA CommitGeneration ==
  ASSUME Inv, NEW c \in Callers, NEW l \in LeaseIds, NEW lease \in Lease, Commit(c, l, lease),
         run.attempt[lease.att].gen < lease.gen
  PROVE  GenerationsKept
<1>1. snap[c] \in RunState /\ snap[c].version = run.version
  BY DEF Inv, TypeOK, Commit, PutRun
<1>2. snap[c].attempt = run.attempt
  BY <1>1, SameFields DEF Inv
<1>3. run' = Registered(snap[c], l, lease)
  BY DEF Commit, PutRun
<1>4. run'.attempt = NewAttempt(snap[c], l, lease)
  BY <1>1, <1>3, RegisteredFacts, Zenon
<1>5. run.attempt \in [Attempts -> AttemptRecord] /\ lease.att \in Attempts /\ lease.gen \in Nat
  BY DEF Inv, TypeOK, RunState, Lease
<1>6. run'.attempt = [run.attempt EXCEPT ![lease.att] = Bound(run.attempt[lease.att], l, lease)]
  BY <1>2, <1>4 DEF NewAttempt
<1>7. Bound(run.attempt[lease.att], l, lease).gen = lease.gen
  BY <1>5 DEF Bound, AttemptRecord
<1> QED
  BY <1>5, <1>6, <1>7 DEF GenerationsKept, AttemptRecord

\* The service calls.
LEMMA ServiceGenerations ==
  ASSUME OneCaller, GenInv, NEW c \in Callers, CallService(c)
  PROVE  GenerationAhead' /\ GenerationsKept
<1>i. Inv /\ OneInv /\ SoloInv
  BY DEF GenInv, SoloInv, OneInv
<1>s. snap[c] \in RunState /\ run \in RunState
  BY <1>i DEF Inv, TypeOK
<1>0. ASSUME pc'[c] \notin DetachPC PROVE GenerationAhead'
  BY <1>0 DEF GenerationAhead, OneCaller
<1>1. ASSUME NEW new, PutRun(new, snap[c].version), new.attempt = snap[c].attempt
      PROVE  run'.attempt = run.attempt
  BY <1>1, <1>i, SameFields DEF PutRun, Inv
<1>2. ASSUME NEW rec, ThenJournal(c, rec) PROVE GenerationAhead'
  BY <1>0, <1>2, <1>i DEF ThenJournal, Goto, DetachPC, Inv, TypeOK
<1>3. ASSUME run'.attempt = run.attempt PROVE GenerationsKept
  BY <1>3, <1>i, SameGenerations
<1>4. ASSUME NEW l \in LeaseIds, Expire(c, l) PROVE GenerationAhead' /\ GenerationsKept
  <2>1. Held(snap[c], l) /\ GenerationAhead'
    BY <1>2, <1>4 DEF Expire, IsActive
  <2>2. CASE IsCurrentLease(snap[c], l)
    <3>1. PutRun(ExpiredCurrent(snap[c], l), snap[c].version)
      BY <1>4, <2>2 DEF Expire
    <3>2. snap[c].attempt = run.attempt /\ run' = ExpiredCurrent(snap[c], l)
      BY <3>1, <1>i, SameFields DEF PutRun, Inv
    <3> DEFINE b == snap[c].leases[l].att
    <3>b. b \in Attempts /\ run.attempt \in [Attempts -> AttemptRecord]
      BY <1>s, <2>1 DEF RunState, Held, Lease
    <3>a. ExpiredCurrent(snap[c], l).attempt
            = [snap[c].attempt EXCEPT ![b].status = "LEASE_EXPIRED", ![b].lease = NoLease]
      BY <1>s, <2>1, ExpiredCurrentFacts, Zenon
    <3>3. run'.attempt = [run.attempt EXCEPT ![b].status = "LEASE_EXPIRED",
                                             ![b].lease = NoLease]
      BY <3>2, <3>a, Zenon
    <3> HIDE DEF b
    <3>4. \A a \in Attempts : run'.attempt[a].gen = run.attempt[a].gen
      BY <3>b, <3>3 DEF AttemptRecord
    <3> QED
      BY <1>i, <2>1, <3>4, SameGenerations
  <2>3. CASE ~IsCurrentLease(snap[c], l)
    <3>1. PutRun(SetStatus(snap[c], l, "EXPIRED"), snap[c].version)
      BY <1>4, <2>3 DEF Expire
    <3>2. SetStatus(snap[c], l, "EXPIRED").attempt = snap[c].attempt
      BY <1>s, <2>1, SetStatusFacts DEF LeaseStatus
    <3> QED
      BY <1>1, <1>3, <2>1, <3>1, <3>2
  <2> QED
    BY <2>2, <2>3
<1>5. ASSUME NEW l \in LeaseIds, NEW st \in {"RELEASED", "REVOKED"}, IsActive(snap[c], l),
             PutRun(SetStatus(snap[c], l, st), snap[c].version)
      PROVE  GenerationsKept
  <2>1. st \in LeaseStatus /\ Held(snap[c], l)
    BY <1>5 DEF LeaseStatus, IsActive
  <2>2. SetStatus(snap[c], l, st).attempt = snap[c].attempt
    BY <1>s, <2>1, SetStatusFacts
  <2> QED
    BY <1>1, <1>3, <1>5, <2>2
<1>6. ASSUME NEW l \in LeaseIds, Revoke(c, l) PROVE GenerationAhead' /\ GenerationsKept
  BY <1>2, <1>5, <1>6 DEF Revoke
<1>7. ASSUME NEW l \in LeaseIds, NEW now \in Times, Release(c, l, now)
      PROVE  GenerationAhead' /\ GenerationsKept
  BY <1>2, <1>5, <1>7 DEF Release
<1>8. ASSUME NEW l \in LeaseIds, NEW token \in Tokens, NEW expires \in Times,
             NEW now \in Times, Renew(c, l, token, expires, now)
      PROVE  GenerationAhead' /\ GenerationsKept
  <2>1. Held(snap[c], l) /\ PutRun(Renewed(snap[c], l, expires), snap[c].version)
    BY <1>8 DEF Renew, IsActive
  <2>2. Renewed(snap[c], l, expires).attempt = snap[c].attempt
    BY <1>s, <2>1, RenewedFacts
  <2> QED
    BY <1>1, <1>2, <1>3, <1>8, <2>1, <2>2 DEF Renew
<1>9. ASSUME NEW l \in LeaseIds, NEW a \in Attempts, NEW token \in Tokens,
             NEW expires \in Times, NEW gen \in 1..MaxGeneration,
             gen > CurrentGeneration(snap[c], a), snap[c].version = run.version
      PROVE  /\ run.attempt[a].gen < NewLease(a, token, expires, gen).gen
             /\ NewLease(a, token, expires, gen).att = a
  <2>1. AllBound(snap[c]) /\ snap[c].attempt = run.attempt
    BY <1>9, <1>i, SnapBound, SameFields DEF Inv
  <2>2. CurrentGeneration(snap[c], a) = run.attempt[a].gen
    BY <1>s, <2>1, CurrentGenerationIs
  <2>3. run.attempt[a].gen \in Nat /\ gen \in Nat
    BY <1>s, BoundsAssumption DEF RunState, AttemptRecord
  <2> QED
    BY <1>9, <2>2, <2>3 DEF NewLease
<1>10. ASSUME NEW l \in LeaseIds, NEW a \in Attempts, NEW token \in Tokens,
             NEW expires \in Times, NEW gen \in 1..MaxGeneration,
             Grant(c, l, a, token, expires, gen)
      PROVE  GenerationAhead' /\ GenerationsKept
  <2> DEFINE lease == NewLease(a, token, expires, gen)
  <2>1. /\ Commit(c, l, lease) /\ snap[c].version = run.version
        /\ gen > CurrentGeneration(snap[c], a)
    BY <1>10 DEF Grant, Commit, PutRun
  <2>2. lease \in Lease
    BY NewLeaseType
  <2>3. run.attempt[a].gen < lease.gen /\ lease.att = a
    BY <1>9, <2>1
  <2> HIDE DEF lease
  <2>4. GenerationsKept
    BY <1>i, <2>1, <2>2, <2>3, CommitGeneration
  <2>5. pc'[c] = "registerSync"
    BY <1>i, <2>1 DEF Commit, Goto, Inv, TypeOK
  <2> QED
    BY <1>0, <2>4, <2>5 DEF DetachPC
<1>11. ASSUME NEW l \in LeaseIds, NEW a \in Attempts, NEW token \in Tokens,
             NEW expires \in Times, NEW gen \in 1..MaxGeneration,
             GrantDetach(c, l, a, token, expires, gen)
      PROVE  GenerationAhead' /\ GenerationsKept
  <2> DEFINE rec == LeaseRecord("grant", l, NewLease(a, token, expires, gen), "NONE", 0)
  <2>1. PICK old \in ActiveLeases(snap[c], a) :
          /\ PutRun(SetStatus(snap[c], old, "RELEASED"), snap[c].version)
          /\ work' = [work EXCEPT ![c] =
               Pending(rec, old, SetStatus(snap[c], old, "RELEASED").version)]
    BY <1>11 DEF GrantDetach
  <2>2. old \in LeaseIds /\ Held(snap[c], old) /\ snap[c].version = run.version
    BY <2>1 DEF ActiveLeases, IsActive, PutRun
  <2>3. SetStatus(snap[c], old, "RELEASED").attempt = snap[c].attempt
    BY <1>s, <2>2, SetStatusFacts DEF LeaseStatus
  <2>4. run'.attempt = run.attempt
    BY <1>1, <2>1, <2>3
  <2>5. gen > CurrentGeneration(snap[c], a)
    BY <1>11 DEF GrantDetach
  <2>6. work'[c].rec.lease = NewLease(a, token, expires, gen)
    BY <1>i, <2>1 DEF Inv, TypeOK, Pending, LeaseRecord
  <2>7. run'.attempt[work'[c].rec.lease.att].gen < work'[c].rec.lease.gen
    BY <1>9, <2>2, <2>4, <2>5, <2>6
  <2> QED
    BY <1>3, <2>4, <2>7 DEF GenerationAhead, OneCaller
<1>12. ASSUME NEW e \in Events, Route(c, e) PROVE GenerationAhead' /\ GenerationsKept
  <2>1. PICK s \in NextNodeStatus(snap[c], e) :
          PutRun(Applied(snap[c], e, s), snap[c].version)
    BY <1>12 DEF Route
  <2>2. Applied(snap[c], e, s).attempt = snap[c].attempt
    BY <1>s DEF Applied, RunState
  <2>3. pc'[c] = "append"
    BY <1>12, <1>i DEF Route, Goto, Inv, TypeOK
  <2> QED
    BY <1>0, <1>1, <1>3, <2>1, <2>2, <2>3 DEF DetachPC
<1> QED
  BY <1>4, <1>6, <1>7, <1>8, <1>10, <1>11, <1>12 DEF CallService

\* The store calls: only the second half of a grant moves a generation.
LEMMA StoreGenerations ==
  ASSUME OneCaller, GenInv, NEW c \in Callers, StoreCall(c)
  PROVE  GenerationAhead' /\ GenerationsKept
<1>i. Inv /\ Undisturbed /\ TypeOK
  BY DEF GenInv, SoloInv, OneInv, Inv
<1>t. /\ pc \in [Callers -> PC] /\ work \in [Callers -> Work] /\ run \in RunState
      /\ work[c] \in Work /\ work[c].rec \in Record
  BY <1>i DEF TypeOK, Work
<1>1. CASE Register(c)
  <2>1. /\ Commit(c, work[c].rec.lid, work[c].rec.lease)
        /\ work[c].rec.lid \in LeaseIds /\ work[c].rec.lease \in Lease
        /\ run.attempt[work[c].rec.lease.att].gen < work[c].rec.lease.gen
    BY <1>1, <1>i DEF Register, Inv, PendingOK, PendingOf, GrantPC, GenInv, GenerationAhead,
       DetachPC
  <2>2. pc'[c] = "registerSync"
    BY <1>t, <2>1 DEF Commit, Goto
  <2>3. GenerationsKept
    BY <1>i, <2>1, CommitGeneration
  <2> QED
    BY <2>2, <2>3 DEF GenerationAhead, OneCaller, DetachPC
<1>2. ASSUME run'.attempt = run.attempt,
             pc'[c] \in DetachPC => pc[c] \in DetachPC /\ work'[c].rec.lease = work[c].rec.lease
      PROVE  GenerationAhead' /\ GenerationsKept
  BY <1>2, <1>i, SameGenerations DEF GenInv, GenerationAhead, OneCaller
<1>3. CASE Synced(c)
  <2>1. run'.attempt = run.attempt
    BY <1>3, <1>t DEF Synced, SyncJournalPosition, RunState
  <2> QED
    BY <1>2, <1>3, <2>1 DEF Synced, SyncThen, DetachPC
<1>4. CASE DetachRead(c)
  <2>1. work'[c].rec = work[c].rec
    BY <1>4, <1>t DEF DetachRead, Work
  <2> QED
    BY <1>2, <1>4, <2>1 DEF DetachRead, DetachPC
<1>5. CASE DetachAppend(c)
  BY <1>2, <1>5 DEF DetachAppend, DetachPC
<1>6. CASE RegisterRead(c) \/ JournalAppend(c) \/ DedupePut(c) \/ SaveStreamWatermark(c)
  <2>1. pc'[c] \notin DetachPC /\ run' = run
    BY <1>6, <1>t DEF RegisterRead, JournalAppend, DedupePut, SaveStreamWatermark, Goto, DetachPC
  <2> QED
    BY <1>2, <2>1
<1> QED
  BY <1>i, <1>1, <1>3, <1>4, <1>5, <1>6, StoreShape

\* A step of one caller keeps the invariant and no generation regresses.
LEMMA GenNext ==
  ASSUME OneCaller PROVE GenInv /\ [Next]_vars => GenInv' /\ [GenerationsKept]_vars
<1> SUFFICES ASSUME GenInv, [Next]_vars PROVE GenInv' /\ [GenerationsKept]_vars
  OBVIOUS
<1>1. SoloInv'
  BY SoloNext DEF GenInv
<1>2. CASE UNCHANGED vars
  BY <1>1, <1>2 DEF vars, GenInv, GenerationAhead
<1>3. ASSUME NEW c \in Callers, GetRun(c) PROVE GenerationAhead' /\ GenerationsKept
  BY <1>3, SameGenerations DEF GetRun, GenInv, SoloInv, OneInv, GenerationAhead
<1> QED
  BY <1>1, <1>2, <1>3, ServiceGenerations, StoreGenerations DEF Next, GenInv

\* With one caller the generation an attempt is bound to never goes back,
\* although grant compares it before it detaches and writes it after.
THEOREM GenerationsAdvance ==
  ASSUME OneCaller
  PROVE  Spec => GenerationNeverRegresses
<1>1. Init => GenInv
  BY SoloInit DEF GenInv, GenerationAhead, Init, DetachPC
<1>2. GenInv /\ [Next]_vars => GenInv' /\ [GenerationsKept]_vars
  BY GenNext
<1> QED
  BY <1>1, <1>2, PTL DEF Spec, GenerationNeverRegresses, GenerationsKept
-----------------------------------------------------------------------------
(* Induction over the naturals, in the form of sets.                       *)

\* A set of naturals that is not empty has a least element.
LEMMA NatLeast ==
  ASSUME NEW T, T \subseteq Nat, T # {}
  PROVE  \E x \in T : \A y \in T : ~(y < x)
<1> DEFINE R == OpToRel(<, Nat)
<1>1. IsWellFoundedOn(R, Nat)
  BY NatLessThanWellFounded
<1>2. \A x, y \in Nat : <<y, x>> \in R <=> y < x
  BY DEF OpToRel
<1> HIDE DEF R
<1>3. \E x \in T : \A y \in T : ~(<<y, x>> \in R)
  BY <1>1, WFMin, Zenon
<1> QED
  BY <1>2, <1>3

\* A set with 0 that is closed under successor has every natural.
LEMMA NatSetInduction ==
  ASSUME NEW S, 0 \in S, \A n \in Nat : n \in S => n + 1 \in S
  PROVE  Nat \subseteq S
<1> SUFFICES ASSUME Nat \ S # {} PROVE FALSE
  OBVIOUS
<1>1. PICK x \in Nat \ S : \A y \in Nat \ S : ~(y < x)
  BY NatLeast
<1>2. x - 1 \in Nat /\ x - 1 < x
  BY <1>1
<1>3. x - 1 \in S
  BY <1>1, <1>2
<1> QED
  BY <1>1, <1>2, <1>3
-----------------------------------------------------------------------------
(* What replay_records computes.                                           *)

\* g lists the states of a replay of j over base, up to position n.
Unfolds(g, j, base, n) ==
  g = [i \in (base.jp + 1)..n |->
         IF i = base.jp + 1 THEN base ELSE ApplyRuntimeRecord(g[i - 1], j[i], i)]

\* A replay can be carried on for one more record.
LEMMA UnfoldMore ==
  ASSUME NEW j, NEW base, NEW n \in Nat, base.jp + 1 \in 0..n, NEW g, Unfolds(g, j, base, n)
  PROVE  \E h : Unfolds(h, j, base, n + 1)
<1> DEFINE b == base.jp + 1
           x == ApplyRuntimeRecord(g[n], j[n + 1], n + 1)
           h == [i \in b..(n + 1) |-> IF i = n + 1 THEN x ELSE g[i]]
<1>1. b \in 0..n /\ g = [i \in b..n |-> IF i = b THEN base ELSE ApplyRuntimeRecord(g[i - 1], j[i], i)]
  BY DEF Unfolds
<1> HIDE DEF b
<1>2. ASSUME NEW i \in b..n
      PROVE  h[i] = IF i = b THEN base ELSE ApplyRuntimeRecord(h[i - 1], j[i], i)
  <2>1. h[i] = g[i]
    BY <1>1
  <2>2. i # b => h[i - 1] = g[i - 1]
    BY <1>1
  <2> HIDE DEF h
  <2> QED
    BY <1>1, <2>1, <2>2
<1>3. h[n + 1] = x /\ h[n] = g[n] /\ n + 1 # b
  BY <1>1
<1>4. h[n + 1] = ApplyRuntimeRecord(h[(n + 1) - 1], j[n + 1], n + 1)
  BY <1>3
<1>5. \A i \in b..(n + 1) : i \in b..n \/ i = n + 1
  BY <1>1
<1>6. h = [i \in b..(n + 1) |-> h[i]]
  OBVIOUS
<1> HIDE DEF h, x
<1>7. \A i \in b..(n + 1) :
        h[i] = IF i = b THEN base ELSE ApplyRuntimeRecord(h[i - 1], j[i], i)
  BY <1>2, <1>3, <1>4, <1>5
<1>8. h = [i \in b..(n + 1) |-> IF i = b THEN base ELSE ApplyRuntimeRecord(h[i - 1], j[i], i)]
  BY <1>6, <1>7
<1> QED
  BY <1>8 DEF Unfolds, b

\* So there is a replay of any length.
LEMMA UnfoldExists ==
  ASSUME NEW j, NEW base, NEW n \in Nat, base.jp + 1 \in 0..n
  PROVE  \E g : Unfolds(g, j, base, n)
<1> DEFINE b == base.jp + 1
           S == {k \in Nat : \E g : Unfolds(g, j, base, b + k)}
<1>1. 0 \in S
  <2>1. b + 0 = b /\ b \in Nat
    OBVIOUS
  <2>2. Unfolds([i \in b..b |-> base], j, base, b)
    <3>1. \A i \in b..b : i = b
      BY <2>1
    <3> QED
      BY <3>1 DEF Unfolds
  <2> QED
    BY <2>1, <2>2
<1>2. ASSUME NEW k \in Nat, k \in S PROVE k + 1 \in S
  <2>1. b + k \in Nat /\ b \in 0..(b + k) /\ (b + k) + 1 = b + (k + 1)
    OBVIOUS
  <2>2. PICK g : Unfolds(g, j, base, b + k)
    BY <1>2
  <2>3. \E h : Unfolds(h, j, base, (b + k) + 1)
    BY <2>1, <2>2, UnfoldMore, Zenon
  <2> QED
    BY <2>1, <2>3
<1> HIDE DEF S
<1>3. Nat \subseteq S
  BY <1>1, <1>2, NatSetInduction
<1>4. n - b \in Nat /\ b + (n - b) = n
  OBVIOUS
<1> QED
  BY <1>3, <1>4 DEF S

Extends(k, m, j, n) ==
  n \in Nat /\ m \in Nat /\ n <= m /\ \A i \in 1..n : j[i] = k[i]

\* And replays of the same records agree.
LEMMA UnfoldUnique ==
  ASSUME NEW j, NEW n, NEW k, NEW m, Extends(k, m, j, n), NEW base, base.jp + 1 \in 0..n,
         NEW g, Unfolds(g, j, base, n), NEW h, Unfolds(h, k, base, m)
  PROVE  g[n] = h[n]
<1> USE DEF Extends
<1> DEFINE b == base.jp + 1
           S == {q \in Nat : b + q <= n => g[b + q] = h[b + q]}
<1>b. b \in 0..n
  OBVIOUS
<1>1. /\ g = [i \in b..n |-> IF i = b THEN base ELSE ApplyRuntimeRecord(g[i - 1], j[i], i)]
      /\ h = [i \in b..m |-> IF i = b THEN base ELSE ApplyRuntimeRecord(h[i - 1], k[i], i)]
  BY DEF Unfolds
<1> HIDE DEF b
<1>2. 0 \in S
  BY <1>b, <1>1
<1>3. ASSUME NEW q \in Nat, q \in S PROVE q + 1 \in S
  <2> SUFFICES ASSUME b + (q + 1) <= n PROVE g[b + (q + 1)] = h[b + (q + 1)]
    OBVIOUS
  <2> DEFINE i == b + (q + 1)
  <2>1. i \in b..n /\ i \in b..m /\ i # b /\ i - 1 = b + q /\ i \in 1..n /\ b + q <= n
    BY <1>b
  <2>2. g[b + q] = h[b + q] /\ j[i] = k[i]
    BY <1>3, <2>1
  <2> HIDE DEF i
  <2>3. g[i] = ApplyRuntimeRecord(g[i - 1], j[i], i) /\ h[i] = ApplyRuntimeRecord(h[i - 1], k[i], i)
    BY <1>1, <2>1
  <2>4. g[i] = h[i]
    BY <2>1, <2>2, <2>3
  <2> QED
    BY <2>4 DEF i
<1> HIDE DEF S
<1>4. Nat \subseteq S
  BY <1>2, <1>3, NatSetInduction
<1>5. n - b \in Nat /\ b + (n - b) = n
  BY <1>b
<1> QED
  BY <1>4, <1>5 DEF S

\* replay_records is the end of a replay.
LEMMA ReplayIs ==
  ASSUME NEW j, NEW base, Len(j) \in Nat, base.jp + 1 \in 0..Len(j)
  PROVE  \E g : Unfolds(g, j, base, Len(j)) /\ ReplayRecords(j, base) = g[Len(j)]
<1>1. \E g : Unfolds(g, j, base, Len(j))
  BY UnfoldExists
<1> QED
  BY <1>1 DEF Unfolds, ReplayRecords

\* Over a base that is up to date there is nothing to replay.
LEMMA ReplayNone ==
  ASSUME NEW j, NEW base, Len(j) \in Nat, base.jp + 1 = Len(j)
  PROVE  ReplayRecords(j, base) = base
<1>1. base.jp + 1 \in 0..Len(j)
  OBVIOUS
<1>2. PICK g : Unfolds(g, j, base, Len(j)) /\ ReplayRecords(j, base) = g[Len(j)]
  BY <1>1, ReplayIs
<1>3. Len(j) \in (base.jp + 1)..Len(j)
  OBVIOUS
<1> QED
  BY <1>2, <1>3 DEF Unfolds

\* A replay of one more record applies that record to what the replay gave.
LEMMA ReplayAppend ==
  ASSUME NEW j \in Seq(Record), NEW rec \in Record, NEW base, base.jp + 1 \in 0..Len(j)
  PROVE  ReplayRecords(Append(j, rec), base)
           = ApplyRuntimeRecord(ReplayRecords(j, base), rec, Len(j) + 1)
<1> DEFINE n == Len(j)
           k == Append(j, rec)
<1>1. n \in Nat /\ n + 1 \in Nat /\ Len(k) = n + 1 /\ k[n + 1] = rec /\ \A i \in 1..n : j[i] = k[i]
  OBVIOUS
<1>0. base.jp + 1 \in 0..n
  OBVIOUS
<1> HIDE DEF n, k
<1>2. base.jp + 1 \in 0..Len(k) /\ Len(k) \in Nat /\ n <= n + 1
  BY <1>0, <1>1
<1>3. PICK g : Unfolds(g, j, base, n) /\ ReplayRecords(j, base) = g[n]
  BY <1>0, <1>1, ReplayIs DEF n
<1>4. PICK h : Unfolds(h, k, base, n + 1) /\ ReplayRecords(k, base) = h[n + 1]
  BY <1>1, <1>2, ReplayIs
<1>5. g[n] = h[n]
  <2> DEFINE m == n + 1
  <2>1. Extends(k, m, j, n)
    BY <1>1 DEF Extends
  <2>2. Unfolds(g, j, base, n) /\ Unfolds(h, k, base, m)
    BY <1>3, <1>4
  <2> HIDE DEF m
  <2> QED
    BY <1>0, <2>1, <2>2, UnfoldUnique
<1>6. n + 1 \in (base.jp + 1)..(n + 1) /\ n + 1 # base.jp + 1 /\ (n + 1) - 1 = n
  BY <1>0, <1>1
<1>7. h[n + 1] = ApplyRuntimeRecord(h[(n + 1) - 1], k[n + 1], n + 1)
  BY <1>4, <1>6 DEF Unfolds
<1>8. h[n + 1] = ApplyRuntimeRecord(g[n], rec, n + 1)
  BY <1>1, <1>5, <1>6, <1>7
<1> QED
  BY <1>3, <1>4, <1>8 DEF n, k
-----------------------------------------------------------------------------
(* Checkpoints and recovery keep the invariant of the live services.       *)

\* A checkpoint of the stored run is a run state that has lost nothing.
LEMMA SnapshotFacts ==
  ASSUME TypeOK
  PROVE  /\ Snapshot(run) \in RunState
         /\ Snapshot(run).version = run.version
         /\ Snapshot(run).status = run.status
         /\ Snapshot(run).node = run.node
         /\ Snapshot(run).leases = run.leases
         /\ Snapshot(run).attempt = run.attempt
         /\ Snapshot(run).cursor = run.cursor
         /\ Snapshot(run).jp = Len(journal) - 1
         /\ Snapshot(run).seen
              = [k \in Keys |-> IF keys[k] = NoEvent THEN run.seen[k] ELSE keys[k]]
         /\ Snapshot(run).stream
              = [a \in Attempts |-> IF wm[a] = 0 THEN run.stream[a] ELSE wm[a]]
<1> DEFINE sn == [k \in Keys |-> IF keys[k] = NoEvent THEN run.seen[k] ELSE keys[k]]
           st == [a \in Attempts |-> IF wm[a] = 0 THEN run.stream[a] ELSE wm[a]]
<1>1. run \in RunState /\ Len(journal) - 1 \in Int
  BY DEF TypeOK
<1>2. sn \in [Keys -> Events \cup {NoEvent}] /\ st \in [Attempts -> Nat]
  BY DEF TypeOK, RunState
<1>3. Snapshot(run) = [run EXCEPT !.seen = sn, !.stream = st, !.jp = Len(journal) - 1]
  BY DEF Snapshot, LastRecordIndex
<1> HIDE DEF sn, st
<1>4. /\ Snapshot(run) \in RunState
      /\ Snapshot(run).seen = sn /\ Snapshot(run).stream = st
      /\ Snapshot(run).jp = Len(journal) - 1
  BY <1>1, <1>2, <1>3 DEF RunState
<1>5. /\ Snapshot(run).version = run.version
      /\ Snapshot(run).status = run.status
      /\ Snapshot(run).node = run.node
      /\ Snapshot(run).leases = run.leases
      /\ Snapshot(run).attempt = run.attempt
      /\ Snapshot(run).cursor = run.cursor
  BY <1>1, <1>3 DEF RunState
<1> QED
  BY <1>4, <1>5 DEF sn, st

\* recover_from_checkpoint takes its checkpoint there and then, so that it
\* replays nothing: the target store gets the checkpoint.
LEMMA RecoverIs ==
  ASSUME TypeOK, Recover
  PROVE  /\ run' = Snapshot(run)
         /\ keys' = run'.seen /\ wm' = run'.stream
         /\ journal' = <<>> /\ ckpt' = NoRun /\ accepted' = accepted
         /\ pc' = [c \in Callers |-> "idle"]
         /\ snap' = [c \in Callers |-> run']
         /\ work' = [c \in Callers |-> NoWork]
<1>1. Len(journal) \in Nat
  BY DEF TypeOK
<1>2. Snapshot(run).jp + 1 = Len(journal)
  BY <1>1, SnapshotFacts
<1>3. Replayed(Snapshot(run)) = Snapshot(run)
  BY <1>1, <1>2, ReplayNone DEF Replayed
<1> QED
  BY <1>3 DEF Recover

\* A recovery leaves the invariant of one caller true.
LEMMA RecoverSolo ==
  ASSUME SoloInv, Recover
  PROVE  SoloInv'
<1>1. TypeOK
  BY DEF SoloInv, OneInv, Inv
<1>2. /\ run' = Snapshot(run)
      /\ keys' = run'.seen /\ wm' = run'.stream
      /\ journal' = <<>>
      /\ pc' = [c \in Callers |-> "idle"]
      /\ snap' = [c \in Callers |-> run']
      /\ work' = [c \in Callers |-> NoWork]
  BY <1>1, RecoverIs
<1>3. run' \in RunState /\ run'.leases = run.leases /\ run'.attempt = run.attempt
  BY <1>1, <1>2, SnapshotFacts
<1>4. TypeOK'
  BY <1>2, <1>3, NoWorkType DEF TypeOK, RunState, PC
<1>5. PendingOK'
  BY <1>2 DEF PendingOK, PendingOf, GrantPC
<1>6. SnapshotCoherent'
  BY <1>2, <1>3 DEF SnapshotCoherent, RunState
<1>7. ActiveIsBound'
  BY <1>3, SameBound DEF SoloInv, OneInv, ActiveIsBound, AllBound
<1>8. Detached' /\ Undisturbed'
  BY <1>2 DEF Detached, DetachPC, Undisturbed
<1>9. Mirrored' /\ Positioned'
  BY <1>2 DEF Mirrored, Unkeyed, Unmarked, Positioned
<1> QED
  BY <1>4, <1>5, <1>6, <1>7, <1>8, <1>9 DEF SoloInv, OneInv, Inv
-----------------------------------------------------------------------------
(* Exactly once across crashes.                                            *)

\* The stored run knows the keys of every event ever accepted, also of those
\* whose caller died before it wrote the dedupe sidecar.
AcceptedSeen ==
  \A i \in DOMAIN accepted : \A k \in DedupeKeys(accepted[i]) : run.seen[k] # NoEvent

AcceptInv == SoloInv /\ accepted \in Seq(Events) /\ AcceptedSeen /\ AcceptedOnce

\* The mirror in the run's meta forgets no key.
KeysKept == \A k \in Keys : run.seen[k] # NoEvent => run'.seen[k] # NoEvent

\* Between operations the mirror is the sidecar.
LEMMA IdleMirror ==
  ASSUME SoloInv, NEW c \in Callers, pc[c] = "idle"
  PROVE  run.seen = keys /\ run.stream = wm
BY DEF SoloInv, Mirrored, Unkeyed, Unmarked

\* No step of the services loses one ...
LEMMA LiveKeysKept ==
  ASSUME SoloInv, NEW c \in Callers, GetRun(c) \/ CallService(c) \/ StoreCall(c)
  PROVE  KeysKept
<1>i. Inv /\ TypeOK /\ Undisturbed
  BY DEF SoloInv, OneInv, Inv
<1>1. ASSUME Carries(run, run') PROVE KeysKept
  BY <1>1 DEF Carries, KeysKept
<1>2. ASSUME run' = run PROVE KeysKept
  BY <1>2 DEF KeysKept
<1>3. CASE CallService(c)
  <2>1. ServiceEffect(c)
    BY <1>i, <1>3, ServiceShape
  <2>2. ASSUME NEW e \in Events, EventOf(c, e) PROVE KeysKept
    <3>1. run.seen = keys
      BY <2>1, IdleMirror DEF ServiceEffect
    <3> QED
      BY <2>2, <3>1, NoneAssumption DEF EventOf, Keyed, KeysKept
  <2> QED
    BY <1>1, <2>1, <2>2 DEF ServiceEffect, LeaseCommits
<1>4. CASE StoreCall(c)
  <2>1. ASSUME Register(c) PROVE KeysKept
    <3>1. work[c].rec.lid \in LeaseIds /\ work[c].rec.lease \in Lease
      BY <1>i, <2>1 DEF Register, Inv, PendingOK, PendingOf, GrantPC
    <3>2. Carries(run, run')
      BY <1>i, <2>1, <3>1, CommitEffect DEF Register
    <3> QED
      BY <1>1, <3>2
  <2>2. ASSUME Synced(c) PROVE KeysKept
    BY <1>i, <1>1, <2>2, SyncCarries DEF Synced
  <2>3. ASSUME \/ DetachRead(c) \/ DetachAppend(c) \/ RegisterRead(c) \/ JournalAppend(c)
               \/ DedupePut(c) \/ SaveStreamWatermark(c)
        PROVE  run' = run
    BY <2>3 DEF DetachRead, DetachAppend, RegisterRead, JournalAppend, DedupePut,
                SaveStreamWatermark
  <2> QED
    BY <1>i, <1>2, <1>4, <2>1, <2>2, <2>3, StoreShape
<1> QED
  BY <1>2, <1>3, <1>4 DEF GetRun

\* ... and no recovery.
LEMMA RecoverKeysKept ==
  ASSUME TypeOK, Recover
  PROVE  KeysKept
<1>1. run'.seen = [k \in Keys |-> IF keys[k] = NoEvent THEN run.seen[k] ELSE keys[k]]
  BY RecoverIs, SnapshotFacts
<1> QED
  BY <1>1 DEF KeysKept

\* A step that accepts no event.
LEMMA NothingAccepted ==
  ASSUME AcceptInv, SoloInv', KeysKept, accepted' = accepted
  PROVE  AcceptInv'
<1>1. AcceptedSeen'
  <2> SUFFICES ASSUME NEW i \in DOMAIN accepted, NEW k \in DedupeKeys(accepted[i])
               PROVE  run'.seen[k] # NoEvent
    BY DEF AcceptedSeen
  <2>1. accepted[i] \in Events
    BY DEF AcceptInv
  <2>2. k \in Keys
    BY <2>1, KeysOfEvents
  <2> QED
    BY <2>2 DEF AcceptInv, AcceptedSeen, KeysKept
<1> QED
  BY <1>1 DEF AcceptInv, AcceptedOnce

\* A step that accepts one, whose keys the sidecar does not know.
LEMMA OneAccepted ==
  ASSUME AcceptInv, SoloInv', KeysKept, NEW c \in Callers, pc[c] = "idle",
         NEW e \in Events, EventOf(c, e), accepted' = Append(accepted, e)
  PROVE  AcceptInv'
<1>1. run.seen = keys
  BY IdleMirror DEF AcceptInv
<1>2. \A k \in DedupeKeys(e) : k \in Keys /\ run.seen[k] = NoEvent /\ run'.seen[k] # NoEvent
  BY <1>1, KeysOfEvents, NoneAssumption DEF EventOf, Keyed
<1> DEFINE n == Len(accepted)
<1>3. /\ accepted \in Seq(Events) /\ n \in Nat /\ DOMAIN accepted = 1..n
      /\ accepted' \in Seq(Events) /\ DOMAIN accepted' = 1..(n + 1)
      /\ accepted'[n + 1] = e
      /\ \A i \in 1..n : accepted'[i] = accepted[i] /\ accepted[i] \in Events
  BY DEF AcceptInv
<1> HIDE DEF n
<1>4. \A i \in 1..n : \A k \in DedupeKeys(accepted[i]) :
        k \in Keys /\ run.seen[k] # NoEvent /\ run'.seen[k] # NoEvent
  BY <1>3, KeysOfEvents DEF AcceptInv, AcceptedSeen, KeysKept
<1>5. \A i \in 1..(n + 1) : i \in 1..n \/ i = n + 1
  BY <1>3
<1>6. AcceptedSeen'
  BY <1>2, <1>3, <1>4, <1>5 DEF AcceptedSeen
<1>7. AcceptedOnce'
  <2> SUFFICES ASSUME NEW i \in 1..(n + 1), NEW j \in 1..(n + 1), i < j
               PROVE  DedupeKeys(accepted'[i]) \cap DedupeKeys(accepted'[j]) = {}
    BY <1>3 DEF AcceptedOnce
  <2>1. i \in 1..n
    BY <1>3
  <2>2. CASE j \in 1..n
    BY <1>3, <2>1, <2>2 DEF AcceptInv, AcceptedOnce
  <2>3. CASE j = n + 1
    BY <1>2, <1>3, <1>4, <2>1, <2>3
  <2> QED
    BY <1>5, <2>2, <2>3
<1> QED
  BY <1>3, <1>6, <1>7 DEF AcceptInv

\* Every step of the recoverable run keeps the invariant.
LEMMA AcceptNext == ASSUME OneCaller PROVE AcceptInv /\ [RecNext]_recVars => AcceptInv'
<1> SUFFICES ASSUME AcceptInv, [RecNext]_recVars PROVE AcceptInv'
  OBVIOUS
<1>i. SoloInv /\ Inv /\ TypeOK
  BY DEF AcceptInv, SoloInv, OneInv, Inv
<1>1. CASE UNCHANGED vars /\ accepted' = accepted
  <2>1. SoloInv'
    BY <1>i, <1>1, SoloNext
  <2> QED
    BY <1>1, <2>1, NothingAccepted DEF KeysKept, vars
<1>2. CASE Recover
  BY <1>i, <1>2, RecoverSolo, RecoverKeysKept, RecoverIs, NothingAccepted
<1>3. CASE Live
  <2>1. SoloInv'
    BY <1>i, <1>3, SoloNext DEF Live
  <2>2. PICK c \in Callers : GetRun(c) \/ CallService(c) \/ StoreCall(c)
    BY <1>3 DEF Live, Next
  <2>3. KeysKept
    BY <1>i, <2>2, LiveKeysKept
  <2>4. CASE ~EventCommits(c)
    <3>1. accepted' = accepted
      BY <1>3, <2>4 DEF Live, OneCaller
    <3> QED
      BY <2>1, <2>3, <3>1, NothingAccepted
  <2>5. CASE EventCommits(c)
    <3>1. accepted' = Append(accepted, run'.cursor)
      BY <1>3, <2>5 DEF Live
    <3>2. CallService(c)
      BY <2>2, <2>5, StoreCallPc DEF EventCommits, GetRun
    <3>3. ServiceEffect(c) /\ Unkeyed(pc'[c], work'[c])
      BY <1>i, <2>5, <3>2, ServiceShape DEF EventCommits, Unkeyed
    <3>4. PICK e \in Events : EventOf(c, e)
      BY <3>3 DEF ServiceEffect, LeaseCommits
    <3>5. accepted' = Append(accepted, e) /\ pc[c] = "idle"
      BY <3>1, <3>3, <3>4 DEF EventOf, ServiceEffect
    <3> QED
      BY <2>1, <2>3, <3>4, <3>5, OneAccepted
  <2> QED
    BY <2>4, <2>5
<1> QED
  BY <1>1, <1>2, <1>3 DEF RecNext, TakeCheckpoint, recVars

\* Exactly once: whatever the caller's crashes and recoveries, no two accepted
\* events share an event id or an idempotency key.
THEOREM ExactlyOnce ==
  ASSUME OneCaller
  PROVE  RecSpec => []AcceptedOnce
<1>1. RecInit => AcceptInv
  BY SoloInit DEF RecInit, AcceptInv, AcceptedSeen, AcceptedOnce
<1>2. AcceptInv /\ [RecNext]_recVars => AcceptInv'
  BY AcceptNext
<1> QED
  BY <1>1, <1>2, PTL DEF RecSpec, AcceptInv
-----------------------------------------------------------------------------
(* Replay rebuilds the live run.                                           *)

LeaseAlike(x, y) ==
  /\ x = NoLease <=> y = NoLease
  /\ x # NoLease => x.att = y.att /\ x.token = y.token /\ x.status = y.status

\* Two run states with the same essence, part by part.
Alike(rs, new) ==
  /\ rs.version = new.version /\ rs.status = new.status /\ rs.node = new.node
  /\ rs.seen = new.seen /\ rs.stream = new.stream /\ rs.cursor = new.cursor
  /\ \A l \in LeaseIds : LeaseAlike(rs.leases[l], new.leases[l])
  /\ \A a \in Attempts : rs.attempt[a].token = new.attempt[a].token

\* A state at the same fields, journal_position apart.
LEMMA SameAlike ==
  ASSUME NEW rs, NEW old, NEW new, Alike(rs, old), new.version = old.version,
         new.status = old.status, new.node = old.node, new.leases = old.leases,
         new.attempt = old.attempt, new.seen = old.seen, new.stream = old.stream,
         new.cursor = old.cursor
  PROVE  Alike(rs, new)
BY DEF Alike

\* A snapshot at the stored version is as good as the stored run.
LEMMA SnapAlike ==
  ASSUME TypeOK, SnapshotCoherent, NEW c \in Callers, snap[c].version = run.version,
         NEW rs, Alike(rs, run)
  PROVE  Alike(rs, snap[c])
<1>1. Carries(run, snap[c])
  BY SnapCarries
<1>2. /\ snap[c].node = run.node /\ snap[c].leases = run.leases
      /\ snap[c].attempt = run.attempt
  BY SameFields
<1> QED
  BY <1>1, <1>2, SameAlike DEF Carries

\* Setting journal_position.
LEMMA PositionFacts ==
  ASSUME NEW rs \in RunState, NEW i \in Int
  PROVE  LET new == [rs EXCEPT !.jp = i]
         IN  /\ new \in RunState
             /\ new.jp = i
             /\ \A x : Alike(rs, x) => Alike(new, x)
<1> DEFINE new == [rs EXCEPT !.jp = i]
<1>1. new \in RunState /\ new.jp = i
  BY DEF RunState
<1>2. /\ new.version = rs.version /\ new.status = rs.status /\ new.node = rs.node
      /\ new.leases = rs.leases /\ new.attempt = rs.attempt
      /\ new.seen = rs.seen /\ new.stream = rs.stream /\ new.cursor = rs.cursor
  BY DEF RunState
<1> HIDE DEF new
<1>3. \A x : Alike(rs, x) => Alike(new, x)
  BY <1>2 DEF Alike
<1> QED
  BY <1>1, <1>3 DEF new

\* What a "detach" record rebuilds.
LEMMA ReplayDetachFacts ==
  ASSUME NEW rs \in RunState, NEW l \in LeaseIds, Held(rs, l), NEW v \in Nat
  PROVE  LET new == ReplayDetach(rs, l, v)
         IN  /\ new \in RunState
             /\ new.version = v /\ new.status = rs.status /\ new.node = rs.node
             /\ new.seen = rs.seen /\ new.stream = rs.stream /\ new.cursor = rs.cursor
             /\ new.attempt = rs.attempt
             /\ new.leases = [rs.leases EXCEPT ![l].status = "RELEASED"]
<1> DEFINE ls == [rs.leases EXCEPT ![l] = IF @ = NoLease THEN @
                                          ELSE [@ EXCEPT !.status = "RELEASED"]]
           new == ReplayDetach(rs, l, v)
<1>1. new = [rs EXCEPT !.version = v, !.leases = ls]
  BY DEF ReplayDetach, RunState
<1>2. ls = [rs.leases EXCEPT ![l].status = "RELEASED"]
  BY DEF Held, RunState
<1>3. ls \in [LeaseIds -> Lease \cup {NoLease}]
  BY DEF Held, RunState, Lease, LeaseStatus
<1> HIDE DEF ls, new
<1>4. /\ new \in RunState
      /\ new.version = v /\ new.status = rs.status /\ new.node = rs.node
      /\ new.seen = rs.seen /\ new.stream = rs.stream /\ new.cursor = rs.cursor
      /\ new.attempt = rs.attempt /\ new.leases = ls
  BY <1>1, <1>3 DEF RunState
<1> QED
  BY <1>2, <1>4 DEF new

\* What a "grant" record rebuilds.
LEMMA ReplayGrantFacts ==
  ASSUME NEW rs \in RunState, NEW l \in LeaseIds, NEW lease \in Lease, NEW v \in Nat
  PROVE  /\ ReplayGrant(rs, l, lease, v) \in RunState
         /\ Carries(rs, ReplayGrant(rs, l, lease, v))
         /\ ReplayGrant(rs, l, lease, v).version = v
         /\ ReplayGrant(rs, l, lease, v).node = NewNode(rs, l, lease)
         /\ ReplayGrant(rs, l, lease, v).leases = [rs.leases EXCEPT ![l] = [lease EXCEPT !.gen = 0]]
         /\ ReplayGrant(rs, l, lease, v).attempt
              = [rs.attempt EXCEPT ![lease.att].lease = l, ![lease.att].token = lease.token]
<1> DEFINE a   == lease.att
           ls  == [rs.leases EXCEPT ![l] = [lease EXCEPT !.gen = 0]]
           act == {k \in LeaseIds : ls[k] # NoLease /\ ls[k].status = "ACTIVE"}
           at  == [rs.attempt EXCEPT ![a].lease = l, ![a].token = lease.token]
           nd  == NewNode(rs, l, lease)
           new == ReplayGrant(rs, l, lease, v)
<1>0. a \in Attempts /\ NodeOf[a] \in Nodes
  BY NodeOfAssumption DEF Lease
<1>1. new = [rs EXCEPT !.version = v, !.leases = ls, !.active = act, !.node = nd, !.attempt = at]
  <2>1. new = [rs EXCEPT !.version = v, !.leases = ls, !.active = act,
                         !.node[NodeOf[a]].lease_ref = l,
                         !.attempt[a].lease = l, !.attempt[a].token = lease.token]
    BY DEF ReplayGrant
  <2> HIDE DEF new, ls, act, a
  <2> QED
    BY <1>0, <2>1 DEF RunState, NewNode, a
<1>2. ls \in [LeaseIds -> Lease \cup {NoLease}]
  BY DEF RunState, Lease
<1>3. at \in [Attempts -> AttemptRecord]
  BY DEF RunState, Lease, AttemptRecord
<1>4. nd \in [Nodes -> NodeState]
  BY NodeOfAssumption DEF RunState, Lease, NewNode, NodeState
<1>5. act \in SUBSET LeaseIds
  OBVIOUS
<1> HIDE DEF ls, act, at, nd, new
<1>6. new \in RunState
  BY <1>1, <1>2, <1>3, <1>4, <1>5 DEF RunState
<1>7. /\ new.version = v /\ new.leases = ls /\ new.node = nd /\ new.attempt = at
      /\ Carries(rs, new)
  BY <1>1 DEF RunState, Carries
<1> QED
  BY <1>6, <1>7 DEF new, ls, at, nd, a

\* What the record of an ended lease rebuilds.
LEMMA ReplayEndFacts ==
  ASSUME NEW rs \in RunState, NEW rec \in Record, rec.op \in {"release", "revoke", "expire"},
         rec.lid \in LeaseIds, rec.lease \in Lease, Held(rs, rec.lid)
  PROVE  /\ ReplayEnd(rs, rec) \in RunState
         /\ Carries(rs, ReplayEnd(rs, rec))
         /\ ReplayEnd(rs, rec).version = rec.version
         /\ ReplayEnd(rs, rec).leases = [rs.leases EXCEPT ![rec.lid].status = EndStatus(rec.op)]
         /\ ReplayEnd(rs, rec).node
              = IF rec.node_status = "NONE" THEN rs.node
                ELSE [rs.node EXCEPT ![NodeOf[rec.lease.att]].status = rec.node_status]
         /\ \A a \in Attempts : ReplayEnd(rs, rec).attempt[a].token = rs.attempt[a].token
<1> DEFINE a   == rec.lease.att
           l   == rec.lid
           n   == NodeOf[a]
           ls  == [rs.leases EXCEPT ![l] = IF @ = NoLease THEN @
                                           ELSE [@ EXCEPT !.status = EndStatus(rec.op)]]
           nd  == [rs.node EXCEPT ![n].status = IF rec.node_status = "NONE" THEN @
                                                ELSE rec.node_status]
           at  == [rs.attempt EXCEPT ![a].lease = IF @ = l THEN NoLease ELSE @]
           new == ReplayEnd(rs, rec)
<1>1. new = [rs EXCEPT !.version = rec.version, !.leases = ls, !.active = rs.active \ {l},
                       !.node = nd, !.attempt = at]
  BY DEF ReplayEnd, RunState
<1>t. /\ a \in Attempts /\ l \in LeaseIds /\ n \in Nodes /\ rec.version \in Nat
      /\ rec.node_status \in {"LEASE_EXPIRED", "NONE"}
      /\ rs.leases \in [LeaseIds -> Lease \cup {NoLease}]
      /\ rs.node \in [Nodes -> NodeState] /\ rs.attempt \in [Attempts -> AttemptRecord]
      /\ rs.leases[l] # NoLease
      /\ rs.active \subseteq LeaseIds
  BY NodeOfAssumption DEF Record, Lease, RunState, Held
<1>e. EndStatus(rec.op) \in LeaseStatus
  BY DEF EndStatus, LeaseStatus
<1> HIDE DEF a, l, n
<1>2. ls = [rs.leases EXCEPT ![l].status = EndStatus(rec.op)]
  BY <1>t
<1>3. ls \in [LeaseIds -> Lease \cup {NoLease}]
  BY <1>t, <1>e DEF Lease
<1>4. nd \in [Nodes -> NodeState]
  BY <1>t DEF NodeState, NodeStatus
<1>5. nd = IF rec.node_status = "NONE" THEN rs.node
           ELSE [rs.node EXCEPT ![n].status = rec.node_status]
  BY <1>t DEF NodeState
<1>6. at \in [Attempts -> AttemptRecord] /\ \A b \in Attempts : at[b].token = rs.attempt[b].token
  BY <1>t DEF AttemptRecord
<1>7. rs.active \ {l} \in SUBSET LeaseIds
  BY <1>t
<1> HIDE DEF ls, nd, at, new
<1>8. new \in RunState
  BY <1>1, <1>t, <1>3, <1>4, <1>6, <1>7 DEF RunState
<1>9. /\ new.version = rec.version /\ new.leases = ls /\ new.node = nd /\ new.attempt = at
      /\ Carries(rs, new)
  BY <1>1 DEF RunState, Carries
<1> QED
  BY <1>2, <1>5, <1>6, <1>8, <1>9 DEF new, a, l, n

\* The record of an ended lease rebuilds the state nx that the live operation
\* committed over cur.
LEMMA EndAlike ==
  ASSUME NEW rs \in RunState, NEW cur \in RunState, NEW nx \in RunState, Alike(rs, cur),
         NEW rec \in Record, rec.op \in {"release", "revoke", "expire"}, rec.lid \in LeaseIds,
         rec.lease \in Lease, Held(cur, rec.lid), Carries(cur, nx), nx.version = rec.version,
         nx.leases = [cur.leases EXCEPT ![rec.lid].status = EndStatus(rec.op)],
         nx.node = IF rec.node_status = "NONE" THEN cur.node
                   ELSE [cur.node EXCEPT ![NodeOf[rec.lease.att]].status = rec.node_status],
         \A a \in Attempts : nx.attempt[a].token = cur.attempt[a].token
  PROVE  ReplayEnd(rs, rec) \in RunState /\ Alike(ReplayEnd(rs, rec), nx)
<1> DEFINE x  == ReplayEnd(rs, rec)
           l  == rec.lid
           st == EndStatus(rec.op)
<1>1. /\ rs.node = cur.node /\ Held(rs, l) /\ l \in LeaseIds
      /\ \A k \in LeaseIds : LeaseAlike(rs.leases[k], cur.leases[k])
      /\ \A a \in Attempts : rs.attempt[a].token = cur.attempt[a].token
  BY DEF Alike, LeaseAlike, Held
<1>2. /\ x \in RunState /\ Carries(rs, x) /\ x.version = rec.version
      /\ x.leases = [rs.leases EXCEPT ![l].status = st]
      /\ x.node = IF rec.node_status = "NONE" THEN rs.node
                  ELSE [rs.node EXCEPT ![NodeOf[rec.lease.att]].status = rec.node_status]
      /\ \A a \in Attempts : x.attempt[a].token = rs.attempt[a].token
  BY <1>1, ReplayEndFacts
<1>3. nx.leases = [cur.leases EXCEPT ![l].status = st] /\ Held(cur, l)
  OBVIOUS
<1>4. /\ rs.leases \in [LeaseIds -> Lease \cup {NoLease}]
      /\ cur.leases \in [LeaseIds -> Lease \cup {NoLease}]
  BY DEF RunState
<1>e. st \in LeaseStatus
  BY DEF EndStatus, LeaseStatus
<1> HIDE DEF x, l, st
<1>5. \A k \in LeaseIds : LeaseAlike(x.leases[k], nx.leases[k])
  <2> SUFFICES ASSUME NEW k \in LeaseIds PROVE LeaseAlike(x.leases[k], nx.leases[k])
    OBVIOUS
  <2>1. CASE k # l
    BY <1>1, <1>2, <1>3, <1>4, <2>1
  <2>2. CASE k = l
    <3>1. /\ x.leases[l] = [rs.leases[l] EXCEPT !.status = st]
          /\ nx.leases[l] = [cur.leases[l] EXCEPT !.status = st]
          /\ rs.leases[l] \in Lease /\ cur.leases[l] \in Lease
      BY <1>1, <1>2, <1>3, <1>4 DEF Held
    <3>2. LeaseAlike(rs.leases[l], cur.leases[l]) /\ rs.leases[l] # NoLease
      BY <1>1 DEF Held
    <3>3. x.leases[l] # NoLease /\ nx.leases[l] # NoLease
      BY <1>e, <3>1, NoneAssumption DEF Lease
    <3> QED
      BY <2>2, <3>1, <3>2, <3>3 DEF LeaseAlike, Lease
  <2> QED
    BY <2>1, <2>2
<1>6. x.node = nx.node
  BY <1>1, <1>2
<1>7. Alike(x, nx)
  BY <1>1, <1>2, <1>5, <1>6 DEF Alike, Carries
<1> QED
  BY <1>2, <1>7 DEF x

\* A "detach" record.
LEMMA DetachAlike ==
  ASSUME NEW rs \in RunState, NEW cur \in RunState, Alike(rs, cur), NEW l \in LeaseIds,
         Held(cur, l)
  PROVE  LET x == ReplayDetach(rs, l, cur.version + 1)
         IN  x \in RunState /\ Alike(x, SetStatus(cur, l, "RELEASED"))
<1> DEFINE x  == ReplayDetach(rs, l, cur.version + 1)
           nx == SetStatus(cur, l, "RELEASED")
<1>1. /\ Held(rs, l) /\ cur.version + 1 \in Nat
      /\ \A k \in LeaseIds : LeaseAlike(rs.leases[k], cur.leases[k])
  BY DEF Alike, LeaseAlike, Held, RunState
<1>2. /\ x \in RunState
      /\ x.version = cur.version + 1 /\ x.status = rs.status /\ x.node = rs.node
      /\ x.seen = rs.seen /\ x.stream = rs.stream /\ x.cursor = rs.cursor
      /\ x.attempt = rs.attempt
      /\ x.leases = [rs.leases EXCEPT ![l].status = "RELEASED"]
  BY <1>1, ReplayDetachFacts
<1>3. /\ nx \in RunState /\ nx.version = cur.version + 1 /\ nx.node = cur.node
      /\ nx.attempt = cur.attempt /\ nx.leases = [cur.leases EXCEPT ![l].status = "RELEASED"]
  BY SetStatusFacts DEF LeaseStatus
<1>4. Carries(cur, nx)
  BY SetStatusCarries
<1> HIDE DEF x, nx
<1>5. /\ rs.leases \in [LeaseIds -> Lease \cup {NoLease}]
      /\ cur.leases \in [LeaseIds -> Lease \cup {NoLease}]
  BY DEF RunState
<1>6. ASSUME NEW k \in LeaseIds PROVE LeaseAlike(x.leases[k], nx.leases[k])
  <2>1. CASE k # l
    BY <1>1, <1>2, <1>3, <1>5, <2>1
  <2>2. CASE k = l
    <3>1. /\ x.leases[l] = [rs.leases[l] EXCEPT !.status = "RELEASED"]
          /\ nx.leases[l] = [cur.leases[l] EXCEPT !.status = "RELEASED"]
          /\ rs.leases[l] \in Lease /\ cur.leases[l] \in Lease
      BY <1>1, <1>2, <1>3, <1>5 DEF Held
    <3>2. LeaseAlike(rs.leases[l], cur.leases[l]) /\ rs.leases[l] # NoLease
      BY <1>1 DEF Held
    <3>3. x.leases[l] # NoLease /\ nx.leases[l] # NoLease
      BY <3>1, NoneAssumption DEF Lease, LeaseStatus
    <3> QED
      BY <2>2, <3>1, <3>2, <3>3 DEF LeaseAlike, Lease
  <2> QED
    BY <2>1, <2>2
<1>7. Alike(x, nx)
  BY <1>2, <1>3, <1>4, <1>6 DEF Alike, Carries
<1> QED
  BY <1>2, <1>7 DEF x, nx

\* A "grant" record: what the record says of the expiry and the generation
\* does not matter here.
LEMMA GrantAlike ==
  ASSUME NEW rs \in RunState, NEW cur \in RunState, Alike(rs, cur), NEW l \in LeaseIds,
         NEW lease \in Lease
  PROVE  LET x == ReplayGrant(rs, l, lease, cur.version + 1)
         IN  x \in RunState /\ Alike(x, Registered(cur, l, lease))
<1> DEFINE x  == ReplayGrant(rs, l, lease, cur.version + 1)
           nx == Registered(cur, l, lease)
           a  == lease.att
<1>1. /\ x \in RunState /\ Carries(rs, x) /\ x.version = cur.version + 1
      /\ x.node = NewNode(rs, l, lease)
      /\ x.leases = [rs.leases EXCEPT ![l] = [lease EXCEPT !.gen = 0]]
      /\ x.attempt = [rs.attempt EXCEPT ![a].lease = l, ![a].token = lease.token]
  <2>1. cur.version + 1 \in Nat
    BY DEF RunState
  <2> QED
    BY <2>1, ReplayGrantFacts
<1>2. /\ nx \in RunState /\ nx.version = cur.version + 1
      /\ nx.node = NewNode(cur, l, lease)
      /\ nx.attempt = NewAttempt(cur, l, lease)
      /\ nx.leases = NewLeases(cur, l, lease)
  BY RegisteredFacts
<1>3. Carries(cur, nx)
  BY RegisteredCarries
<1> HIDE DEF x, nx
<1>4. /\ rs.leases \in [LeaseIds -> Lease \cup {NoLease}]
      /\ cur.leases \in [LeaseIds -> Lease \cup {NoLease}]
      /\ rs.attempt \in [Attempts -> AttemptRecord]
      /\ cur.attempt \in [Attempts -> AttemptRecord]
      /\ a \in Attempts
  BY DEF RunState, Lease
<1>5. \A k \in LeaseIds : LeaseAlike(x.leases[k], nx.leases[k])
  <2>1. LeaseAlike([lease EXCEPT !.gen = 0], lease)
    BY NoneAssumption DEF LeaseAlike, Lease
  <2> QED
    BY <1>1, <1>2, <1>4, <2>1 DEF NewLeases, Alike
<1>6. \A b \in Attempts : x.attempt[b].token = nx.attempt[b].token
  BY <1>1, <1>2, <1>4 DEF NewAttempt, Bound, Alike, AttemptRecord
<1>7. x.node = nx.node
  BY <1>1, <1>2 DEF NewNode, Alike
<1>8. Alike(x, nx)
  BY <1>1, <1>2, <1>3, <1>5, <1>6, <1>7 DEF Alike, Carries
<1> QED
  BY <1>1, <1>8 DEF x, nx

\* A "renew" record changes the version only, as far as replay looks.
LEMMA RenewAlike ==
  ASSUME NEW rs \in RunState, NEW cur \in RunState, Alike(rs, cur), NEW l \in LeaseIds,
         Held(cur, l), NEW t \in Times
  PROVE  LET x == [rs EXCEPT !.version = cur.version + 1]
         IN  x \in RunState /\ Alike(x, Renewed(cur, l, t))
<1> DEFINE x  == [rs EXCEPT !.version = cur.version + 1]
           nx == Renewed(cur, l, t)
<1>1. /\ x \in RunState /\ x.version = cur.version + 1 /\ Carries(rs, x)
      /\ x.node = rs.node /\ x.leases = rs.leases /\ x.attempt = rs.attempt
  BY DEF RunState, Carries
<1>2. /\ nx \in RunState /\ nx.version = cur.version + 1 /\ nx.node = cur.node
      /\ nx.attempt = cur.attempt /\ nx.leases = [cur.leases EXCEPT ![l].expires = t]
      /\ nx.leases[l] \in Lease
  BY RenewedFacts
<1>3. Carries(cur, nx)
  BY RenewedCarries
<1> HIDE DEF x, nx
<1>4. cur.leases \in [LeaseIds -> Lease \cup {NoLease}] /\ cur.leases[l] \in Lease
  BY DEF RunState, Held
<1>5. \A k \in LeaseIds : LeaseAlike(cur.leases[k], nx.leases[k])
  <2>1. LeaseAlike(cur.leases[l], nx.leases[l])
    BY <1>2, <1>4, NoneAssumption DEF LeaseAlike, Lease
  <2> QED
    BY <1>2, <1>4, <2>1 DEF LeaseAlike
<1>6. \A k \in LeaseIds : LeaseAlike(x.leases[k], nx.leases[k])
  BY <1>1, <1>5 DEF Alike, LeaseAlike
<1>7. Alike(x, nx)
  BY <1>1, <1>2, <1>3, <1>6 DEF Alike, Carries
<1> QED
  BY <1>1, <1>7 DEF x, nx

\* The node status that replay gives an event's node.
ReplayedStatus(rs, e) ==
  LET cur == rs.node[e.node].status
  IN  CASE e.type = "COMPLETED" /\ rs.status \notin RunTerminal /\ cur = "RUNNING"
             -> "REVIEWING"
        [] e.type = "STATUS_CHANGE" /\ e.target # "DONE"
             /\ ValidNodeTransition(cur, e.target) -> e.target
        [] OTHER -> cur

\* It is the one the live reducer gave it: what was accepted is in the table,
\* and only a RUNNING node can be completed.
LEMMA SameReducer ==
  ASSUME NEW rs \in RunState, NEW e \in Events, NEW s \in NextNodeStatus(rs, e)
  PROVE  ReplayedStatus(rs, e) = s
<1> DEFINE cur == rs.node[e.node].status
<1>0. e.type \in EventType /\ cur \in NodeStatus
  BY EventsAssumption DEF RunState, NodeState
<1>t. ASSUME NEW from, ValidNodeTransition(from, "REVIEWING") PROVE from = "RUNNING"
  BY <1>t DEF ValidNodeTransition, NodeTransitions, NodeStatus
<1> HIDE DEF cur
<1>1. CASE e.type = "COMPLETED" /\ rs.status \in RunTerminal
  BY <1>1 DEF NextNodeStatus, ReplayedStatus, cur
<1>2. CASE e.type = "COMPLETED" /\ rs.status \notin RunTerminal
  <2>1. s = "REVIEWING" /\ ValidNodeTransition(cur, "REVIEWING")
    BY <1>2 DEF NextNodeStatus, cur
  <2>2. cur = "RUNNING"
    BY <1>t, <2>1
  <2> QED
    BY <1>2, <2>1, <2>2 DEF ReplayedStatus, cur
<1>3. CASE e.type = "STATUS_CHANGE"
  <2>1. s = e.target /\ e.target # "DONE" /\ ValidNodeTransition(cur, s)
    BY <1>3 DEF NextNodeStatus, cur
  <2> QED
    BY <1>3, <2>1 DEF ReplayedStatus, cur
<1>4. CASE e.type = "OTHER"
  BY <1>4 DEF NextNodeStatus, ReplayedStatus, cur
<1> QED
  BY <1>0, <1>1, <1>2, <1>3, <1>4 DEF EventType

\* What an event record rebuilds.
LEMMA ReplayEventFacts ==
  ASSUME NEW rs \in RunState, NEW e \in Events, NEW v \in Nat,
         ReplayedStatus(rs, e) \in NodeStatus
  PROVE  /\ ReplayEvent(rs, e, v) \in RunState
         /\ ReplayEvent(rs, e, v).version = v
         /\ ReplayEvent(rs, e, v).status = rs.status
         /\ ReplayEvent(rs, e, v).node = [rs.node EXCEPT ![e.node].status = ReplayedStatus(rs, e)]
         /\ ReplayEvent(rs, e, v).leases = rs.leases
         /\ ReplayEvent(rs, e, v).attempt = rs.attempt
         /\ ReplayEvent(rs, e, v).seen = Keyed(rs.seen, e)
         /\ ReplayEvent(rs, e, v).stream = [rs.stream EXCEPT ![e.att] = e.seq + 1]
         /\ ReplayEvent(rs, e, v).cursor = e
<1> DEFINE nd  == [rs.node EXCEPT ![e.node].status = ReplayedStatus(rs, e)]
           sn  == Keyed(rs.seen, e)
           sm  == [rs.stream EXCEPT ![e.att] = e.seq + 1]
           new == ReplayEvent(rs, e, v)
<1>0. e.node \in Nodes /\ e.att \in Attempts /\ e.seq \in Nat
  BY EventsAssumption
<1>1. new = [rs EXCEPT !.version = v, !.node = nd, !.seen = sn, !.stream = sm, !.cursor = e,
                       !.last = e]
  <2>1. new = [rs EXCEPT !.version = v, !.node[e.node].status = ReplayedStatus(rs, e),
                         !.seen = sn, !.stream[e.att] = e.seq + 1, !.cursor = e,
                         !.last = e]
    BY Zenon DEF ReplayEvent, ReplayedStatus, Keyed
  <2> HIDE DEF new, sn
  <2> QED
    BY <2>1 DEF RunState
<1>2. nd \in [Nodes -> NodeState]
  BY <1>0 DEF RunState, NodeState
<1>3. sn \in [Keys -> Events \cup {NoEvent}]
  BY DEF RunState, Keyed
<1>4. sm \in [Attempts -> Nat]
  BY <1>0 DEF RunState
<1> HIDE DEF nd, sn, sm, new
<1>5. new \in RunState
  BY <1>1, <1>2, <1>3, <1>4 DEF RunState
<1>6. /\ new.version = v /\ new.status = rs.status /\ new.node = nd /\ new.leases = rs.leases
      /\ new.attempt = rs.attempt /\ new.seen = sn /\ new.stream = sm /\ new.cursor = e
  BY <1>1 DEF RunState
<1> QED
  BY <1>5, <1>6 DEF new, nd, sn, sm

\* An event record rebuilds what route committed over cur, when the sidecars
\* it read are the ones mirrored in cur.
LEMMA EventAlike ==
  ASSUME TypeOK, NEW rs \in RunState, NEW cur \in RunState, Alike(rs, cur),
         cur.seen = keys, cur.stream = wm, NEW e \in Events, NEW s \in NextNodeStatus(cur, e)
  PROVE  LET x == ReplayEvent(rs, e, cur.version + 1)
         IN  x \in RunState /\ Alike(x, Applied(cur, e, s))
<1> DEFINE x  == ReplayEvent(rs, e, cur.version + 1)
           nx == Applied(cur, e, s)
<1>1. s \in NodeStatus
  BY NextNodeStatusFacts
<1>2. ReplayedStatus(rs, e) = s
  <2>1. ReplayedStatus(cur, e) = s
    BY SameReducer
  <2> QED
    BY <2>1 DEF ReplayedStatus, Alike
<1>3. cur.version + 1 \in Nat
  BY DEF RunState
<1>4. /\ x \in RunState
      /\ x.version = cur.version + 1 /\ x.status = rs.status
      /\ x.node = [rs.node EXCEPT ![e.node].status = s]
      /\ x.leases = rs.leases /\ x.attempt = rs.attempt
      /\ x.seen = Keyed(rs.seen, e)
      /\ x.stream = [rs.stream EXCEPT ![e.att] = e.seq + 1]
      /\ x.cursor = e
  BY <1>1, <1>2, <1>3, ReplayEventFacts
<1>5. /\ nx \in RunState /\ nx.version = cur.version + 1
      /\ nx.node = [cur.node EXCEPT ![e.node].status = s]
      /\ nx.attempt = cur.attempt /\ nx.leases = cur.leases
  BY <1>1, AppliedFacts
<1>6. /\ nx.status = cur.status /\ nx.seen = Keyed(keys, e)
      /\ nx.stream = [wm EXCEPT ![e.att] = e.seq + 1] /\ nx.cursor = e
  BY EventMirrored
<1> HIDE DEF x, nx
<1>7. Alike(x, nx)
  BY <1>4, <1>5, <1>6 DEF Alike
<1> QED
  BY <1>4, <1>7 DEF x, nx
-----------------------------------------------------------------------------
DetachPending == {"detachSync", "detachRead", "detachAppend"}
GrantPending == {"registerSync", "registerRead"}

\* Replay's state once the record of the commit under way, if there is one,
\* is in the journal as record n + 1.
Expected(q, w, rs, v, n) ==
  IF q = "append" THEN ApplyRuntimeRecord(rs, w.rec, n + 1)
  ELSE IF q \in DetachPending THEN ReplayDetach(rs, w.old, v)
  ELSE IF q \in GrantPending THEN ReplayGrant(rs, w.rec.lid, w.rec.lease, v)
  ELSE rs

Rebuilds(x, rs) == x \in RunState /\ Alike(x, rs)

\* What replay of the journal over the checkpoint gives, with the record under
\* way, is the stored run.
Rebuilt ==
  LET rs == Replayed(ckpt)
      n  == Len(journal)
  IN  /\ ckpt.jp + 1 \in 0..n
      /\ rs \in RunState
      /\ rs.jp = n - 1
      /\ \A c \in Callers : Rebuilds(Expected(pc[c], work[c], rs, run.version, n), run)

ReplayInv == SoloInv /\ (ckpt # NoRun => Rebuilt)

\* Every record advances journal_position to its index.
LEMMA ApplyFacts ==
  ASSUME NEW rs, NEW rec, NEW i \in Int, NEW x \in RunState,
         ApplyRuntimeRecord(rs, rec, i) = [x EXCEPT !.jp = i - 1], NEW nx, Alike(x, nx)
  PROVE  Rebuilds(ApplyRuntimeRecord(rs, rec, i), nx)
<1>1. i - 1 \in Int
  OBVIOUS
<1> QED
  BY <1>1, PositionFacts DEF Rebuilds

\* The live operations that commit and then journal.
LEMMA JournaledRebuild ==
  ASSUME Inv, NEW c \in Callers, NEW rec, ThenJournal(c, rec), NEW rs, NEW n \in Nat,
         Rebuilds(ApplyRuntimeRecord(rs, rec, n + 1), run')
  PROVE  Rebuilds(Expected(pc'[c], work'[c], rs, run'.version, n), run')
<1>1. pc'[c] = "append" /\ work'[c].rec = rec
  BY DEF ThenJournal, Goto, Inv, TypeOK, Pending
<1> QED
  BY <1>1 DEF Expected

\* release, revoke and the expiry of a lease that is no longer current.
LEMMA StatusRebuild ==
  ASSUME Inv, NEW c \in Callers, NEW l \in LeaseIds, Held(snap[c], l),
         NEW op \in {"release", "revoke", "expire"},
         PutRun(SetStatus(snap[c], l, EndStatus(op)), snap[c].version),
         ThenJournal(c, LeaseRecord(op, l, SetStatus(snap[c], l, EndStatus(op)).leases[l],
                                    "NONE", SetStatus(snap[c], l, EndStatus(op)).version)),
         NEW rs \in RunState, Alike(rs, run), NEW n \in Nat
  PROVE  Rebuilds(Expected(pc'[c], work'[c], rs, run'.version, n), run')
<1> DEFINE cur == snap[c]
           st  == EndStatus(op)
           nx  == SetStatus(cur, l, st)
           rec == LeaseRecord(op, l, nx.leases[l], "NONE", nx.version)
<1>1. cur \in RunState /\ Alike(rs, cur) /\ run' = nx
  BY SnapAlike DEF PutRun, Inv, TypeOK
<1>2. st \in LeaseStatus
  BY DEF EndStatus, LeaseStatus
<1>h. Held(cur, l)
  OBVIOUS
<1> HIDE DEF st, cur
<1>3. /\ nx \in RunState /\ nx.node = cur.node /\ nx.attempt = cur.attempt
      /\ nx.leases = [cur.leases EXCEPT ![l].status = st] /\ nx.leases[l] \in Lease
  BY <1>1, <1>2, <1>h, SetStatusFacts
<1>4. Carries(cur, nx)
  BY <1>1, SetStatusCarries
<1>5. nx.version \in Nat
  BY <1>3 DEF RunState
<1>6. rec \in Record
  BY <1>3, <1>5, LeaseRecordType DEF Ops
<1>7. /\ rec.op = op /\ rec.lid = l /\ rec.lease = nx.leases[l] /\ rec.node_status = "NONE"
      /\ rec.version = nx.version
  BY DEF LeaseRecord
<1>8. ThenJournal(c, rec) /\ Held(cur, l)
  BY DEF st, cur
<1> HIDE DEF cur, nx, rec
<1>9. ReplayEnd(rs, rec) \in RunState /\ Alike(ReplayEnd(rs, rec), nx)
  BY <1>1, <1>3, <1>4, <1>6, <1>7, <1>8, EndAlike DEF st
<1>10. ApplyRuntimeRecord(rs, rec, n + 1) = [ReplayEnd(rs, rec) EXCEPT !.jp = (n + 1) - 1]
  BY <1>7 DEF ApplyRuntimeRecord
<1>11. Rebuilds(ApplyRuntimeRecord(rs, rec, n + 1), nx)
  BY <1>9, <1>10, ApplyFacts
<1> QED
  BY <1>1, <1>8, <1>11, JournaledRebuild

\* The expiry of a node's current lease.
LEMMA ExpireRebuild ==
  ASSUME Inv, NEW c \in Callers, NEW l \in LeaseIds, Held(snap[c], l),
         PutRun(ExpiredCurrent(snap[c], l), snap[c].version),
         ThenJournal(c, LeaseRecord("expire", l, ExpiredCurrent(snap[c], l).leases[l],
                                    "LEASE_EXPIRED", ExpiredCurrent(snap[c], l).version)),
         NEW rs \in RunState, Alike(rs, run), NEW n \in Nat
  PROVE  Rebuilds(Expected(pc'[c], work'[c], rs, run'.version, n), run')
<1> DEFINE cur == snap[c]
           nx  == ExpiredCurrent(cur, l)
           a   == cur.leases[l].att
           rec == LeaseRecord("expire", l, nx.leases[l], "LEASE_EXPIRED", nx.version)
<1>1. cur \in RunState /\ Alike(rs, cur) /\ run' = nx
  BY SnapAlike DEF PutRun, Inv, TypeOK
<1>2. /\ nx \in RunState
      /\ nx.node = [cur.node EXCEPT ![NodeOf[a]].status = "LEASE_EXPIRED"]
      /\ nx.attempt = [cur.attempt EXCEPT ![a].status = "LEASE_EXPIRED", ![a].lease = NoLease]
      /\ nx.leases = [cur.leases EXCEPT ![l].status = "EXPIRED"]
      /\ nx.leases[l] \in Lease
  BY <1>1, ExpiredCurrentFacts
<1>3. /\ cur.leases \in [LeaseIds -> Lease \cup {NoLease}] /\ cur.leases[l] \in Lease
      /\ cur.attempt \in [Attempts -> AttemptRecord] /\ a \in Attempts
  BY <1>1 DEF RunState, Held, Lease
<1>4. Carries(cur, nx)
  BY <1>1, ExpiredCarries
<1>5. nx.version \in Nat
  BY <1>2 DEF RunState
<1>6. rec \in Record
  BY <1>2, <1>5, LeaseRecordType DEF Ops
<1>7. /\ rec.op = "expire" /\ rec.lid = l /\ rec.lease = nx.leases[l]
      /\ rec.node_status = "LEASE_EXPIRED" /\ rec.version = nx.version
  BY DEF LeaseRecord
<1>8. ThenJournal(c, rec) /\ Held(cur, l)
  OBVIOUS
<1> HIDE DEF cur, nx, rec, a
<1>9. rec.lease.att = a
  <2>1. nx.leases[l] = [cur.leases[l] EXCEPT !.status = "EXPIRED"]
    BY <1>2, <1>3
  <2> QED
    BY <1>3, <1>7, <2>1 DEF a, Lease
<1>s. EndStatus(rec.op) = "EXPIRED"
  BY <1>7 DEF EndStatus
<1>10. \A b \in Attempts : nx.attempt[b].token = cur.attempt[b].token
  BY <1>2, <1>3 DEF AttemptRecord
<1>11. ReplayEnd(rs, rec) \in RunState /\ Alike(ReplayEnd(rs, rec), nx)
  <2>1. nx.leases = [cur.leases EXCEPT ![rec.lid].status = EndStatus(rec.op)]
    BY <1>2, <1>7, <1>s
  <2>2. nx.node = IF rec.node_status = "NONE" THEN cur.node
                  ELSE [cur.node EXCEPT ![NodeOf[rec.lease.att]].status = rec.node_status]
    BY <1>2, <1>7, <1>9
  <2> QED
    BY <1>1, <1>2, <1>4, <1>6, <1>7, <1>8, <1>10, <2>1, <2>2, EndAlike
<1>12. ApplyRuntimeRecord(rs, rec, n + 1) = [ReplayEnd(rs, rec) EXCEPT !.jp = (n + 1) - 1]
  BY <1>7 DEF ApplyRuntimeRecord
<1>13. Rebuilds(ApplyRuntimeRecord(rs, rec, n + 1), nx)
  BY <1>11, <1>12, ApplyFacts
<1> QED
  BY <1>1, <1>8, <1>13, JournaledRebuild

\* A renewal.
LEMMA RenewRebuild ==
  ASSUME Inv, NEW c \in Callers, NEW l \in LeaseIds, NEW token, NEW t \in Times, NEW now,
         Renew(c, l, token, t, now), NEW rs \in RunState, Alike(rs, run), NEW n \in Nat
  PROVE  Rebuilds(Expected(pc'[c], work'[c], rs, run'.version, n), run')
<1> DEFINE cur == snap[c]
           nx  == Renewed(cur, l, t)
           rec == LeaseRecord("renew", l, nx.leases[l], "NONE", nx.version)
           x   == [rs EXCEPT !.version = cur.version + 1]
<1>1. PutRun(nx, cur.version) /\ ThenJournal(c, rec) /\ Held(cur, l)
  BY DEF Renew, IsActive
<1>2. cur \in RunState /\ Alike(rs, cur) /\ run' = nx
  BY <1>1, SnapAlike DEF PutRun, Inv, TypeOK
<1>3. nx.version = cur.version + 1
  BY <1>1, <1>2, RenewedFacts
<1>4. rec.op = "renew" /\ rec.version = nx.version
  BY DEF LeaseRecord
<1> HIDE DEF cur, rec
<1>5. x \in RunState /\ Alike(x, nx)
  BY <1>1, <1>2, RenewAlike
<1>6. ApplyRuntimeRecord(rs, rec, n + 1) = [x EXCEPT !.jp = (n + 1) - 1]
  BY <1>3, <1>4 DEF ApplyRuntimeRecord
<1> HIDE DEF nx, x
<1>7. Rebuilds(ApplyRuntimeRecord(rs, rec, n + 1), nx)
  BY <1>5, <1>6, ApplyFacts
<1> QED
  BY <1>1, <1>2, <1>7, JournaledRebuild

\* The registration of a granted lease.
LEMMA CommitRebuild ==
  ASSUME Inv, NEW c \in Callers, NEW l \in LeaseIds, NEW lease \in Lease, Commit(c, l, lease),
         NEW rs \in RunState, Alike(rs, run), NEW n
  PROVE  Rebuilds(Expected(pc'[c], work'[c], rs, run'.version, n), run')
<1>1. /\ pc'[c] = "registerSync" /\ run' = Registered(snap[c], l, lease)
      /\ run'.version = run.version + 1
      /\ work'[c] = Pending(LeaseRecord("grant", l, lease, "NONE", run'.version),
                            NoLease, run'.version)
  BY CommitEffect
<1>2. work'[c].rec.lid = l /\ work'[c].rec.lease = lease
  BY <1>1 DEF Pending, LeaseRecord
<1>3. snap[c] \in RunState /\ snap[c].version = run.version /\ Alike(rs, snap[c])
  BY SnapAlike DEF Commit, PutRun, Inv, TypeOK
<1>4. Rebuilds(ReplayGrant(rs, l, lease, run'.version), run')
  <2> DEFINE x == ReplayGrant(rs, l, lease, snap[c].version + 1)
  <2>1. x \in RunState /\ Alike(x, Registered(snap[c], l, lease))
    BY <1>3, GrantAlike
  <2> QED
    BY <1>1, <1>3, <2>1 DEF Rebuilds
<1> QED
  BY <1>1, <1>2, <1>4 DEF Expected, DetachPending, GrantPending

\* The detachment of the lease a grant replaces.
LEMMA DetachRebuild ==
  ASSUME Inv, NEW c \in Callers, NEW l \in LeaseIds, NEW a \in Attempts, NEW token, NEW expires,
         NEW gen, GrantDetach(c, l, a, token, expires, gen),
         NEW rs \in RunState, Alike(rs, run), NEW n
  PROVE  Rebuilds(Expected(pc'[c], work'[c], rs, run'.version, n), run')
<1> DEFINE cur == snap[c]
<1>1. PICK old \in ActiveLeases(cur, a) :
        /\ PutRun(SetStatus(cur, old, "RELEASED"), cur.version)
        /\ work' = [work EXCEPT ![c] =
             Pending(LeaseRecord("grant", l, NewLease(a, token, expires, gen), "NONE", 0),
                     old, SetStatus(cur, old, "RELEASED").version)]
  BY DEF GrantDetach
<1>2. pc'[c] = "detachSync" /\ work'[c].old = old
  BY <1>1 DEF GrantDetach, Goto, Inv, TypeOK, Pending
<1>3. cur \in RunState /\ Alike(rs, cur) /\ run' = SetStatus(cur, old, "RELEASED")
  BY <1>1, SnapAlike DEF PutRun, Inv, TypeOK
<1>4. old \in LeaseIds /\ Held(cur, old)
  BY <1>1 DEF ActiveLeases, IsActive
<1> HIDE DEF cur
<1>5. run'.version = cur.version + 1
  BY <1>3, <1>4, SetStatusFacts DEF LeaseStatus
<1> DEFINE x == ReplayDetach(rs, old, cur.version + 1)
<1>6. x \in RunState /\ Alike(x, run')
  BY <1>3, <1>4, DetachAlike
<1> QED
  BY <1>2, <1>5, <1>6 DEF Expected, DetachPending, Rebuilds

\* An event.
LEMMA RouteRebuild ==
  ASSUME SoloInv, NEW c \in Callers, NEW e \in Events, Route(c, e),
         NEW rs \in RunState, Alike(rs, run), NEW n \in Nat
  PROVE  Rebuilds(Expected(pc'[c], work'[c], rs, run'.version, n), run')
<1> DEFINE cur == snap[c]
           v   == cur.version + 1
           rec == EventRecord(e, v)
           x   == ReplayEvent(rs, e, v)
<1>i. Inv /\ TypeOK /\ SnapshotCoherent
  BY DEF SoloInv, OneInv, Inv
<1>1. PICK s \in NextNodeStatus(cur, e) : PutRun(Applied(cur, e, s), cur.version)
  BY DEF Route
<1>2. pc'[c] = "append" /\ work'[c].rec = rec
  BY <1>i DEF Route, Goto, TypeOK, Pending
<1>3. cur \in RunState /\ Alike(rs, cur) /\ cur.version = run.version
  BY <1>i, <1>1, SnapAlike DEF PutRun, TypeOK
<1>4. cur.seen = keys /\ cur.stream = wm
  <2>1. run.seen = keys /\ run.stream = wm
    BY IdleMirror DEF Route
  <2>2. Carries(run, cur)
    BY <1>i, <1>3, SnapCarries
  <2> QED
    BY <2>1, <2>2 DEF Carries
<1>5. rec.op = "event" /\ rec.event = e /\ rec.version = v
  BY DEF EventRecord
<1> HIDE DEF cur
<1>6. x \in RunState /\ Alike(x, Applied(cur, e, s))
  BY <1>i, <1>3, <1>4, EventAlike
<1> HIDE DEF rec
<1>7. ApplyRuntimeRecord(rs, rec, n + 1) = [x EXCEPT !.jp = (n + 1) - 1]
  BY <1>5 DEF ApplyRuntimeRecord
<1>8. run' = Applied(cur, e, s)
  BY <1>1 DEF PutRun
<1> HIDE DEF x
<1>9. Rebuilds(ApplyRuntimeRecord(rs, rec, n + 1), run')
  BY <1>6, <1>7, <1>8, ApplyFacts
<1> QED
  BY <1>2, <1>9 DEF Expected

\* So for every service call.
LEMMA ServiceRebuild ==
  ASSUME SoloInv, NEW c \in Callers, CallService(c), NEW rs \in RunState, Alike(rs, run),
         NEW n \in Nat
  PROVE  Rebuilds(Expected(pc'[c], work'[c], rs, run'.version, n), run')
<1> DEFINE Goal == Rebuilds(Expected(pc'[c], work'[c], rs, run'.version, n), run')
<1>i. Inv
  BY DEF SoloInv, OneInv
<1>1. ASSUME NEW l \in LeaseIds, Revoke(c, l) PROVE Goal
  <2>1. EndStatus("revoke") = "REVOKED" /\ Held(snap[c], l)
    BY <1>1 DEF EndStatus, Revoke, IsActive
  <2> QED
    BY <1>i, <1>1, <2>1, StatusRebuild DEF Revoke
<1>2. ASSUME NEW l \in LeaseIds, NEW now \in Times, Release(c, l, now) PROVE Goal
  <2>1. EndStatus("release") = "RELEASED" /\ Held(snap[c], l)
    BY <1>2 DEF EndStatus, Release, IsActive
  <2> QED
    BY <1>i, <1>2, <2>1, StatusRebuild DEF Release
<1>3. ASSUME NEW l \in LeaseIds, Expire(c, l) PROVE Goal
  <2>1. EndStatus("expire") = "EXPIRED" /\ Held(snap[c], l)
    BY <1>3 DEF EndStatus, Expire, IsActive
  <2>2. CASE IsCurrentLease(snap[c], l)
    BY <1>i, <1>3, <2>1, <2>2, ExpireRebuild DEF Expire
  <2>3. CASE ~IsCurrentLease(snap[c], l)
    BY <1>i, <1>3, <2>1, <2>3, StatusRebuild DEF Expire
  <2> QED
    BY <2>2, <2>3
<1>4. ASSUME NEW l \in LeaseIds, NEW token \in Tokens, NEW expires \in Times, NEW now \in Times,
             Renew(c, l, token, expires, now)
      PROVE  Goal
  BY <1>i, <1>4, RenewRebuild
<1>5. ASSUME NEW l \in LeaseIds, NEW a \in Attempts, NEW token \in Tokens,
             NEW expires \in Times, NEW gen \in 1..MaxGeneration,
             Grant(c, l, a, token, expires, gen)
      PROVE  Goal
  <2>1. NewLease(a, token, expires, gen) \in Lease
    BY NewLeaseType
  <2> QED
    BY <1>i, <1>5, <2>1, CommitRebuild DEF Grant
<1>6. ASSUME NEW l \in LeaseIds, NEW a \in Attempts, NEW token \in Tokens,
             NEW expires \in Times, NEW gen \in 1..MaxGeneration,
             GrantDetach(c, l, a, token, expires, gen)
      PROVE  Goal
  BY <1>i, <1>6, DetachRebuild
<1>7. ASSUME NEW e \in Events, Route(c, e) PROVE Goal
  BY <1>7, RouteRebuild
<1> HIDE DEF Goal
<1>8. Goal
  BY <1>1, <1>2, <1>3, <1>4, <1>5, <1>6, <1>7, Zenon DEF CallService
<1> QED
  BY <1>8 DEF Goal

\* A grant record with another expiry rebuilds as much.
LEMMA RegrantAlike ==
  ASSUME NEW rs \in RunState, NEW l \in LeaseIds, NEW g \in Lease, NEW h \in Lease,
         h.att = g.att, h.token = g.token, h.status = g.status, NEW v \in Nat,
         NEW y, Alike(ReplayGrant(rs, l, g, v), y)
  PROVE  Alike(ReplayGrant(rs, l, h, v), y)
<1>0. ASSUME NEW f \in Lease
      PROVE  /\ ReplayGrant(rs, l, f, v) \in RunState
             /\ Carries(rs, ReplayGrant(rs, l, f, v))
             /\ ReplayGrant(rs, l, f, v).version = v
             /\ ReplayGrant(rs, l, f, v).node = NewNode(rs, l, f)
             /\ ReplayGrant(rs, l, f, v).leases = [rs.leases EXCEPT ![l] = [f EXCEPT !.gen = 0]]
             /\ ReplayGrant(rs, l, f, v).attempt
                  = [rs.attempt EXCEPT ![f.att].lease = l, ![f.att].token = f.token]
  BY ReplayGrantFacts
<1> DEFINE x == ReplayGrant(rs, l, g, v)
           z == ReplayGrant(rs, l, h, v)
<1>1. /\ x \in RunState /\ Carries(rs, x) /\ x.version = v
      /\ x.node = NewNode(rs, l, g)
      /\ x.leases = [rs.leases EXCEPT ![l] = [g EXCEPT !.gen = 0]]
      /\ x.attempt = [rs.attempt EXCEPT ![g.att].lease = l, ![g.att].token = g.token]
  BY <1>0, Zenon
<1>2. /\ z \in RunState /\ Carries(rs, z) /\ z.version = v
      /\ z.node = NewNode(rs, l, h)
      /\ z.leases = [rs.leases EXCEPT ![l] = [h EXCEPT !.gen = 0]]
      /\ z.attempt = [rs.attempt EXCEPT ![h.att].lease = l, ![h.att].token = h.token]
  BY <1>0, Zenon
<1>3. Alike(x, y)
  OBVIOUS
<1> HIDE DEF x, z
<1>4. z.node = x.node /\ z.attempt = x.attempt
  BY <1>1, <1>2 DEF NewNode
<1>5. rs.leases \in [LeaseIds -> Lease \cup {NoLease}]
  BY DEF RunState
<1>6. \A k \in LeaseIds : LeaseAlike(z.leases[k], x.leases[k])
  <2>1. LeaseAlike([h EXCEPT !.gen = 0], [g EXCEPT !.gen = 0])
    <3>1. [h EXCEPT !.gen = 0] \in Lease /\ [g EXCEPT !.gen = 0] \in Lease
      BY DEF Lease
    <3> QED
      BY <3>1, NoneAssumption DEF LeaseAlike, Lease
  <2> QED
    BY <1>1, <1>2, <1>5, <2>1 DEF LeaseAlike
<1>7. \A k \in LeaseIds : LeaseAlike(z.leases[k], y.leases[k])
  BY <1>3, <1>6 DEF Alike, LeaseAlike
<1> QED
  BY <1>1, <1>2, <1>3, <1>4, <1>7 DEF Alike, Carries, z

\* The journal position of a replayed record.
LEMMA ApplyPosition ==
  ASSUME NEW rs, NEW rec, NEW i, ApplyRuntimeRecord(rs, rec, i) \in RunState
  PROVE  ApplyRuntimeRecord(rs, rec, i).jp = i - 1
<1> DEFINE nw == CASE rec.op = "event"  -> ReplayEvent(rs, rec.event, rec.version)
                  [] rec.op = "grant"  -> ReplayGrant(rs, rec.lid, rec.lease, rec.version)
                  [] rec.op = "detach" -> ReplayDetach(rs, rec.lid, rec.version)
                  [] rec.op = "renew"  -> [rs EXCEPT !.version = rec.version]
                  [] rec.op \in {"release", "revoke", "expire"} -> ReplayEnd(rs, rec)
<1>1. ApplyRuntimeRecord(rs, rec, i) = [nw EXCEPT !.jp = i - 1]
  BY DEF ApplyRuntimeRecord
<1> HIDE DEF nw
<1>2. DOMAIN ApplyRuntimeRecord(rs, rec, i) = DOMAIN nw
  BY <1>1
<1>3. "jp" \in DOMAIN ApplyRuntimeRecord(rs, rec, i)
  BY DEF RunState
<1> QED
  BY <1>1, <1>2, <1>3

\* A step that keeps the journal.
LEMMA KeepJournal ==
  ASSUME OneCaller, NEW c \in Callers, Rebuilt, journal' = journal, ckpt' = ckpt,
         Rebuilds(Expected(pc'[c], work'[c], Replayed(ckpt), run'.version, Len(journal)), run')
  PROVE  Rebuilt'
BY DEF Rebuilt, Replayed, OneCaller

\* A step that appends the record under way.
LEMMA OneMore ==
  ASSUME OneCaller, NEW c \in Callers, Inv, Rebuilt, NEW rec \in Record,
         journal' = Append(journal, rec), ckpt' = ckpt, run' = run,
         pc'[c] \notin {"append"} \cup DetachPending \cup GrantPending,
         NEW x \in RunState,
         ApplyRuntimeRecord(Replayed(ckpt), rec, Len(journal) + 1)
           = [x EXCEPT !.jp = Len(journal)],
         Alike(x, run)
  PROVE  Rebuilt'
<1> DEFINE n  == Len(journal)
           rs == Replayed(ckpt)
           y  == [x EXCEPT !.jp = n]
<1>1. journal \in Seq(Record) /\ n \in Nat /\ n \in Int
  BY DEF Inv, TypeOK
<1>2. Len(journal') = n + 1
  BY <1>1
<1>3. ckpt.jp + 1 \in 0..n /\ ckpt.jp + 1 \in 0..(n + 1)
  BY <1>1 DEF Rebuilt
<1>4. Replayed(ckpt)' = y
  BY <1>1, <1>3, ReplayAppend DEF Replayed
<1>5. y \in RunState /\ y.jp = n /\ Alike(y, run)
  BY <1>1, PositionFacts
<1> HIDE DEF y
<1>6. Rebuilds(Expected(pc'[c], work'[c], y, run'.version, n + 1), run')
  BY <1>5 DEF Expected, Rebuilds
<1>7. n = (n + 1) - 1
  BY <1>1
<1> QED
  BY <1>2, <1>3, <1>4, <1>5, <1>6, <1>7 DEF Rebuilt, OneCaller

\* A sync changes nothing that replay rebuilds.
LEMMA SyncRebuild ==
  ASSUME OneCaller, NEW c \in Callers, SoloInv, Rebuilt, ckpt' = ckpt, Synced(c)
  PROVE  Rebuilt'
<1>i. TypeOK /\ SnapshotCoherent
  BY DEF SoloInv, OneInv, Inv
<1> DEFINE x == Expected(pc[c], work[c], Replayed(ckpt), run.version, Len(journal))
<1>1. x \in RunState /\ Alike(x, run)
  BY DEF Rebuilt, Rebuilds
<1>2. /\ Carries(run, run') /\ run'.version = run.version
  BY <1>i, SyncCarries DEF Synced
<1>3. run'.node = run.node /\ run'.leases = run.leases /\ run'.attempt = run.attempt
  BY <1>i, SyncFacts DEF Synced
<1>4. Alike(x, run')
  BY <1>1, <1>2, <1>3, SameAlike DEF Carries
<1>5. Expected(pc'[c], work'[c], Replayed(ckpt), run'.version, Len(journal)) = x
  BY <1>2 DEF Synced, SyncThen, Expected, DetachPending, GrantPending
<1> QED
  BY <1>1, <1>4, <1>5, KeepJournal DEF Rebuilds, Synced

\* The other store calls.
LEMMA StoreRebuild ==
  ASSUME OneCaller, NEW c \in Callers, SoloInv, Rebuilt, ckpt' = ckpt, StoreCall(c)
  PROVE  Rebuilt'
<1> DEFINE n  == Len(journal)
           rs == Replayed(ckpt)
           E  == Expected(pc[c], work[c], rs, run.version, n)
<1>i. Inv /\ TypeOK /\ Undisturbed /\ n \in Nat
  BY DEF SoloInv, OneInv, Inv, TypeOK
<1>r. rs \in RunState /\ Rebuilds(E, run)
  BY DEF Rebuilt
<1>w. work[c] \in Work /\ pc \in [Callers -> PC] /\ work \in [Callers -> Work]
  BY <1>i DEF TypeOK
<1>1. CASE DetachRead(c)
  <2>1. /\ pc'[c] = "detachAppend" /\ pc[c] = "detachRead" /\ run' = run /\ journal' = journal
        /\ work'[c].old = work[c].old
    BY <1>1, <1>w DEF DetachRead, Goto, Work
  <2>2. Expected(pc'[c], work'[c], rs, run'.version, n) = E
    BY <2>1 DEF Expected, DetachPending
  <2> QED
    BY <1>r, <2>1, <2>2, KeepJournal
<1>2. CASE DetachAppend(c)
  <2> DEFINE rec == LeaseRecord("detach", work[c].old, NoLease, "NONE", work[c].committed)
             x   == ReplayDetach(rs, work[c].old, run.version)
  <2>1. /\ pc'[c] = "detachAppendSync" /\ pc[c] = "detachAppend" /\ run' = run
        /\ journal' = Append(journal, rec)
    BY <1>2, <1>w DEF DetachAppend, Goto
  <2>2. E = x /\ work[c].committed = run.version
    BY <1>i, <2>1 DEF Expected, DetachPending, Undisturbed
  <2>3. x \in RunState /\ Alike(x, run)
    BY <1>r, <2>2 DEF Rebuilds
  <2>4. rec \in Record
    BY <1>w, LeaseRecordType DEF Work, Ops
  <2>5. rec.op = "detach" /\ rec.lid = work[c].old /\ rec.version = run.version
    BY <2>2 DEF LeaseRecord
  <2> HIDE DEF rec
  <2>6. ApplyRuntimeRecord(rs, rec, n + 1) = [x EXCEPT !.jp = (n + 1) - 1] /\ (n + 1) - 1 = n
    BY <1>i, <2>5 DEF ApplyRuntimeRecord
  <2>7. pc'[c] \notin {"append"} \cup DetachPending \cup GrantPending
    BY <2>1 DEF DetachPending, GrantPending
  <2> HIDE DEF x
  <2> QED
    BY <1>i, <2>1, <2>3, <2>4, <2>6, <2>7, OneMore
<1>3. CASE Register(c)
  <2>1. work[c].rec.lid \in LeaseIds /\ work[c].rec.lease \in Lease
    BY <1>i, <1>3 DEF Register, Inv, PendingOK, PendingOf, GrantPC
  <2>2. E = rs
    BY <1>3 DEF Register, Expected, DetachPending, GrantPending
  <2>3. Commit(c, work[c].rec.lid, work[c].rec.lease) /\ journal' = journal
    BY <1>3 DEF Register, Commit
  <2>4. Alike(rs, run)
    BY <1>r, <2>2 DEF Rebuilds
  <2>5. Rebuilds(Expected(pc'[c], work'[c], rs, run'.version, n), run')
    BY <1>i, <1>r, <2>1, <2>3, <2>4, CommitRebuild
  <2> QED
    BY <2>3, <2>5, KeepJournal
<1>4. CASE RegisterRead(c)
  <2> DEFINE w == work'[c]
             l == work[c].rec.lid
             g == work[c].rec.lease
             v == run.version
             h == w.rec.lease
  <2>1. /\ pc'[c] = "append" /\ pc[c] = "registerRead" /\ run' = run /\ journal' = journal
        /\ w = [work[c] EXCEPT !.rec = [work[c].rec EXCEPT !.version = v,
                    !.lease = [g EXCEPT !.expires = run.leases[l].expires]],
                               !.committed = v]
    BY <1>4, <1>w DEF RegisterRead, Goto
  <2>2. l \in LeaseIds /\ g \in Lease /\ Held(run, l) /\ work[c].rec.op = "grant"
    BY <1>i, <2>1 DEF Inv, PendingOK, PendingOf, GrantPC
  <2>3. run.leases[l].expires \in Times /\ v \in Nat
    BY <1>i, <2>2 DEF TypeOK, RunState, Held, Lease
  <2>4. w.rec = [work[c].rec EXCEPT !.version = v,
                    !.lease = [g EXCEPT !.expires = run.leases[l].expires]]
    BY <1>w, <2>1 DEF Work
  <2>5. /\ w.rec.op = "grant" /\ w.rec.lid = l /\ w.rec.version = v
        /\ h = [g EXCEPT !.expires = run.leases[l].expires]
    BY <1>w, <2>2, <2>4 DEF Work, Record
  <2>6. h \in Lease /\ h.att = g.att /\ h.token = g.token /\ h.status = g.status
    BY <2>2, <2>3, <2>5 DEF Lease
  <2>7. E = ReplayGrant(rs, l, g, v)
    BY <2>1 DEF Expected, DetachPending, GrantPending
  <2>8. ReplayGrant(rs, l, h, v) \in RunState
    BY <1>r, <2>2, <2>3, <2>6, ReplayGrantFacts
  <2>9. Alike(ReplayGrant(rs, l, h, v), run)
    BY <1>r, <2>2, <2>3, <2>6, <2>7, RegrantAlike DEF Rebuilds
  <2>10. ApplyRuntimeRecord(rs, w.rec, n + 1) = [ReplayGrant(rs, l, h, v) EXCEPT !.jp = (n + 1) - 1]
    BY <2>5 DEF ApplyRuntimeRecord
  <2>11. Rebuilds(ApplyRuntimeRecord(rs, w.rec, n + 1), run)
    BY <1>i, <2>8, <2>9, <2>10, ApplyFacts
  <2>12. Rebuilds(Expected(pc'[c], w, rs, run'.version, n), run')
    BY <2>1, <2>11 DEF Expected
  <2> QED
    BY <2>1, <2>12, KeepJournal
<1>5. CASE JournalAppend(c)
  <2> DEFINE rec == work[c].rec
             x   == ApplyRuntimeRecord(rs, rec, n + 1)
  <2>1. /\ pc'[c] \in {"dedupe", "appendSync"} /\ pc[c] = "append" /\ run' = run
        /\ journal' = Append(journal, rec)
    BY <1>5, <1>w DEF JournalAppend, Goto
  <2>2. x \in RunState /\ Alike(x, run)
    BY <1>r, <2>1 DEF Expected, Rebuilds
  <2>3. rec \in Record
    BY <1>w DEF Work
  <2>4. x.jp = (n + 1) - 1
    BY <2>2, ApplyPosition
  <2>5. x = [x EXCEPT !.jp = n]
    BY <1>i, <2>2, <2>4 DEF RunState
  <2>6. pc'[c] \notin {"append"} \cup DetachPending \cup GrantPending
    BY <2>1 DEF DetachPending, GrantPending
  <2> QED
    BY <1>i, <2>1, <2>2, <2>3, <2>5, <2>6, OneMore
<1>6. CASE DedupePut(c) \/ SaveStreamWatermark(c)
  <2>1. /\ pc[c] \in {"dedupe", "watermark"} /\ pc'[c] \in {"watermark", "appendSync"}
        /\ run' = run /\ journal' = journal
    BY <1>6, <1>w DEF DedupePut, SaveStreamWatermark, Goto
  <2>2. Expected(pc'[c], work'[c], rs, run'.version, n) = E
    BY <2>1 DEF Expected, DetachPending, GrantPending
  <2> QED
    BY <1>r, <2>1, <2>2, KeepJournal
<1>7. CASE Synced(c)
  BY <1>7, SyncRebuild
<1> QED
  BY <1>i, <1>1, <1>2, <1>3, <1>4, <1>5, <1>6, <1>7, StoreShape

\* Taking a checkpoint, or recovering from one.
LEMMA CheckpointRebuild ==
  ASSUME Callers # {}, SoloInv, TakeCheckpoint
  PROVE  Rebuilt'
<1> DEFINE x == Snapshot(run)
           n == Len(journal)
<1>i. TypeOK /\ n \in Nat
  BY DEF SoloInv, OneInv, Inv, TypeOK
<1>1. \A c \in Callers : pc[c] = "idle"
  BY DEF TakeCheckpoint, Quiescent
<1>2. run.seen = keys /\ run.stream = wm
  BY <1>1, IdleMirror
<1>3. /\ x \in RunState /\ x.jp = n - 1 /\ x.version = run.version /\ x.status = run.status
      /\ x.node = run.node /\ x.leases = run.leases /\ x.attempt = run.attempt
      /\ x.cursor = run.cursor
      /\ x.seen = [k \in Keys |-> IF keys[k] = NoEvent THEN run.seen[k] ELSE keys[k]]
      /\ x.stream = [a \in Attempts |-> IF wm[a] = 0 THEN run.stream[a] ELSE wm[a]]
  BY <1>i, SnapshotFacts
<1>4. ckpt' = x /\ UNCHANGED <<run, journal, pc, work>>
  BY DEF TakeCheckpoint, vars
<1> HIDE DEF x
<1>5. x.seen = run.seen /\ x.stream = run.stream
  BY <1>i, <1>2, <1>3 DEF TypeOK
<1>6. Alike(x, run)
  BY <1>3, <1>5 DEF Alike, LeaseAlike
<1>7. x.jp + 1 = n
  BY <1>i, <1>3
<1>8. Replayed(ckpt)' = x
  BY <1>i, <1>4, <1>7, ReplayNone DEF Replayed
<1>9. \A c \in Callers : Expected(pc[c], work[c], x, run.version, n) = x
  BY <1>1 DEF Expected, DetachPending, GrantPending
<1>10. x.jp + 1 \in 0..n
  BY <1>i, <1>7
<1> QED
  BY <1>3, <1>4, <1>6, <1>8, <1>9, <1>10 DEF Rebuilt, Rebuilds

\* Every step keeps the invariant.
LEMMA ReplayNext ==
  ASSUME OneCaller, Callers # {} PROVE ReplayInv /\ [RecNext]_recVars => ReplayInv'
<1> SUFFICES ASSUME ReplayInv, [RecNext]_recVars PROVE ReplayInv'
  OBVIOUS
<1>i. SoloInv /\ TypeOK
  BY DEF ReplayInv, SoloInv, OneInv, Inv
<1>1. CASE UNCHANGED recVars
  <2>1. SoloInv'
    BY <1>i, <1>1, SoloNext DEF recVars
  <2>2. UNCHANGED <<run, journal, pc, work, ckpt>>
    BY <1>1 DEF recVars, vars
  <2> QED
    BY <2>1, <2>2 DEF ReplayInv, Rebuilt, Replayed
<1>2. CASE TakeCheckpoint
  <2>1. SoloInv'
    BY <1>i, <1>2, SoloNext DEF TakeCheckpoint
  <2> QED
    BY <1>i, <1>2, <2>1, CheckpointRebuild DEF ReplayInv
<1>3. CASE Recover
  BY <1>i, <1>3, RecoverSolo, RecoverIs DEF ReplayInv
<1>4. CASE Live
  <2>1. SoloInv' /\ ckpt' = ckpt
    BY <1>i, <1>4, SoloNext DEF Live
  <2> SUFFICES ASSUME ckpt # NoRun PROVE Rebuilt'
    BY <2>1 DEF ReplayInv
  <2>2. Rebuilt
    BY DEF ReplayInv
  <2>3. PICK c \in Callers : GetRun(c) \/ CallService(c) \/ StoreCall(c)
    BY <1>4 DEF Live, Next
  <2>4. CASE GetRun(c)
    BY <2>1, <2>2, <2>4 DEF GetRun, Rebuilt, Replayed
  <2>5. CASE CallService(c)
    <3>1. ServiceEffect(c)
      BY <1>i, <2>5, ServiceShape DEF SoloInv, OneInv
    <3>2. Expected(pc[c], work[c], Replayed(ckpt), run.version, Len(journal)) = Replayed(ckpt)
      BY <3>1 DEF ServiceEffect, Expected, DetachPending, GrantPending
    <3>3. Replayed(ckpt) \in RunState /\ Alike(Replayed(ckpt), run)
      BY <2>2, <3>2 DEF Rebuilt, Rebuilds
    <3>4. Len(journal) \in Nat /\ journal' = journal
      BY <1>i, <3>1 DEF TypeOK, ServiceEffect
    <3>5. Rebuilds(Expected(pc'[c], work'[c], Replayed(ckpt), run'.version, Len(journal)), run')
      BY <1>i, <2>5, <3>3, <3>4, ServiceRebuild
    <3> QED
      BY <2>1, <2>2, <3>4, <3>5, KeepJournal
  <2>6. CASE StoreCall(c)
    BY <1>i, <2>1, <2>2, <2>6, StoreRebuild
  <2> QED
    BY <2>3, <2>4, <2>5, <2>6
<1> QED
  BY <1>1, <1>2, <1>3, <1>4 DEF RecNext
-----------------------------------------------------------------------------
(* What replay does not rebuild lags behind the live run.                  *)

LeaseBehind(x, y) == x # NoLease => x.expires <= y.expires /\ x.gen <= y.gen

\* The attempt record of x lags behind that of rs: when they name different
\* leases, the one in rs is no longer in force.
AttemptBehind(x, rs, a) ==
  /\ x.attempt[a].gen <= rs.attempt[a].gen
  /\ \/ x.attempt[a].lease = rs.attempt[a].lease
     \/ x.attempt[a].lease = NoLease /\ HolderOf(rs, a) = NoLease
  /\ rs.attempt[a].status \in {x.attempt[a].status, "LEASE_EXPIRED"}

\* Every ACTIVE lease is listed in active.
Lists(active, rs) == \A l \in LeaseIds : IsActive(rs, l) => l \in active

Trails(x, rs) ==
  /\ \A l \in LeaseIds : LeaseBehind(x.leases[l], rs.leases[l])
  /\ \A a \in Attempts : AttemptBehind(x, rs, a)
  /\ x.active \subseteq rs.active
  /\ Lists(x.active, rs)
  /\ rs.last \in {x.last, NoEvent}

\* Nothing becomes ACTIVE from rs to new.
NoneAdded(rs, new) ==
  \A k \in LeaseIds :
    IsActive(new, k) => IsActive(rs, k) /\ new.leases[k].att = rs.leases[k].att

\* The lease l ends; the others stay, and every expiry and generation.
Ends(rs, new, l) ==
  /\ NoneAdded(rs, new) /\ ~IsActive(new, l)
  /\ \A k \in LeaseIds :
       /\ new.leases[k] = NoLease <=> rs.leases[k] = NoLease
       /\ rs.leases[k] # NoLease => /\ new.leases[k].expires = rs.leases[k].expires
                                   /\ new.leases[k].gen = rs.leases[k].gen

LEMMA EndedLeases ==
  ASSUME NEW rs \in RunState, NEW l \in LeaseIds, Held(rs, l),
         NEW st \in LeaseStatus \ {"ACTIVE"}, NEW new,
         new.leases = [rs.leases EXCEPT ![l].status = st]
  PROVE  Ends(rs, new, l)
<1>1. rs.leases \in [LeaseIds -> Lease \cup {NoLease}] /\ rs.leases[l] \in Lease
  BY DEF RunState, Held
<1>2. new.leases[l] = [rs.leases[l] EXCEPT !.status = st]
  BY <1>1
<1>3. /\ new.leases[l].status = st /\ new.leases[l].expires = rs.leases[l].expires
      /\ new.leases[l].gen = rs.leases[l].gen /\ new.leases[l] \in Lease
  BY <1>1, <1>2 DEF Lease
<1>4. new.leases[l] # NoLease /\ ~IsActive(new, l)
  BY <1>3, NoneAssumption DEF IsActive
<1>5. \A k \in LeaseIds : k # l => new.leases[k] = rs.leases[k]
  BY <1>1
<1>6. NoneAdded(rs, new)
  BY <1>4, <1>5 DEF NoneAdded, IsActive, Held
<1> QED
  BY <1>3, <1>4, <1>5, <1>6 DEF Ends, Held

\* An attempt that holds nothing goes on holding nothing.
LEMMA StillNoHolder ==
  ASSUME NEW rs \in RunState, NEW new, NEW a \in Attempts, HolderOf(rs, a) = NoLease,
         new.attempt[a].lease = rs.attempt[a].lease, NoneAdded(rs, new)
  PROVE  HolderOf(new, a) = NoLease
<1> DEFINE m == rs.attempt[a].lease
<1>1. m \in LeaseIds \cup {NoLease}
  BY DEF RunState, AttemptRecord
<1> HIDE DEF m
<1>2. HolderOf(rs, a) = IF m # NoLease /\ IsActive(rs, m) /\ rs.leases[m].att = a
                        THEN m ELSE NoLease
  BY DEF HolderOf, m
<1>3. HolderOf(new, a) = IF m # NoLease /\ IsActive(new, m) /\ new.leases[m].att = a
                         THEN m ELSE NoLease
  BY DEF HolderOf, m
<1> QED
  BY <1>1, <1>2, <1>3 DEF NoneAdded

\* The fields of the live commits that ReplayNeverAhead looks at.
LEMMA SetStatusRest ==
  ASSUME NEW rs \in RunState, NEW l, NEW st
  PROVE  SetStatus(rs, l, st).active = rs.active /\ SetStatus(rs, l, st).last = rs.last
BY DEF SetStatus, RunState

LEMMA RenewedRest ==
  ASSUME NEW rs \in RunState, NEW l, NEW t
  PROVE  Renewed(rs, l, t).active = rs.active /\ Renewed(rs, l, t).last = rs.last
BY DEF Renewed, RunState

LEMMA AppliedRest ==
  ASSUME NEW rs \in RunState, NEW e, NEW s
  PROVE  Applied(rs, e, s).active = rs.active /\ Applied(rs, e, s).last = e
BY DEF Applied, RunState

LEMMA ExpiredRest ==
  ASSUME NEW rs \in RunState, NEW l
  PROVE  ExpiredCurrent(rs, l).active = rs.active /\ ExpiredCurrent(rs, l).last = NoEvent
BY DEF ExpiredCurrent, SetStatus, RunState

ListOf(leases) == {k \in LeaseIds : leases[k] # NoLease /\ leases[k].status = "ACTIVE"}

\* A registration lists the ACTIVE leases afresh and forgets the last event.
LEMMA RegisteredRest ==
  ASSUME NEW rs \in RunState, NEW l, NEW lease
  PROVE  /\ Registered(rs, l, lease).active = ListOf(Registered(rs, l, lease).leases)
         /\ Registered(rs, l, lease).last = NoEvent
BY DEF Registered, RunState, ListOf

\* The fields that replay gives.
LEMMA ReplayDetachRest ==
  ASSUME NEW rs \in RunState, NEW l, NEW v
  PROVE  ReplayDetach(rs, l, v).active = rs.active /\ ReplayDetach(rs, l, v).last = rs.last
BY DEF ReplayDetach, RunState

LEMMA ReplayGrantRest ==
  ASSUME NEW rs \in RunState, NEW l, NEW lease, NEW v
  PROVE  /\ ReplayGrant(rs, l, lease, v).active = ListOf(ReplayGrant(rs, l, lease, v).leases)
         /\ ReplayGrant(rs, l, lease, v).last = rs.last
BY DEF ReplayGrant, RunState, ListOf

LEMMA ReplayEndRest ==
  ASSUME NEW rs \in RunState, NEW rec
  PROVE  ReplayEnd(rs, rec).active = rs.active \ {rec.lid} /\ ReplayEnd(rs, rec).last = rs.last
BY DEF ReplayEnd, RunState

LEMMA ReplayEventRest ==
  ASSUME NEW rs \in RunState, NEW e, NEW v
  PROVE  ReplayEvent(rs, e, v).active = rs.active /\ ReplayEvent(rs, e, v).last = e
BY DEF ReplayEvent, RunState

\* What an ended lease's record leaves of the attempt records.
LEMMA ReplayEndAttempt ==
  ASSUME NEW rs \in RunState, NEW rec, rec.lease.att \in Attempts
  PROVE  \A a \in Attempts :
           /\ ReplayEnd(rs, rec).attempt[a].gen = rs.attempt[a].gen
           /\ ReplayEnd(rs, rec).attempt[a].status = rs.attempt[a].status
           /\ ReplayEnd(rs, rec).attempt[a].lease
                = IF a = rec.lease.att /\ rs.attempt[a].lease = rec.lid THEN NoLease
                  ELSE rs.attempt[a].lease
<1> DEFINE b  == rec.lease.att
           at == [rs.attempt EXCEPT ![b].lease = IF @ = rec.lid THEN NoLease ELSE @]
<1>1. ReplayEnd(rs, rec).attempt = at
  BY DEF ReplayEnd, RunState
<1>2. rs.attempt \in [Attempts -> AttemptRecord] /\ b \in Attempts
  BY DEF RunState
<1> HIDE DEF b
<1>3. \A a \in Attempts :
        /\ at[a].gen = rs.attempt[a].gen /\ at[a].status = rs.attempt[a].status
        /\ at[a].lease = IF a = b /\ rs.attempt[a].lease = rec.lid THEN NoLease
                         ELSE rs.attempt[a].lease
  BY <1>2 DEF AttemptRecord
<1> QED
  BY <1>1, <1>3 DEF b

\* At most the record's attempt loses its lease, and at most it expires.
Unbinds(cur, nx, rec) ==
  \A a \in Attempts :
    /\ nx.attempt[a].gen = cur.attempt[a].gen
    /\ nx.attempt[a].status \in {cur.attempt[a].status, "LEASE_EXPIRED"}
    /\ \/ nx.attempt[a].lease = cur.attempt[a].lease
       \/ /\ nx.attempt[a].lease = NoLease
          /\ a = rec.lease.att /\ cur.attempt[a].lease = rec.lid

\* A lease that ends: the state nx the live operation committed over cur, and
\* the state its record gives.
LEMMA EndTrails ==
  ASSUME NEW rs \in RunState, NEW cur \in RunState, NEW nx, Alike(rs, cur), Trails(rs, cur),
         NEW rec \in Record, rec.op \in {"release", "revoke", "expire"}, rec.lid \in LeaseIds,
         rec.lease \in Lease, Held(cur, rec.lid),
         nx.leases = [cur.leases EXCEPT ![rec.lid].status = EndStatus(rec.op)],
         nx.active = cur.active, nx.last \in {cur.last, NoEvent},
         Unbinds(cur, nx, rec)
  PROVE  Trails(ReplayEnd(rs, rec), nx)
<1> DEFINE x  == ReplayEnd(rs, rec)
           l  == rec.lid
           st == EndStatus(rec.op)
           b  == rec.lease.att
<1>1. st \in LeaseStatus \ {"ACTIVE"} /\ l \in LeaseIds /\ b \in Attempts
  BY DEF EndStatus, LeaseStatus, Lease
<1>2. Held(cur, l) /\ Held(rs, l)
  BY DEF Alike, LeaseAlike, Held
<1>3. /\ x.leases = [rs.leases EXCEPT ![l].status = st]
      /\ nx.leases = [cur.leases EXCEPT ![l].status = st]
  BY <1>2, ReplayEndFacts
<1>4. x.active = rs.active \ {l} /\ x.last = rs.last
  BY ReplayEndRest
<1>5. \A a \in Attempts :
        /\ x.attempt[a].gen = rs.attempt[a].gen /\ x.attempt[a].status = rs.attempt[a].status
        /\ x.attempt[a].lease = IF a = b /\ rs.attempt[a].lease = l THEN NoLease
                                ELSE rs.attempt[a].lease
  BY <1>1, ReplayEndAttempt
<1>6. \A a \in Attempts :
           /\ nx.attempt[a].gen = cur.attempt[a].gen
           /\ nx.attempt[a].status \in {cur.attempt[a].status, "LEASE_EXPIRED"}
           /\ \/ nx.attempt[a].lease = cur.attempt[a].lease
              \/ nx.attempt[a].lease = NoLease /\ a = b /\ cur.attempt[a].lease = l
  BY DEF Unbinds
<1> HIDE DEF x, l, st, b
<1>7. Ends(cur, nx, l)
  BY <1>1, <1>2, <1>3, EndedLeases
<1>8. Ends(rs, x, l)
  BY <1>1, <1>2, <1>3, EndedLeases
<1>9. \A k \in LeaseIds : LeaseBehind(x.leases[k], nx.leases[k])
  BY <1>7, <1>8 DEF Trails, LeaseBehind, Ends, Alike, LeaseAlike
<1>10. ASSUME NEW a \in Attempts PROVE AttemptBehind(x, nx, a)
  <2>0. AttemptBehind(rs, cur, a)
    BY DEF Trails
  <2>1. /\ x.attempt[a].gen <= nx.attempt[a].gen
        /\ nx.attempt[a].status \in {x.attempt[a].status, "LEASE_EXPIRED"}
    BY <1>5, <1>6, <2>0 DEF AttemptBehind
  <2>2. \/ x.attempt[a].lease = nx.attempt[a].lease
        \/ x.attempt[a].lease = NoLease /\ HolderOf(nx, a) = NoLease
    <3>1. CASE nx.attempt[a].lease # cur.attempt[a].lease
      BY <1>5, <1>6, <2>0, <3>1 DEF AttemptBehind
    <3>2. CASE nx.attempt[a].lease = cur.attempt[a].lease /\ HolderOf(cur, a) = NoLease
      <4>1. HolderOf(nx, a) = NoLease
        BY <1>7, <3>2, StillNoHolder DEF Ends
      <4> QED
        BY <1>5, <1>6, <2>0, <3>2, <4>1 DEF AttemptBehind
    <3>3. CASE /\ nx.attempt[a].lease = cur.attempt[a].lease
               /\ rs.attempt[a].lease = cur.attempt[a].lease
      <4>1. CASE a = b /\ rs.attempt[a].lease = l
        <5>1. ~IsActive(nx, nx.attempt[a].lease)
          BY <1>7, <3>3, <4>1 DEF Ends
        <5> QED
          BY <1>5, <3>3, <4>1, <5>1 DEF HolderOf
      <4>2. CASE ~(a = b /\ rs.attempt[a].lease = l)
        BY <1>5, <3>3, <4>2
      <4> QED
        BY <4>1, <4>2
    <3> QED
      BY <2>0, <3>1, <3>2, <3>3 DEF AttemptBehind
  <2> QED
    BY <2>1, <2>2 DEF AttemptBehind
<1>11. x.active \subseteq nx.active /\ Lists(x.active, nx) /\ nx.last \in {x.last, NoEvent}
  BY <1>4, <1>7 DEF Trails, Lists, Ends, NoneAdded
<1>12. Trails(x, nx)
  BY <1>9, <1>10, <1>11 DEF Trails
<1> QED
  BY <1>12 DEF x

\* A "detach" record.
LEMMA DetachTrails ==
  ASSUME NEW rs \in RunState, NEW cur \in RunState, Alike(rs, cur), Trails(rs, cur),
         NEW l \in LeaseIds, Held(cur, l)
  PROVE  Trails(ReplayDetach(rs, l, cur.version + 1), SetStatus(cur, l, "RELEASED"))
<1> DEFINE x  == ReplayDetach(rs, l, cur.version + 1)
           nx == SetStatus(cur, l, "RELEASED")
           st == "RELEASED"
<1>1. Held(rs, l) /\ cur.version + 1 \in Nat /\ st \in LeaseStatus \ {"ACTIVE"}
  BY DEF Alike, LeaseAlike, Held, RunState, LeaseStatus
<1>2. x.attempt = rs.attempt /\ x.leases = [rs.leases EXCEPT ![l].status = st]
  BY <1>1, ReplayDetachFacts
<1>3. nx.attempt = cur.attempt /\ nx.leases = [cur.leases EXCEPT ![l].status = st]
  BY SetStatusFacts DEF LeaseStatus
<1>4. /\ x.active = rs.active /\ x.last = rs.last
      /\ nx.active = cur.active /\ nx.last = cur.last
  BY ReplayDetachRest, SetStatusRest
<1> HIDE DEF x, nx, st
<1>7. Ends(cur, nx, l)
  BY <1>1, <1>3, EndedLeases
<1>8. Ends(rs, x, l)
  BY <1>1, <1>2, EndedLeases
<1>9. \A k \in LeaseIds : LeaseBehind(x.leases[k], nx.leases[k])
  BY <1>7, <1>8 DEF Trails, LeaseBehind, Ends, Alike, LeaseAlike
<1>10. ASSUME NEW a \in Attempts PROVE AttemptBehind(x, nx, a)
  <2>0. AttemptBehind(rs, cur, a)
    BY DEF Trails
  <2>1. HolderOf(cur, a) = NoLease => HolderOf(nx, a) = NoLease
    BY <1>3, <1>7, StillNoHolder DEF Ends
  <2> QED
    BY <1>2, <1>3, <2>0, <2>1 DEF AttemptBehind
<1>11. x.active \subseteq nx.active /\ Lists(x.active, nx) /\ nx.last \in {x.last, NoEvent}
  BY <1>4, <1>7 DEF Trails, Lists, Ends, NoneAdded
<1>12. Trails(x, nx)
  BY <1>9, <1>10, <1>11 DEF Trails
<1> QED
  BY <1>12 DEF x, nx

\* A "grant" record, with the lease as it was registered or with an expiry
\* read afterwards; the attempt had an earlier generation.
LEMMA GrantTrails ==
  ASSUME NEW rs \in RunState, NEW cur \in RunState, Alike(rs, cur), Trails(rs, cur),
         NEW l \in LeaseIds, NEW lease \in Lease, NEW v \in Nat,
         cur.attempt[lease.att].gen <= lease.gen
  PROVE  Trails(ReplayGrant(rs, l, lease, v), Registered(cur, l, lease))
<1> DEFINE x  == ReplayGrant(rs, l, lease, v)
           nx == Registered(cur, l, lease)
           b  == lease.att
           g  == [lease EXCEPT !.gen = 0]
<1>1. /\ x.leases = [rs.leases EXCEPT ![l] = g]
      /\ x.attempt = [rs.attempt EXCEPT ![b].lease = l, ![b].token = lease.token]
  BY ReplayGrantFacts
<1>2. /\ nx.leases = [cur.leases EXCEPT ![l] = lease]
      /\ nx.attempt = [cur.attempt EXCEPT ![b] = Bound(cur.attempt[b], l, lease)]
  BY RegisteredFacts DEF NewLeases, NewAttempt
<1>3. x.active = ListOf(x.leases) /\ x.last = rs.last
  BY ReplayGrantRest
<1>4. nx.active = ListOf(nx.leases) /\ nx.last = NoEvent
  BY RegisteredRest
<1>t. /\ rs.leases \in [LeaseIds -> Lease \cup {NoLease}]
      /\ cur.leases \in [LeaseIds -> Lease \cup {NoLease}]
      /\ rs.attempt \in [Attempts -> AttemptRecord]
      /\ cur.attempt \in [Attempts -> AttemptRecord]
      /\ b \in Attempts
  BY DEF RunState, Lease
<1>g. /\ g # NoLease /\ lease # NoLease /\ g.status = lease.status
      /\ g.gen = 0 /\ g.expires = lease.expires /\ lease.expires \in Nat /\ lease.gen \in Nat
  BY NoneAssumption, BoundsAssumption DEF Lease, Times
<1>b. cur.attempt[b].gen <= lease.gen
  OBVIOUS
<1> HIDE DEF x, nx, b, g
<1>5. x.leases[l] = g /\ nx.leases[l] = lease
  BY <1>1, <1>2, <1>t
<1>6. \A k \in LeaseIds : k # l => x.leases[k] = rs.leases[k] /\ nx.leases[k] = cur.leases[k]
  BY <1>1, <1>2, <1>t
<1>7. \A k \in LeaseIds : LeaseBehind(x.leases[k], nx.leases[k])
  <2>1. LeaseBehind(g, lease)
    BY <1>g DEF LeaseBehind
  <2> QED
    BY <1>5, <1>6, <2>1 DEF Trails
<1>8. x.active = nx.active
  <2>1. ASSUME NEW k \in LeaseIds
        PROVE  x.leases[k] # NoLease /\ x.leases[k].status = "ACTIVE"
                 <=> nx.leases[k] # NoLease /\ nx.leases[k].status = "ACTIVE"
    <3>1. CASE k = l
      BY <1>5, <1>g, <3>1
    <3>2. CASE k # l
      BY <1>6, <3>2 DEF Alike, LeaseAlike
    <3> QED
      BY <3>1, <3>2
  <2> QED
    BY <1>3, <1>4, <2>1 DEF ListOf
<1>9. Lists(x.active, nx)
  BY <1>4, <1>8 DEF Lists, ListOf, IsActive, Held
<1>10. ASSUME NEW a \in Attempts PROVE AttemptBehind(x, nx, a)
  <2>0. AttemptBehind(rs, cur, a)
    BY DEF Trails
  <2>1. CASE a = b
    <3>1. /\ x.attempt[b].lease = l /\ x.attempt[b].gen = rs.attempt[b].gen
          /\ x.attempt[b].status = rs.attempt[b].status
      BY <1>1, <1>t DEF AttemptRecord
    <3>2. nx.attempt[b] = Bound(cur.attempt[b], l, lease)
      BY <1>2, <1>t
    <3>3. /\ nx.attempt[b].lease = l /\ nx.attempt[b].gen = lease.gen
          /\ nx.attempt[b].status = cur.attempt[b].status
      BY <1>t, <3>2 DEF Bound, AttemptRecord
    <3>4. rs.attempt[b].gen \in Nat /\ cur.attempt[b].gen \in Nat
      BY <1>t DEF AttemptRecord
    <3>5. rs.attempt[b].gen <= lease.gen
      BY <1>b, <1>g, <2>0, <2>1, <3>4 DEF AttemptBehind
    <3> QED
      BY <2>0, <2>1, <3>1, <3>3, <3>5 DEF AttemptBehind
  <2>2. CASE a # b
    <3>1. x.attempt[a] = rs.attempt[a] /\ nx.attempt[a] = cur.attempt[a]
      BY <1>1, <1>2, <1>t, <2>2
    <3>2. ASSUME HolderOf(cur, a) = NoLease PROVE HolderOf(nx, a) = NoLease
      <4> DEFINE m == cur.attempt[a].lease
      <4>1. m \in LeaseIds \cup {NoLease}
        BY <1>t DEF AttemptRecord
      <4> HIDE DEF m
      <4>2. HolderOf(cur, a) = IF m # NoLease /\ IsActive(cur, m) /\ cur.leases[m].att = a
                               THEN m ELSE NoLease
        BY DEF HolderOf, m
      <4>3. HolderOf(nx, a) = IF m # NoLease /\ IsActive(nx, m) /\ nx.leases[m].att = a
                              THEN m ELSE NoLease
        BY <3>1 DEF HolderOf, m
      <4>4. CASE m = l
        BY <1>5, <2>2, <4>3, <4>4 DEF b
      <4>5. CASE m # l /\ m \in LeaseIds
        BY <1>6, <3>2, <4>2, <4>3, <4>5 DEF IsActive, Held
      <4> QED
        BY <4>1, <4>3, <4>4, <4>5
    <3> QED
      BY <2>0, <3>1, <3>2 DEF AttemptBehind
  <2> QED
    BY <2>1, <2>2
<1>11. Trails(x, nx)
  BY <1>4, <1>7, <1>8, <1>9, <1>10 DEF Trails
<1> QED
  BY <1>11 DEF x, nx

\* A "renew" record: the live expiry only grows.
LEMMA RenewTrails ==
  ASSUME NEW rs \in RunState, NEW cur \in RunState, Alike(rs, cur), Trails(rs, cur),
         NEW l \in LeaseIds, Held(cur, l), NEW t \in Times, t >= cur.leases[l].expires, NEW v
  PROVE  Trails([rs EXCEPT !.version = v], Renewed(cur, l, t))
<1> DEFINE x  == [rs EXCEPT !.version = v]
           nx == Renewed(cur, l, t)
<1>1. /\ x.leases = rs.leases /\ x.attempt = rs.attempt
      /\ x.active = rs.active /\ x.last = rs.last
  BY DEF RunState
<1>2. /\ nx.leases = [cur.leases EXCEPT ![l].expires = t] /\ nx.attempt = cur.attempt
      /\ nx.leases[l] \in Lease
  BY RenewedFacts
<1>3. nx.active = cur.active /\ nx.last = cur.last
  BY RenewedRest
<1>4. /\ cur.leases \in [LeaseIds -> Lease \cup {NoLease}] /\ cur.leases[l] \in Lease
      /\ rs.leases[l] \in Lease
  BY DEF RunState, Held, Alike, LeaseAlike
<1> HIDE DEF x, nx
<1>5. nx.leases[l] = [cur.leases[l] EXCEPT !.expires = t]
  BY <1>2, <1>4
<1>6. /\ nx.leases[l].expires = t /\ nx.leases[l].gen = cur.leases[l].gen
      /\ nx.leases[l].status = cur.leases[l].status /\ nx.leases[l].att = cur.leases[l].att
      /\ nx.leases[l] # NoLease /\ cur.leases[l] # NoLease
  BY <1>2, <1>4, <1>5, NoneAssumption DEF Lease
<1>7. \A k \in LeaseIds : k # l => nx.leases[k] = cur.leases[k]
  BY <1>2, <1>4
<1>8. NoneAdded(cur, nx)
  BY <1>6, <1>7 DEF NoneAdded, IsActive, Held
<1>9. \A k \in LeaseIds : LeaseBehind(x.leases[k], nx.leases[k])
  <2>1. LeaseBehind(rs.leases[l], cur.leases[l])
    BY DEF Trails
  <2>2. rs.leases[l].expires \in Nat /\ cur.leases[l].expires \in Nat /\ t \in Nat
    BY <1>4, BoundsAssumption DEF Lease, Times
  <2>3. LeaseBehind(rs.leases[l], nx.leases[l])
    BY <1>6, <2>1, <2>2 DEF LeaseBehind
  <2> QED
    BY <1>1, <1>7, <2>3 DEF Trails
<1>10. ASSUME NEW a \in Attempts PROVE AttemptBehind(x, nx, a)
  <2>0. AttemptBehind(rs, cur, a)
    BY DEF Trails
  <2>1. HolderOf(cur, a) = NoLease => HolderOf(nx, a) = NoLease
    BY <1>2, <1>8, StillNoHolder
  <2> QED
    BY <1>1, <1>2, <2>0, <2>1 DEF AttemptBehind
<1>11. x.active \subseteq nx.active /\ Lists(x.active, nx) /\ nx.last \in {x.last, NoEvent}
  BY <1>1, <1>3, <1>8 DEF Trails, Lists, NoneAdded
<1>12. Trails(x, nx)
  BY <1>9, <1>10, <1>11 DEF Trails
<1> QED
  BY <1>12 DEF x, nx

\* States with the same leases, attempt records, list and last event.
LEMMA SameTrails ==
  ASSUME NEW x, NEW rs, NEW y, NEW new, Trails(x, rs),
         y.leases = x.leases, y.attempt = x.attempt, y.active = x.active,
         new.leases = rs.leases, new.attempt = rs.attempt, new.active = rs.active,
         (y.last = x.last /\ new.last = rs.last) \/ y.last = new.last
  PROVE  Trails(y, new)
<1>1. \A l \in LeaseIds : IsActive(new, l) <=> IsActive(rs, l)
  BY DEF IsActive, Held
<1>2. \A a \in Attempts : HolderOf(new, a) = HolderOf(rs, a)
  BY DEF HolderOf, IsActive, Held
<1>3. \A a \in Attempts : AttemptBehind(y, new, a)
  BY <1>2 DEF Trails, AttemptBehind
<1> QED
  BY <1>1, <1>3 DEF Trails, Lists

\* Replay's state with the record under way, against the stored run.
Behind ==
  \A c \in Callers :
    Trails(Expected(pc[c], work[c], Replayed(ckpt), run.version, Len(journal)), run)

Listed == Lists(run.active, run)

BehindInv == ReplayInv /\ GenerationAhead /\ Listed /\ (ckpt # NoRun => Behind)

\* A snapshot at the stored version.
LEMMA SnapTrails ==
  ASSUME TypeOK, SnapshotCoherent, NEW c \in Callers, snap[c].version = run.version,
         NEW rs, Trails(rs, run)
  PROVE  Trails(rs, snap[c])
<1>1. /\ snap[c].leases = run.leases /\ snap[c].attempt = run.attempt
      /\ snap[c].active = run.active /\ snap[c].last = run.last
  BY DEF TypeOK, SnapshotCoherent, RunState
<1> QED
  BY <1>1, SameTrails

\* journal_position does not matter.
LEMMA ApplyTrails ==
  ASSUME NEW rs, NEW rec, NEW i, NEW x \in RunState,
         ApplyRuntimeRecord(rs, rec, i) = [x EXCEPT !.jp = i - 1], NEW nx, Trails(x, nx)
  PROVE  Trails(ApplyRuntimeRecord(rs, rec, i), nx)
<1> DEFINE y == [x EXCEPT !.jp = i - 1]
<1>1. y.leases = x.leases /\ y.attempt = x.attempt /\ y.active = x.active /\ y.last = x.last
  BY DEF RunState
<1> HIDE DEF y
<1>2. Trails(y, nx)
  BY <1>1, SameTrails
<1> QED
  BY <1>2 DEF y

\* The live operations that commit and then journal.
LEMMA JournaledTrails ==
  ASSUME Inv, NEW c \in Callers, NEW rec, ThenJournal(c, rec), NEW rs, NEW n \in Nat,
         Trails(ApplyRuntimeRecord(rs, rec, n + 1), run')
  PROVE  Trails(Expected(pc'[c], work'[c], rs, run'.version, n), run')
<1>1. pc'[c] = "append" /\ work'[c].rec = rec
  BY DEF ThenJournal, Goto, Inv, TypeOK, Pending
<1> QED
  BY <1>1 DEF Expected

\* release, revoke and the expiry of a lease that is no longer current.
LEMMA StatusBehind ==
  ASSUME Inv, NEW c \in Callers, NEW l \in LeaseIds, Held(snap[c], l),
         NEW op \in {"release", "revoke", "expire"},
         PutRun(SetStatus(snap[c], l, EndStatus(op)), snap[c].version),
         ThenJournal(c, LeaseRecord(op, l, SetStatus(snap[c], l, EndStatus(op)).leases[l],
                                    "NONE", SetStatus(snap[c], l, EndStatus(op)).version)),
         NEW rs \in RunState, Alike(rs, run), Trails(rs, run), NEW n \in Nat
  PROVE  Trails(Expected(pc'[c], work'[c], rs, run'.version, n), run')
<1> DEFINE cur == snap[c]
           st  == EndStatus(op)
           nx  == SetStatus(cur, l, st)
           rec == LeaseRecord(op, l, nx.leases[l], "NONE", nx.version)
<1>1. cur \in RunState /\ Alike(rs, cur) /\ Trails(rs, cur) /\ run' = nx
  BY SnapAlike, SnapTrails DEF PutRun, Inv, TypeOK
<1>2. st \in LeaseStatus
  BY DEF EndStatus, LeaseStatus
<1>h. Held(cur, l)
  OBVIOUS
<1> HIDE DEF st, cur
<1>3. /\ nx \in RunState /\ nx.attempt = cur.attempt
      /\ nx.leases = [cur.leases EXCEPT ![l].status = st] /\ nx.leases[l] \in Lease
  BY <1>1, <1>2, <1>h, SetStatusFacts
<1>4. nx.active = cur.active /\ nx.last = cur.last
  BY <1>1, SetStatusRest
<1>5. nx.version \in Nat
  BY <1>3 DEF RunState
<1>6. rec \in Record
  BY <1>3, <1>5, LeaseRecordType DEF Ops
<1>7. rec.op = op /\ rec.lid = l /\ rec.lease = nx.leases[l]
  BY DEF LeaseRecord
<1>8. ThenJournal(c, rec)
  BY DEF st, cur
<1> HIDE DEF nx, rec
<1>e. ReplayEnd(rs, rec) \in RunState
  <2>1. Held(rs, l)
    BY <1>1, <1>h DEF Alike, LeaseAlike, Held
  <2> QED
    BY <1>3, <1>6, <1>7, <2>1, ReplayEndFacts
<1>u. Unbinds(cur, nx, rec)
  BY <1>3 DEF Unbinds
<1>9. Trails(ReplayEnd(rs, rec), nx)
  BY <1>1, <1>3, <1>4, <1>6, <1>7, <1>h, <1>u, EndTrails DEF st
<1>10. ApplyRuntimeRecord(rs, rec, n + 1) = [ReplayEnd(rs, rec) EXCEPT !.jp = (n + 1) - 1]
  BY <1>7 DEF ApplyRuntimeRecord
<1>11. Trails(ApplyRuntimeRecord(rs, rec, n + 1), nx)
  BY <1>e, <1>9, <1>10, ApplyTrails
<1> QED
  BY <1>1, <1>8, <1>11, JournaledTrails

\* The expiry of a node's current lease.
LEMMA ExpireBehind ==
  ASSUME Inv, NEW c \in Callers, NEW l \in LeaseIds, Held(snap[c], l),
         IsCurrentLease(snap[c], l),
         PutRun(ExpiredCurrent(snap[c], l), snap[c].version),
         ThenJournal(c, LeaseRecord("expire", l, ExpiredCurrent(snap[c], l).leases[l],
                                    "LEASE_EXPIRED", ExpiredCurrent(snap[c], l).version)),
         NEW rs \in RunState, Alike(rs, run), Trails(rs, run), NEW n \in Nat
  PROVE  Trails(Expected(pc'[c], work'[c], rs, run'.version, n), run')
<1> DEFINE cur == snap[c]
           nx  == ExpiredCurrent(cur, l)
           a   == cur.leases[l].att
           rec == LeaseRecord("expire", l, nx.leases[l], "LEASE_EXPIRED", nx.version)
<1>1. cur \in RunState /\ Alike(rs, cur) /\ Trails(rs, cur) /\ run' = nx
  BY SnapAlike, SnapTrails DEF PutRun, Inv, TypeOK
<1>2. /\ nx \in RunState
      /\ nx.attempt = [cur.attempt EXCEPT ![a].status = "LEASE_EXPIRED", ![a].lease = NoLease]
      /\ nx.leases = [cur.leases EXCEPT ![l].status = "EXPIRED"]
      /\ nx.leases[l] \in Lease
  BY <1>1, ExpiredCurrentFacts
<1>3. /\ cur.leases \in [LeaseIds -> Lease \cup {NoLease}] /\ cur.leases[l] \in Lease
      /\ cur.attempt \in [Attempts -> AttemptRecord] /\ a \in Attempts
  BY <1>1 DEF RunState, Held, Lease
<1>4. nx.active = cur.active /\ nx.last = NoEvent
  BY <1>1, ExpiredRest
<1>5. nx.version \in Nat
  BY <1>2 DEF RunState
<1>6. rec \in Record
  BY <1>2, <1>5, LeaseRecordType DEF Ops
<1>7. rec.op = "expire" /\ rec.lid = l /\ rec.lease = nx.leases[l]
  BY DEF LeaseRecord
<1>8. ThenJournal(c, rec) /\ Held(cur, l) /\ cur.attempt[a].lease = l
  BY DEF IsCurrentLease
<1> HIDE DEF cur, nx, rec, a
<1>9. rec.lease.att = a
  <2>1. nx.leases[l] = [cur.leases[l] EXCEPT !.status = "EXPIRED"]
    BY <1>2, <1>3
  <2> QED
    BY <1>3, <1>7, <2>1 DEF a, Lease
<1>s. nx.leases = [cur.leases EXCEPT ![rec.lid].status = EndStatus(rec.op)]
  BY <1>2, <1>7 DEF EndStatus
<1>10. \A b \in Attempts :
         /\ nx.attempt[b].gen = cur.attempt[b].gen
         /\ nx.attempt[b].status \in {cur.attempt[b].status, "LEASE_EXPIRED"}
         /\ \/ nx.attempt[b].lease = cur.attempt[b].lease
            \/ nx.attempt[b].lease = NoLease /\ b = a /\ cur.attempt[b].lease = l
  BY <1>2, <1>3, <1>8 DEF AttemptRecord
<1>e. ReplayEnd(rs, rec) \in RunState
  <2>1. Held(rs, l)
    BY <1>1, <1>8 DEF Alike, LeaseAlike, Held
  <2> QED
    BY <1>2, <1>6, <1>7, <2>1, ReplayEndFacts
<1>11. Trails(ReplayEnd(rs, rec), nx)
  <2>1. Unbinds(cur, nx, rec)
    BY <1>7, <1>9, <1>10 DEF Unbinds
  <2>2. /\ rec.op \in {"release", "revoke", "expire"} /\ rec.lid \in LeaseIds
        /\ rec.lease \in Lease /\ Held(cur, rec.lid)
        /\ nx.active = cur.active /\ nx.last \in {cur.last, NoEvent}
    BY <1>2, <1>4, <1>7, <1>8
  <2> QED
    BY <1>1, <1>6, <1>s, <2>1, <2>2, EndTrails
<1>12. ApplyRuntimeRecord(rs, rec, n + 1) = [ReplayEnd(rs, rec) EXCEPT !.jp = (n + 1) - 1]
  BY <1>7 DEF ApplyRuntimeRecord
<1>13. Trails(ApplyRuntimeRecord(rs, rec, n + 1), nx)
  BY <1>e, <1>11, <1>12, ApplyTrails
<1> QED
  BY <1>1, <1>8, <1>13, JournaledTrails

\* A renewal.
LEMMA RenewBehind ==
  ASSUME Inv, NEW c \in Callers, NEW l \in LeaseIds, NEW token, NEW t \in Times, NEW now,
         Renew(c, l, token, t, now), NEW rs \in RunState, Alike(rs, run), Trails(rs, run),
         NEW n \in Nat
  PROVE  Trails(Expected(pc'[c], work'[c], rs, run'.version, n), run')
<1> DEFINE cur == snap[c]
           nx  == Renewed(cur, l, t)
           rec == LeaseRecord("renew", l, nx.leases[l], "NONE", nx.version)
           x   == [rs EXCEPT !.version = cur.version + 1]
<1>1. /\ PutRun(nx, cur.version) /\ ThenJournal(c, rec) /\ Held(cur, l)
      /\ t >= cur.leases[l].expires
  BY DEF Renew, IsActive, Renewable
<1>2. cur \in RunState /\ Alike(rs, cur) /\ Trails(rs, cur) /\ run' = nx
  BY <1>1, SnapAlike, SnapTrails DEF PutRun, Inv, TypeOK
<1>3. nx.version = cur.version + 1 /\ cur.version + 1 \in Nat
  <2>1. nx.version = cur.version + 1
    BY <1>1, <1>2, RenewedFacts
  <2> QED
    BY <1>2, <2>1 DEF RunState
<1>4. rec.op = "renew" /\ rec.version = nx.version
  BY DEF LeaseRecord
<1> HIDE DEF cur, rec
<1>5. x \in RunState
  BY <1>3 DEF RunState
<1>t. Trails(x, nx)
  BY <1>1, <1>2, RenewTrails
<1>6. ApplyRuntimeRecord(rs, rec, n + 1) = [x EXCEPT !.jp = (n + 1) - 1]
  BY <1>3, <1>4 DEF ApplyRuntimeRecord
<1> HIDE DEF nx, x
<1>7. Trails(ApplyRuntimeRecord(rs, rec, n + 1), nx)
  BY <1>5, <1>6, <1>t, ApplyTrails
<1> QED
  BY <1>1, <1>2, <1>7, JournaledTrails

\* The registration of a granted lease.
LEMMA CommitBehind ==
  ASSUME Inv, NEW c \in Callers, NEW l \in LeaseIds, NEW lease \in Lease, Commit(c, l, lease),
         run.attempt[lease.att].gen < lease.gen,
         NEW rs \in RunState, Alike(rs, run), Trails(rs, run), NEW n
  PROVE  Trails(Expected(pc'[c], work'[c], rs, run'.version, n), run')
<1>1. /\ pc'[c] = "registerSync" /\ run' = Registered(snap[c], l, lease)
      /\ run'.version = run.version + 1
      /\ work'[c] = Pending(LeaseRecord("grant", l, lease, "NONE", run'.version),
                            NoLease, run'.version)
  BY CommitEffect
<1>2. work'[c].rec.lid = l /\ work'[c].rec.lease = lease
  BY <1>1 DEF Pending, LeaseRecord
<1>3. /\ snap[c] \in RunState /\ snap[c].version = run.version
      /\ Alike(rs, snap[c]) /\ Trails(rs, snap[c])
  BY SnapAlike, SnapTrails DEF Commit, PutRun, Inv, TypeOK
<1>4. snap[c].attempt = run.attempt
  BY <1>3, SameFields DEF Inv
<1>5. run.attempt[lease.att].gen \in Nat /\ lease.gen \in Nat
  BY DEF Inv, TypeOK, RunState, AttemptRecord, Lease
<1>6. snap[c].attempt[lease.att].gen <= lease.gen
  BY <1>4, <1>5
<1>7. run'.version \in Nat
  BY <1>1 DEF Inv, TypeOK, RunState
<1>8. PICK v \in Nat : v = run'.version
  BY <1>7
<1>9. Trails(ReplayGrant(rs, l, lease, v), Registered(snap[c], l, lease))
  BY <1>3, <1>6, GrantTrails
<1> QED
  BY <1>1, <1>2, <1>8, <1>9 DEF Expected, DetachPending, GrantPending

\* The detachment of the lease a grant replaces.
LEMMA DetachBehind ==
  ASSUME Inv, NEW c \in Callers, NEW l \in LeaseIds, NEW a \in Attempts, NEW token, NEW expires,
         NEW gen, GrantDetach(c, l, a, token, expires, gen),
         NEW rs \in RunState, Alike(rs, run), Trails(rs, run), NEW n
  PROVE  Trails(Expected(pc'[c], work'[c], rs, run'.version, n), run')
<1> DEFINE cur == snap[c]
<1>1. PICK old \in ActiveLeases(cur, a) :
        /\ PutRun(SetStatus(cur, old, "RELEASED"), cur.version)
        /\ work' = [work EXCEPT ![c] =
             Pending(LeaseRecord("grant", l, NewLease(a, token, expires, gen), "NONE", 0),
                     old, SetStatus(cur, old, "RELEASED").version)]
  BY DEF GrantDetach
<1>2. pc'[c] = "detachSync" /\ work'[c].old = old
  BY <1>1 DEF GrantDetach, Goto, Inv, TypeOK, Pending
<1>3. /\ cur \in RunState /\ Alike(rs, cur) /\ Trails(rs, cur)
      /\ run' = SetStatus(cur, old, "RELEASED")
  BY <1>1, SnapAlike, SnapTrails DEF PutRun, Inv, TypeOK
<1>4. old \in LeaseIds /\ Held(cur, old)
  BY <1>1 DEF ActiveLeases, IsActive
<1> HIDE DEF cur
<1>5. run'.version = cur.version + 1
  BY <1>3, <1>4, SetStatusFacts DEF LeaseStatus
<1> DEFINE x == ReplayDetach(rs, old, cur.version + 1)
<1>6. Trails(x, run')
  BY <1>3, <1>4, DetachTrails
<1> QED
  BY <1>2, <1>5, <1>6 DEF Expected, DetachPending

\* An event record.
LEMMA EventTrails ==
  ASSUME TypeOK, NEW rs \in RunState, NEW cur \in RunState, Alike(rs, cur), Trails(rs, cur),
         NEW e \in Events, NEW s \in NextNodeStatus(cur, e)
  PROVE  /\ ReplayEvent(rs, e, cur.version + 1) \in RunState
         /\ Trails(ReplayEvent(rs, e, cur.version + 1), Applied(cur, e, s))
<1> DEFINE x  == ReplayEvent(rs, e, cur.version + 1)
           nx == Applied(cur, e, s)
<1>1. s \in NodeStatus
  BY NextNodeStatusFacts
<1>2. ReplayedStatus(rs, e) = s
  <2>1. ReplayedStatus(cur, e) = s
    BY SameReducer
  <2> QED
    BY <2>1 DEF ReplayedStatus, Alike
<1>3. cur.version + 1 \in Nat
  BY DEF RunState
<1>4. /\ x \in RunState
      /\ x.version = cur.version + 1 /\ x.status = rs.status
      /\ x.node = [rs.node EXCEPT ![e.node].status = s]
      /\ x.leases = rs.leases /\ x.attempt = rs.attempt
      /\ x.seen = Keyed(rs.seen, e)
      /\ x.stream = [rs.stream EXCEPT ![e.att] = e.seq + 1]
      /\ x.cursor = e
  BY <1>1, <1>2, <1>3, ReplayEventFacts
<1>5. nx.attempt = cur.attempt /\ nx.leases = cur.leases
  BY <1>1, AppliedFacts
<1>6. x.active = rs.active /\ x.last = e /\ nx.active = cur.active /\ nx.last = e
  BY ReplayEventRest, AppliedRest
<1> HIDE DEF x, nx
<1>7. Trails(x, nx)
  BY <1>4, <1>5, <1>6, SameTrails
<1> QED
  BY <1>4, <1>7 DEF x, nx

\* An event.
LEMMA RouteBehind ==
  ASSUME Inv, NEW c \in Callers, NEW e \in Events, Route(c, e),
         NEW rs \in RunState, Alike(rs, run), Trails(rs, run), NEW n \in Nat
  PROVE  Trails(Expected(pc'[c], work'[c], rs, run'.version, n), run')
<1> DEFINE cur == snap[c]
           v   == cur.version + 1
           rec == EventRecord(e, v)
           x   == ReplayEvent(rs, e, v)
<1>i. TypeOK /\ SnapshotCoherent
  BY DEF Inv
<1>1. PICK s \in NextNodeStatus(cur, e) : PutRun(Applied(cur, e, s), cur.version)
  BY DEF Route
<1>2. pc'[c] = "append" /\ work'[c].rec = rec
  BY <1>i DEF Route, Goto, TypeOK, Pending
<1>3. cur \in RunState /\ Alike(rs, cur) /\ Trails(rs, cur)
  BY <1>i, <1>1, SnapAlike, SnapTrails DEF PutRun, TypeOK
<1>5. rec.op = "event" /\ rec.event = e /\ rec.version = v
  BY DEF EventRecord
<1>8. run' = Applied(cur, e, s)
  BY <1>1 DEF PutRun
<1> HIDE DEF cur
<1>6. x \in RunState /\ Trails(x, Applied(cur, e, s))
  BY <1>i, <1>3, EventTrails
<1> HIDE DEF rec
<1>7. ApplyRuntimeRecord(rs, rec, n + 1) = [x EXCEPT !.jp = (n + 1) - 1]
  BY <1>5 DEF ApplyRuntimeRecord
<1> HIDE DEF x
<1>15. Trails(ApplyRuntimeRecord(rs, rec, n + 1), run')
  BY <1>6, <1>7, <1>8, ApplyTrails
<1> QED
  BY <1>2, <1>15 DEF Expected

\* So for every service call.
LEMMA ServiceBehind ==
  ASSUME OneInv, NEW c \in Callers, CallService(c), NEW rs \in RunState, Alike(rs, run),
         Trails(rs, run), NEW n \in Nat
  PROVE  Trails(Expected(pc'[c], work'[c], rs, run'.version, n), run')
<1> DEFINE Goal == Trails(Expected(pc'[c], work'[c], rs, run'.version, n), run')
<1>i. Inv
  BY DEF OneInv
<1>1. ASSUME NEW l \in LeaseIds, Revoke(c, l) PROVE Goal
  <2>1. EndStatus("revoke") = "REVOKED" /\ Held(snap[c], l)
    BY <1>1 DEF EndStatus, Revoke, IsActive
  <2> QED
    BY <1>i, <1>1, <2>1, StatusBehind DEF Revoke
<1>2. ASSUME NEW l \in LeaseIds, NEW now \in Times, Release(c, l, now) PROVE Goal
  <2>1. EndStatus("release") = "RELEASED" /\ Held(snap[c], l)
    BY <1>2 DEF EndStatus, Release, IsActive
  <2> QED
    BY <1>i, <1>2, <2>1, StatusBehind DEF Release
<1>3. ASSUME NEW l \in LeaseIds, Expire(c, l) PROVE Goal
  <2>1. EndStatus("expire") = "EXPIRED" /\ Held(snap[c], l)
    BY <1>3 DEF EndStatus, Expire, IsActive
  <2>2. CASE IsCurrentLease(snap[c], l)
    BY <1>i, <1>3, <2>1, <2>2, ExpireBehind DEF Expire
  <2>3. CASE ~IsCurrentLease(snap[c], l)
    BY <1>i, <1>3, <2>1, <2>3, StatusBehind DEF Expire
  <2> QED
    BY <2>2, <2>3
<1>4. ASSUME NEW l \in LeaseIds, NEW token \in Tokens, NEW expires \in Times, NEW now \in Times,
             Renew(c, l, token, expires, now)
      PROVE  Goal
  BY <1>i, <1>4, RenewBehind
<1>5. ASSUME NEW l \in LeaseIds, NEW a \in Attempts, NEW token \in Tokens,
             NEW expires \in Times, NEW gen \in 1..MaxGeneration,
             Grant(c, l, a, token, expires, gen)
      PROVE  Goal
  <2> DEFINE lease == NewLease(a, token, expires, gen)
  <2>1. lease \in Lease /\ lease.att = a /\ lease.gen = gen
    BY NewLeaseType DEF NewLease
  <2>2. Commit(c, l, lease) /\ gen > CurrentGeneration(snap[c], a)
    BY <1>5 DEF Grant
  <2> HIDE DEF lease
  <2>3. /\ snap[c] \in RunState /\ snap[c].version = run.version
        /\ AllBound(snap[c]) /\ snap[c].attempt = run.attempt
    BY <1>i, <2>2, SnapBound, SameFields DEF Inv, TypeOK, Commit, PutRun
  <2>4. CurrentGeneration(snap[c], a) = run.attempt[a].gen
    BY <2>3, CurrentGenerationIs
  <2>5. run.attempt[a].gen \in Nat /\ gen \in Nat
    BY <1>i, BoundsAssumption DEF Inv, TypeOK, RunState, AttemptRecord
  <2>6. run.attempt[lease.att].gen < lease.gen
    BY <2>1, <2>2, <2>4, <2>5
  <2> QED
    BY <1>i, <2>1, <2>2, <2>6, CommitBehind
<1>6. ASSUME NEW l \in LeaseIds, NEW a \in Attempts, NEW token \in Tokens,
             NEW expires \in Times, NEW gen \in 1..MaxGeneration,
             GrantDetach(c, l, a, token, expires, gen)
      PROVE  Goal
  BY <1>i, <1>6, DetachBehind
<1>7. ASSUME NEW e \in Events, Route(c, e) PROVE Goal
  BY <1>i, <1>7, RouteBehind
<1> HIDE DEF Goal
<1>8. Goal
  BY <1>1, <1>2, <1>3, <1>4, <1>5, <1>6, <1>7, Zenon DEF CallService
<1> QED
  BY <1>8 DEF Goal

\* The stored run trails itself as long as it lists its ACTIVE leases.
LEMMA SelfTrails ==
  ASSUME NEW rs \in RunState, Lists(rs.active, rs)
  PROVE  Alike(rs, rs) /\ Trails(rs, rs)
<1>1. Alike(rs, rs)
  BY DEF Alike, LeaseAlike
<1>2. \A l \in LeaseIds : rs.leases[l] # NoLease
        => rs.leases[l].expires \in Int /\ rs.leases[l].gen \in Int
  BY BoundsAssumption DEF RunState, Lease, Times
<1>3. \A a \in Attempts : rs.attempt[a].gen \in Int
  BY DEF RunState, AttemptRecord
<1>4. \A l \in LeaseIds : LeaseBehind(rs.leases[l], rs.leases[l])
  BY <1>2 DEF LeaseBehind
<1>5. \A a \in Attempts : AttemptBehind(rs, rs, a)
  BY <1>3 DEF AttemptBehind
<1> QED
  BY <1>1, <1>4, <1>5 DEF Trails

\* What trails a run lists its ACTIVE leases, and so does the run.
LEMMA TrailsLists ==
  ASSUME NEW x, NEW rs, Trails(x, rs)
  PROVE  Lists(rs.active, rs)
BY DEF Trails, Lists

\* The list goes on being complete.
LEMMA ListedNext ==
  ASSUME OneInv, GenerationAhead, Listed, NEW c \in Callers,
         GetRun(c) \/ CallService(c) \/ StoreCall(c)
  PROVE  Listed'
<1>i. Inv /\ TypeOK /\ run \in RunState /\ 0 \in Nat
  BY DEF OneInv, Inv, TypeOK
<1>s. Alike(run, run) /\ Trails(run, run)
  BY <1>i, SelfTrails DEF Listed
<1>1. CASE CallService(c)
  <2>1. Trails(Expected(pc'[c], work'[c], run, run'.version, 0), run')
    BY <1>i, <1>s, <1>1, ServiceBehind
  <2> QED
    BY <2>1, TrailsLists DEF Listed
<1>2. CASE Register(c)
  <2>1. /\ Commit(c, work[c].rec.lid, work[c].rec.lease)
        /\ work[c].rec.lid \in LeaseIds /\ work[c].rec.lease \in Lease
        /\ run.attempt[work[c].rec.lease.att].gen < work[c].rec.lease.gen
    BY <1>2, <1>i DEF Register, Inv, PendingOK, PendingOf, GrantPC, GenerationAhead, DetachPC
  <2>2. Trails(Expected(pc'[c], work'[c], run, run'.version, 0), run')
    BY <1>i, <1>s, <2>1, CommitBehind
  <2> QED
    BY <2>2, TrailsLists DEF Listed
<1>3. ASSUME run'.leases = run.leases, run'.active = run.active PROVE Listed'
  BY <1>3 DEF Listed, Lists, IsActive, Held
<1>4. ASSUME NEW v, SyncJournalPosition(v) PROVE Listed'
  <2>1. run'.leases = run.leases /\ run'.active = run.active
    BY <1>i, <1>4 DEF SyncJournalPosition, RunState
  <2> QED
    BY <1>3, <2>1
<1>5. CASE DetachSync(c) \/ DetachAppendSync(c) \/ RegisterSync(c) \/ FinalSync(c)
  BY <1>3, <1>4, <1>5 DEF DetachSync, DetachAppendSync, RegisterSync, FinalSync, StaleSync
<1>6. CASE \/ GetRun(c) \/ DetachRead(c) \/ DetachAppend(c) \/ RegisterConflict(c)
           \/ RegisterRead(c) \/ JournalAppend(c) \/ DedupePut(c) \/ SaveStreamWatermark(c)
  BY <1>3, <1>6 DEF GetRun, DetachRead, DetachAppend, RegisterConflict, StaleSync, RegisterRead,
     JournalAppend, DedupePut, SaveStreamWatermark
<1> QED
  BY <1>1, <1>2, <1>5, <1>6 DEF StoreCall

\* A step that keeps the journal.
LEMMA KeepBehind ==
  ASSUME OneCaller, NEW c \in Callers, journal' = journal, ckpt' = ckpt,
         Trails(Expected(pc'[c], work'[c], Replayed(ckpt), run'.version, Len(journal)), run')
  PROVE  Behind'
BY DEF Behind, Replayed, OneCaller

\* A step that appends the record under way.
LEMMA MoreBehind ==
  ASSUME OneCaller, NEW c \in Callers, Inv, Rebuilt, NEW rec \in Record,
         journal' = Append(journal, rec), ckpt' = ckpt, run' = run,
         pc'[c] \notin {"append"} \cup DetachPending \cup GrantPending,
         NEW x \in RunState,
         ApplyRuntimeRecord(Replayed(ckpt), rec, Len(journal) + 1)
           = [x EXCEPT !.jp = Len(journal)],
         Trails(x, run)
  PROVE  Behind'
<1> DEFINE n  == Len(journal)
           y  == [x EXCEPT !.jp = n]
<1>1. journal \in Seq(Record) /\ n \in Nat
  BY DEF Inv, TypeOK
<1>2. ckpt.jp + 1 \in 0..n
  BY <1>1 DEF Rebuilt
<1>3. Replayed(ckpt)' = y
  BY <1>1, <1>2, ReplayAppend DEF Replayed
<1>4. y.leases = x.leases /\ y.attempt = x.attempt /\ y.active = x.active /\ y.last = x.last
  BY DEF RunState
<1> HIDE DEF y
<1>5. Trails(y, run)
  BY <1>4, SameTrails
<1>6. Expected(pc'[c], work'[c], Replayed(ckpt)', run'.version, Len(journal')) = y
  BY <1>3 DEF Expected
<1>7. Trails(Expected(pc'[c], work'[c], Replayed(ckpt)', run'.version, Len(journal')), run')
  BY <1>5, <1>6
<1> QED
  BY <1>7 DEF Behind, OneCaller

\* The leases and the attempt records that a grant record gives.
Granted(rs, x, l, f) ==
  /\ x.leases = [rs.leases EXCEPT ![l] = [f EXCEPT !.gen = 0]]
  /\ x.attempt = [rs.attempt EXCEPT ![f.att].lease = l, ![f.att].token = f.token]

LEMMA ReplayGranted ==
  ASSUME NEW rs \in RunState, NEW l \in LeaseIds, NEW lease \in Lease, NEW v \in Nat
  PROVE  Granted(rs, ReplayGrant(rs, l, lease, v), l, lease)
<1> DEFINE x == ReplayGrant(rs, l, lease, v)
<1>1. /\ x \in RunState /\ Carries(rs, x) /\ x.version = v
      /\ x.node = NewNode(rs, l, lease)
      /\ x.leases = [rs.leases EXCEPT ![l] = [lease EXCEPT !.gen = 0]]
      /\ x.attempt = [rs.attempt EXCEPT ![lease.att].lease = l, ![lease.att].token = lease.token]
  BY ReplayGrantFacts
<1> QED
  BY <1>1 DEF Granted

\* A grant record with the expiry of the stored lease trails as well.
LEMMA RegrantTrails ==
  ASSUME NEW rs \in RunState, NEW l \in LeaseIds, NEW g \in Lease, NEW h \in Lease,
         h.att = g.att, h.token = g.token, h.status = g.status, NEW v \in Nat,
         NEW y \in RunState, Held(y, l), h.expires = y.leases[l].expires,
         Trails(ReplayGrant(rs, l, g, v), y)
  PROVE  Trails(ReplayGrant(rs, l, h, v), y)
<1> DEFINE x == ReplayGrant(rs, l, g, v)
           z == ReplayGrant(rs, l, h, v)
           gz == [g EXCEPT !.gen = 0]
           hz == [h EXCEPT !.gen = 0]
<1>0. Granted(rs, x, l, g) /\ Granted(rs, z, l, h)
  BY ReplayGranted
<1>1. /\ x.leases = [rs.leases EXCEPT ![l] = gz]
      /\ x.attempt = [rs.attempt EXCEPT ![g.att].lease = l, ![g.att].token = g.token]
  BY <1>0 DEF Granted
<1>2. /\ z.leases = [rs.leases EXCEPT ![l] = hz]
      /\ z.attempt = [rs.attempt EXCEPT ![h.att].lease = l, ![h.att].token = h.token]
  BY <1>0 DEF Granted
<1>3. /\ x.active = ListOf(x.leases) /\ x.last = rs.last
      /\ z.active = ListOf(z.leases) /\ z.last = rs.last
  BY ReplayGrantRest
<1>4. Trails(x, y)
  OBVIOUS
<1>5. /\ rs.leases \in [LeaseIds -> Lease \cup {NoLease}] /\ y.leases[l] \in Lease
  BY DEF RunState, Held
<1>6. /\ hz # NoLease /\ gz # NoLease /\ hz.status = gz.status
      /\ hz.gen = 0 /\ hz.expires = y.leases[l].expires
      /\ y.leases[l].expires \in Nat /\ y.leases[l].gen \in Nat
  BY <1>5, NoneAssumption, BoundsAssumption DEF Lease, Times
<1> HIDE DEF x, z, gz, hz
<1>7. z.attempt = x.attempt
  BY <1>1, <1>2
<1>8. x.leases[l] = gz /\ z.leases[l] = hz
  BY <1>1, <1>2, <1>5
<1>9. \A k \in LeaseIds : k # l => z.leases[k] = x.leases[k]
  BY <1>1, <1>2, <1>5
<1>10. z.active = x.active
  BY <1>3, <1>6, <1>8, <1>9 DEF ListOf
<1>11. \A k \in LeaseIds : LeaseBehind(z.leases[k], y.leases[k])
  <2>1. LeaseBehind(z.leases[l], y.leases[l])
    BY <1>6, <1>8 DEF LeaseBehind
  <2> QED
    BY <1>4, <1>9, <2>1 DEF Trails
<1>12. \A a \in Attempts : AttemptBehind(z, y, a)
  BY <1>4, <1>7 DEF Trails, AttemptBehind
<1>13. Trails(z, y)
  BY <1>3, <1>4, <1>10, <1>11, <1>12 DEF Trails
<1> QED
  BY <1>13 DEF z

\* The store calls.
LEMMA StoreBehind ==
  ASSUME OneCaller, NEW c \in Callers, SoloInv, GenerationAhead, Rebuilt, Behind, ckpt' = ckpt,
         StoreCall(c)
  PROVE  Behind'
<1> DEFINE n  == Len(journal)
           rs == Replayed(ckpt)
           E  == Expected(pc[c], work[c], rs, run.version, n)
<1>i. Inv /\ TypeOK /\ Undisturbed /\ n \in Nat /\ run \in RunState
  BY DEF SoloInv, OneInv, Inv, TypeOK
<1>r. rs \in RunState /\ Rebuilds(E, run) /\ Trails(E, run)
  BY DEF Rebuilt, Behind
<1>w. work[c] \in Work /\ pc \in [Callers -> PC] /\ work \in [Callers -> Work]
  BY <1>i DEF TypeOK
<1>1. CASE DetachRead(c)
  <2>1. /\ pc'[c] = "detachAppend" /\ pc[c] = "detachRead" /\ run' = run /\ journal' = journal
        /\ work'[c].old = work[c].old
    BY <1>1, <1>w DEF DetachRead, Goto, Work
  <2>2. Expected(pc'[c], work'[c], rs, run'.version, n) = E
    BY <2>1 DEF Expected, DetachPending
  <2> QED
    BY <1>r, <2>1, <2>2, KeepBehind
<1>2. CASE DetachAppend(c)
  <2> DEFINE rec == LeaseRecord("detach", work[c].old, NoLease, "NONE", work[c].committed)
             x   == ReplayDetach(rs, work[c].old, run.version)
  <2>1. /\ pc'[c] = "detachAppendSync" /\ pc[c] = "detachAppend" /\ run' = run
        /\ journal' = Append(journal, rec)
    BY <1>2, <1>w DEF DetachAppend, Goto
  <2>2. E = x /\ work[c].committed = run.version
    BY <1>i, <2>1 DEF Expected, DetachPending, Undisturbed
  <2>3. x \in RunState /\ Trails(x, run)
    BY <1>r, <2>2 DEF Rebuilds
  <2>4. rec \in Record
    BY <1>w, LeaseRecordType DEF Work, Ops
  <2>5. rec.op = "detach" /\ rec.lid = work[c].old /\ rec.version = run.version
    BY <2>2 DEF LeaseRecord
  <2> HIDE DEF rec
  <2>6. ApplyRuntimeRecord(rs, rec, n + 1) = [x EXCEPT !.jp = (n + 1) - 1] /\ (n + 1) - 1 = n
    BY <1>i, <2>5 DEF ApplyRuntimeRecord
  <2>7. pc'[c] \notin {"append"} \cup DetachPending \cup GrantPending
    BY <2>1 DEF DetachPending, GrantPending
  <2> HIDE DEF x
  <2> QED
    BY <1>i, <2>1, <2>3, <2>4, <2>6, <2>7, MoreBehind
<1>3. CASE Register(c)
  <2>1. /\ work[c].rec.lid \in LeaseIds /\ work[c].rec.lease \in Lease
        /\ run.attempt[work[c].rec.lease.att].gen < work[c].rec.lease.gen
    BY <1>i, <1>3 DEF Register, Inv, PendingOK, PendingOf, GrantPC, GenerationAhead, DetachPC
  <2>2. E = rs
    BY <1>3 DEF Register, Expected, DetachPending, GrantPending
  <2>3. Commit(c, work[c].rec.lid, work[c].rec.lease) /\ journal' = journal
    BY <1>3 DEF Register, Commit
  <2>4. Alike(rs, run) /\ Trails(rs, run)
    BY <1>r, <2>2 DEF Rebuilds
  <2>5. Trails(Expected(pc'[c], work'[c], rs, run'.version, n), run')
    BY <1>i, <1>r, <2>1, <2>3, <2>4, CommitBehind
  <2> QED
    BY <2>3, <2>5, KeepBehind
<1>4. CASE RegisterRead(c)
  <2> DEFINE w == work'[c]
             l == work[c].rec.lid
             g == work[c].rec.lease
             v == run.version
             h == w.rec.lease
  <2>1. /\ pc'[c] = "append" /\ pc[c] = "registerRead" /\ run' = run /\ journal' = journal
        /\ w = [work[c] EXCEPT !.rec = [work[c].rec EXCEPT !.version = v,
                    !.lease = [g EXCEPT !.expires = run.leases[l].expires]],
                               !.committed = v]
    BY <1>4, <1>w DEF RegisterRead, Goto
  <2>2. l \in LeaseIds /\ g \in Lease /\ Held(run, l) /\ work[c].rec.op = "grant"
    BY <1>i, <2>1 DEF Inv, PendingOK, PendingOf, GrantPC
  <2>3. run.leases[l].expires \in Times /\ v \in Nat
    BY <1>i, <2>2 DEF TypeOK, RunState, Held, Lease
  <2>4. w.rec = [work[c].rec EXCEPT !.version = v,
                    !.lease = [g EXCEPT !.expires = run.leases[l].expires]]
    BY <1>w, <2>1 DEF Work
  <2>5. /\ w.rec.op = "grant" /\ w.rec.lid = l /\ w.rec.version = v
        /\ h = [g EXCEPT !.expires = run.leases[l].expires]
    BY <1>w, <2>2, <2>4 DEF Work, Record
  <2>6. /\ h \in Lease /\ h.att = g.att /\ h.token = g.token /\ h.status = g.status
        /\ h.expires = run.leases[l].expires
    BY <2>2, <2>3, <2>5 DEF Lease
  <2>7. E = ReplayGrant(rs, l, g, v)
    BY <2>1 DEF Expected, DetachPending, GrantPending
  <2>8. ReplayGrant(rs, l, h, v) \in RunState
    BY <1>r, <2>2, <2>3, <2>6, ReplayGrantFacts
  <2>9. Trails(ReplayGrant(rs, l, h, v), run)
    <3>1. rs \in RunState /\ run \in RunState /\ Trails(ReplayGrant(rs, l, g, v), run)
      BY <1>i, <1>r, <2>7
    <3> HIDE DEF w, l, g, v, h, rs, E
    <3> QED
      BY <2>2, <2>3, <2>6, <3>1, RegrantTrails
  <2>10. ApplyRuntimeRecord(rs, w.rec, n + 1) = [ReplayGrant(rs, l, h, v) EXCEPT !.jp = (n + 1) - 1]
    BY <2>5 DEF ApplyRuntimeRecord
  <2>11. Trails(ApplyRuntimeRecord(rs, w.rec, n + 1), run)
    BY <2>8, <2>9, <2>10, ApplyTrails
  <2>12. Trails(Expected(pc'[c], w, rs, run'.version, n), run')
    BY <2>1, <2>11 DEF Expected
  <2> QED
    BY <2>1, <2>12, KeepBehind
<1>5. CASE JournalAppend(c)
  <2> DEFINE rec == work[c].rec
             x   == ApplyRuntimeRecord(rs, rec, n + 1)
  <2>1. /\ pc'[c] \in {"dedupe", "appendSync"} /\ pc[c] = "append" /\ run' = run
        /\ journal' = Append(journal, rec)
    BY <1>5, <1>w DEF JournalAppend, Goto
  <2>2. x \in RunState /\ Trails(x, run)
    BY <1>r, <2>1 DEF Expected, Rebuilds
  <2>3. rec \in Record
    BY <1>w DEF Work
  <2>4. x.jp = (n + 1) - 1
    BY <2>2, ApplyPosition
  <2>5. x = [x EXCEPT !.jp = n]
    BY <1>i, <2>2, <2>4 DEF RunState
  <2>6. pc'[c] \notin {"append"} \cup DetachPending \cup GrantPending
    BY <2>1 DEF DetachPending, GrantPending
  <2> QED
    BY <1>i, <2>1, <2>2, <2>3, <2>5, <2>6, MoreBehind
<1>6. CASE DedupePut(c) \/ SaveStreamWatermark(c)
  <2>1. /\ pc[c] \in {"dedupe", "watermark"} /\ pc'[c] \in {"watermark", "appendSync"}
        /\ run' = run /\ journal' = journal
    BY <1>6, <1>w DEF DedupePut, SaveStreamWatermark, Goto
  <2>2. Expected(pc'[c], work'[c], rs, run'.version, n) = E
    BY <2>1 DEF Expected, DetachPending, GrantPending
  <2> QED
    BY <1>r, <2>1, <2>2, KeepBehind
<1>7. CASE Synced(c)
  <2>1. /\ run'.version = run.version /\ run'.leases = run.leases /\ run'.attempt = run.attempt
        /\ run'.active = run.active /\ run'.last = run.last
    BY <1>i, <1>7 DEF Synced, SyncJournalPosition, RunState
  <2>2. Expected(pc'[c], work'[c], rs, run'.version, n) = E
    BY <1>7, <2>1 DEF Synced, SyncThen, Expected, DetachPending, GrantPending
  <2>3. Trails(E, run')
    BY <1>r, <2>1, SameTrails
  <2> QED
    BY <1>7, <2>2, <2>3, KeepBehind DEF Synced
<1> QED
  BY <1>i, <1>1, <1>2, <1>3, <1>4, <1>5, <1>6, <1>7, StoreShape

\* A checkpoint just taken has nothing to replay.
LEMMA CheckpointBehind ==
  ASSUME Callers # {}, SoloInv, Listed, TakeCheckpoint
  PROVE  Behind'
<1> DEFINE x == Snapshot(run)
           n == Len(journal)
<1>i. TypeOK /\ n \in Nat /\ run \in RunState
  BY DEF SoloInv, OneInv, Inv, TypeOK
<1>1. \A c \in Callers : pc[c] = "idle"
  BY DEF TakeCheckpoint, Quiescent
<1>3. /\ x \in RunState /\ x.jp = n - 1 /\ x.version = run.version /\ x.status = run.status
      /\ x.node = run.node /\ x.leases = run.leases /\ x.attempt = run.attempt
      /\ x.cursor = run.cursor
      /\ x.seen = [k \in Keys |-> IF keys[k] = NoEvent THEN run.seen[k] ELSE keys[k]]
      /\ x.stream = [a \in Attempts |-> IF wm[a] = 0 THEN run.stream[a] ELSE wm[a]]
  BY <1>i, SnapshotFacts
<1>r. x.active = run.active /\ x.last = run.last
  BY <1>i DEF Snapshot, RunState
<1>4. ckpt' = x /\ UNCHANGED <<run, journal, pc, work>>
  BY DEF TakeCheckpoint, vars
<1> HIDE DEF x
<1>5. Trails(run, run)
  BY <1>i, SelfTrails DEF Listed
<1>6. Trails(x, run)
  BY <1>3, <1>5, <1>r, SameTrails
<1>7. x.jp + 1 = n
  BY <1>i, <1>3
<1>8. Replayed(ckpt)' = x
  BY <1>i, <1>4, <1>7, ReplayNone DEF Replayed
<1>9. \A c \in Callers : Expected(pc[c], work[c], x, run.version, n) = x
  BY <1>1 DEF Expected, DetachPending, GrantPending
<1> QED
  BY <1>4, <1>6, <1>8, <1>9 DEF Behind

\* Recovery carries the leases and the list over.
LEMMA RecoverListed ==
  ASSUME SoloInv, Listed, Recover
  PROVE  Listed' /\ GenerationAhead' /\ ckpt' = NoRun
<1> DEFINE x == Snapshot(run)
           n == Len(journal)
<1>i. TypeOK /\ n \in Nat /\ run \in RunState
  BY DEF SoloInv, OneInv, Inv, TypeOK
<1>1. x.leases = run.leases /\ x.active = run.active
  BY <1>i DEF Snapshot, RunState
<1>2. run' = x
  BY <1>i, RecoverIs
<1>3. ckpt' = NoRun /\ pc' = [c \in Callers |-> "idle"]
  BY DEF Recover
<1> HIDE DEF x
<1>4. Listed'
  BY <1>1, <1>2 DEF Listed, Lists, IsActive, Held
<1> QED
  BY <1>3, <1>4 DEF GenerationAhead, DetachPC

\* Every step keeps the invariant.
LEMMA BehindNext ==
  ASSUME OneCaller, Callers # {} PROVE BehindInv /\ [RecNext]_recVars => BehindInv'
<1> SUFFICES ASSUME BehindInv, [RecNext]_recVars PROVE BehindInv'
  OBVIOUS
<1>i. ReplayInv /\ SoloInv /\ OneInv /\ TypeOK /\ GenerationAhead /\ Listed /\ run \in RunState
  BY DEF BehindInv, ReplayInv, SoloInv, OneInv, Inv, TypeOK
<1>r. ReplayInv'
  BY <1>i, ReplayNext
<1>1. CASE UNCHANGED recVars
  <2>1. UNCHANGED <<run, journal, pc, work, ckpt>>
    BY <1>1 DEF recVars, vars
  <2> QED
    BY <1>r, <2>1 DEF BehindInv, GenerationAhead, Listed, Behind, Replayed
<1>2. CASE TakeCheckpoint
  <2>1. Behind'
    BY <1>i, <1>2, CheckpointBehind
  <2>2. UNCHANGED <<run, pc, work>>
    BY <1>2 DEF TakeCheckpoint, vars
  <2> QED
    BY <1>i, <1>r, <2>1, <2>2 DEF BehindInv, GenerationAhead, Listed
<1>3. CASE Recover
  BY <1>i, <1>r, <1>3, RecoverListed DEF BehindInv
<1>4. CASE Live
  <2>1. ckpt' = ckpt /\ [Next]_vars
    BY <1>4 DEF Live
  <2>2. GenerationAhead'
    BY <1>i, <2>1, GenNext DEF GenInv
  <2>3. PICK c \in Callers : GetRun(c) \/ CallService(c) \/ StoreCall(c)
    BY <1>4 DEF Live, Next
  <2>4. Listed'
    BY <1>i, <2>3, ListedNext
  <2>5. ASSUME ckpt # NoRun PROVE Behind'
    <3>1. Rebuilt /\ Behind
      BY <2>5 DEF BehindInv, ReplayInv
    <3>2. CASE GetRun(c)
      BY <2>1, <3>1, <3>2 DEF GetRun, Behind, Replayed
    <3>3. CASE CallService(c)
      <4>1. ServiceEffect(c)
        BY <1>i, <3>3, ServiceShape DEF OneInv
      <4>2. Expected(pc[c], work[c], Replayed(ckpt), run.version, Len(journal)) = Replayed(ckpt)
        BY <4>1 DEF ServiceEffect, Expected, DetachPending, GrantPending
      <4>3. Replayed(ckpt) \in RunState /\ Alike(Replayed(ckpt), run)
        BY <3>1, <4>2 DEF Rebuilt, Rebuilds
      <4>t. Trails(Replayed(ckpt), run)
        BY <3>1, <4>2 DEF Behind
      <4>4. Len(journal) \in Nat /\ journal' = journal
        BY <1>i, <4>1 DEF TypeOK, ServiceEffect
      <4>5. Trails(Expected(pc'[c], work'[c], Replayed(ckpt), run'.version, Len(journal)), run')
        BY <1>i, <3>3, <4>3, <4>4, <4>t, ServiceBehind
      <4> QED
        BY <2>1, <4>4, <4>5, KeepBehind
    <3>4. CASE StoreCall(c)
      BY <1>i, <2>1, <3>1, <3>4, StoreBehind
    <3> QED
      BY <2>3, <3>2, <3>3, <3>4
  <2> QED
    BY <1>r, <2>1, <2>2, <2>4, <2>5 DEF BehindInv
<1> QED
  BY <1>1, <1>2, <1>3, <1>4 DEF RecNext

LEMMA BehindInit == RecInit => BehindInv
<1> SUFFICES ASSUME RecInit PROVE BehindInv
  OBVIOUS
<1>1. SoloInv /\ ckpt = NoRun /\ \A c \in Callers : pc[c] = "idle"
  BY SoloInit DEF RecInit, Init
<1>i. PICK status \in InitStatuses, token \in Tokens : run = InitRun(status, token)
  BY DEF RecInit, Init
<1>2. Listed
  <2>1. \A l \in LeaseIds : ~IsActive(run, l)
    BY <1>i DEF InitRun, IsActive, Held
  <2> QED
    BY <2>1 DEF Listed, Lists
<1> QED
  BY <1>1, <1>2 DEF BehindInv, ReplayInv, GenerationAhead, DetachPC

\* Two run states that are alike have the same essence, if one trails the other.
LEMMA EssenceRebuilt ==
  ASSUME NEW x \in RunState, NEW rs \in RunState, Alike(x, rs), Trails(x, rs)
  PROVE  Essence(x) = Essence(rs)
<1> DEFINE lease(r, l) == IF r.leases[l] = NoLease THEN <<>>
                          ELSE <<r.leases[l].att, r.leases[l].token, r.leases[l].status>>
<1>1. \A l \in LeaseIds : lease(x, l) = lease(rs, l)
  BY DEF Alike, LeaseAlike
<1> HIDE DEF lease
<1>2. [l \in LeaseIds |-> lease(x, l)] = [l \in LeaseIds |-> lease(rs, l)]
  BY <1>1
<1>3. [a \in Attempts |-> x.attempt[a].token] = [a \in Attempts |-> rs.attempt[a].token]
  BY DEF Alike
<1>4. \A l \in LeaseIds : IsActive(x, l) <=> IsActive(rs, l)
  BY DEF Alike, LeaseAlike, IsActive, Held
<1>5. x.active \subseteq LeaseIds /\ rs.active \subseteq LeaseIds
  BY DEF RunState
<1>6. {l \in x.active : IsActive(x, l)} = {l \in rs.active : IsActive(rs, l)}
  BY <1>4, <1>5 DEF Trails, Lists
<1>7. ASSUME NEW a \in Attempts PROVE HolderOf(x, a) = HolderOf(rs, a)
  <2> DEFINE m == x.attempt[a].lease
             k == rs.attempt[a].lease
  <2>1. m \in LeaseIds \cup {NoLease} /\ k \in LeaseIds \cup {NoLease}
    BY DEF RunState, AttemptRecord
  <2>2. m = k \/ (m = NoLease /\ HolderOf(rs, a) = NoLease)
    BY DEF Trails, AttemptBehind
  <2> HIDE DEF m, k
  <2>3. HolderOf(x, a) = IF m # NoLease /\ IsActive(x, m) /\ x.leases[m].att = a
                         THEN m ELSE NoLease
    BY DEF HolderOf, m
  <2>4. HolderOf(rs, a) = IF k # NoLease /\ IsActive(rs, k) /\ rs.leases[k].att = a
                          THEN k ELSE NoLease
    BY DEF HolderOf, k
  <2>5. \A l \in LeaseIds : IsActive(x, l) => x.leases[l].att = rs.leases[l].att
    BY DEF Alike, LeaseAlike, IsActive, Held
  <2>6. CASE m = NoLease
    BY <2>2, <2>3, <2>4, <2>6
  <2>7. CASE m = k /\ m \in LeaseIds
    BY <1>4, <2>3, <2>4, <2>5, <2>7
  <2> QED
    BY <2>1, <2>2, <2>6, <2>7
<1>8. [a \in Attempts |-> HolderOf(x, a)] = [a \in Attempts |-> HolderOf(rs, a)]
  BY <1>7
<1> QED
  BY <1>2, <1>3, <1>6, <1>8 DEF Essence, Alike, lease

\* Replay fidelity: with one caller, whatever it calls and whenever it crashes,
\* between calls replaying the journal over an earlier checkpoint of the store
\* gives the live run, in everything that decides who holds a node and which
\* events count.
THEOREM ReplayRebuilds ==
  ASSUME OneCaller, Callers # {}
  PROVE  RecSpec => []ReplayFaithful
<1>1. RecInit => BehindInv
  BY BehindInit
<1>2. BehindInv /\ [RecNext]_recVars => BehindInv'
  BY BehindNext
<1>3. BehindInv => ReplayFaithful
  <2> SUFFICES ASSUME BehindInv, Quiescent, ckpt # NoRun
               PROVE  /\ Essence(Replayed(ckpt)) = Essence(run)
                      /\ journal # <<>> => Replayed(ckpt).jp = run.jp
    BY DEF ReplayFaithful
  <2>1. Rebuilt /\ Positioned /\ Behind /\ run \in RunState
    BY DEF BehindInv, ReplayInv, SoloInv, OneInv, Inv, TypeOK
  <2>2. PICK c \in Callers : pc[c] = "idle"
    BY DEF Quiescent
  <2>3. Expected(pc[c], work[c], Replayed(ckpt), run.version, Len(journal)) = Replayed(ckpt)
    BY <2>2 DEF Expected, DetachPending, GrantPending
  <2>4. /\ Replayed(ckpt) \in RunState /\ Alike(Replayed(ckpt), run)
        /\ Trails(Replayed(ckpt), run)
    BY <2>1, <2>3 DEF Rebuilt, Rebuilds, Behind
  <2>5. Essence(Replayed(ckpt)) = Essence(run)
    BY <2>1, <2>4, EssenceRebuilt
  <2>6. journal # <<>> => Replayed(ckpt).jp = run.jp
    BY <2>1, <2>2 DEF Rebuilt, Positioned, LastRecordIndex
  <2> QED
    BY <2>5, <2>6
<1> QED
  BY <1>1, <1>2, <1>3, PTL DEF RecSpec

\* What replay does not rebuild errs on one side: with one caller, whatever it
\* calls and whenever it crashes, the replayed run never has a longer lease, a
\* later generation, another lease bound or another last event than the live
\* one.
THEOREM ReplayLags ==
  ASSUME OneCaller, Callers # {}
  PROVE  RecSpec => []ReplayNeverAhead
<1>1. RecInit => BehindInv
  BY BehindInit
<1>2. BehindInv /\ [RecNext]_recVars => BehindInv'
  BY BehindNext
<1>3. BehindInv => ReplayNeverAhead
  <2> SUFFICES ASSUME BehindInv, Quiescent, ckpt # NoRun
               PROVE  ReplayNeverAhead
    BY DEF ReplayNeverAhead
  <2> DEFINE x == Replayed(ckpt)
  <2>1. Behind
    BY DEF BehindInv
  <2>2. PICK c \in Callers : pc[c] = "idle"
    BY DEF Quiescent
  <2>3. Expected(pc[c], work[c], x, run.version, Len(journal)) = x
    BY <2>2 DEF Expected, DetachPending, GrantPending
  <2>4. Trails(x, run)
    BY <2>1, <2>3 DEF Behind
  <2> HIDE DEF x
  <2>5. \A l \in LeaseIds : Held(x, l) =>
          x.leases[l].expires <= run.leases[l].expires /\ x.leases[l].gen <= run.leases[l].gen
    BY <2>4 DEF Trails, LeaseBehind, Held
  <2>6. \A a \in Attempts :
          /\ x.attempt[a].gen <= run.attempt[a].gen
          /\ x.attempt[a].lease \in {run.attempt[a].lease, NoLease}
          /\ run.attempt[a].status \in {x.attempt[a].status, "LEASE_EXPIRED"}
    BY <2>4 DEF Trails, AttemptBehind
  <2>7. x.active \subseteq run.active /\ run.last \in {x.last, NoEvent}
    BY <2>4 DEF Trails
  <2> QED
    BY <2>5, <2>6, <2>7 DEF ReplayNeverAhead, x
<1> QED
  BY <1>1, <1>2, <1>3, PTL DEF RecSpec

-----------------------------------------------------------------------------
(* One caller's runtime is a lease authority.                               *)

GrantOf(rs, l) ==
  [id |-> l, token |-> rs.leases[l].token, gen |-> rs.leases[l].gen,
   expires |-> rs.leases[l].expires]
HoldingOf(rs) == [a \in Attempts |-> Holders(rs, a)]
IssuedOf(rs) == [a \in Attempts |-> rs.attempt[a].gen]

\* The leases an attempt holds, by their ids.
LEMMA HolderIs ==
  ASSUME NEW rs, NEW a, NEW h
  PROVE  h \in Holders(rs, a)
           <=> \E l \in LeaseIds : IsActive(rs, l) /\ rs.leases[l].att = a /\ h = GrantOf(rs, l)
BY DEF Holders, GrantOf, ActiveLeases

\* With its lease bound, an attempt has one holder at most.
LEMMA OneHolder ==
  ASSUME NEW rs, AllBound(rs), NEW l \in LeaseIds, IsActive(rs, l), NEW a, rs.leases[l].att = a
  PROVE  /\ \A k \in LeaseIds : IsActive(rs, k) /\ rs.leases[k].att = a => k = l
         /\ Holders(rs, a) = {GrantOf(rs, l)}
<1>1. \A k \in LeaseIds : IsActive(rs, k) /\ rs.leases[k].att = a => k = l
  BY DEF AllBound, BoundTo
<1>2. \A h : h \in Holders(rs, a) <=> h = GrantOf(rs, l)
  BY <1>1, HolderIs
<1> QED
  BY <1>1, <1>2

\* Leases that stay as they are have the holders they had.
LEMMA SameHolders ==
  ASSUME NEW rs, NEW new, NEW a,
         \A k \in LeaseIds :
           \/ new.leases[k] = rs.leases[k]
           \/ /\ ~(IsActive(rs, k) /\ rs.leases[k].att = a)
              /\ ~(IsActive(new, k) /\ new.leases[k].att = a)
  PROVE  Holders(new, a) = Holders(rs, a)
<1>1. \A k \in LeaseIds :
        /\ IsActive(new, k) /\ new.leases[k].att = a <=> IsActive(rs, k) /\ rs.leases[k].att = a
        /\ IsActive(new, k) /\ new.leases[k].att = a => GrantOf(new, k) = GrantOf(rs, k)
  BY DEF IsActive, Held, GrantOf
<1>2. \A h : h \in Holders(new, a) <=> h \in Holders(rs, a)
  BY <1>1, HolderIs
<1> QED
  BY <1>2

\* Ending a lease leaves its attempt without one.
LEMMA EndHolders ==
  ASSUME NEW rs \in RunState, AllBound(rs), NEW l \in LeaseIds, IsActive(rs, l),
         NEW new, NEW st \in LeaseStatus \ {"ACTIVE"},
         new.leases = [rs.leases EXCEPT ![l].status = st]
  PROVE  HoldingOf(new) = [HoldingOf(rs) EXCEPT ![rs.leases[l].att] = {}]
<1> DEFINE a == rs.leases[l].att
<1>1. DOMAIN rs.leases = LeaseIds /\ rs.leases[l] \in Lease /\ a \in Attempts
  BY DEF RunState, IsActive, Held, Lease
<1>2. /\ \A k \in LeaseIds \ {l} : new.leases[k] = rs.leases[k]
      /\ new.leases[l].status = st
  BY <1>1 DEF Lease
<1>3. ~IsActive(new, l) /\ rs.leases[l].att = a
  BY <1>2 DEF IsActive
<1> HIDE DEF a
<1>4. ASSUME NEW b \in Attempts \ {a} PROVE Holders(new, b) = Holders(rs, b)
  <2>1. \A k \in LeaseIds :
          \/ new.leases[k] = rs.leases[k]
          \/ /\ ~(IsActive(rs, k) /\ rs.leases[k].att = b)
             /\ ~(IsActive(new, k) /\ new.leases[k].att = b)
    BY <1>2, <1>3
  <2> QED
    BY <2>1, SameHolders
<1>5. Holders(new, a) = {}
  <2>1. \A k \in LeaseIds : IsActive(rs, k) /\ rs.leases[k].att = a => k = l
    BY <1>3, OneHolder
  <2>2. \A k \in LeaseIds : ~(IsActive(new, k) /\ new.leases[k].att = a)
    BY <1>2, <1>3, <2>1 DEF IsActive, Held
  <2>3. \A h : h \notin Holders(new, a)
    BY <2>2, HolderIs
  <2> QED
    BY <2>3
<1>6. HoldingOf(new) = [HoldingOf(rs) EXCEPT ![a] = {}]
  BY <1>1, <1>4, <1>5 DEF HoldingOf
<1> QED
  BY <1>6 DEF a

\* Renewing a lease changes its time only.
LEMMA ExtendHolders ==
  ASSUME NEW rs \in RunState, AllBound(rs), NEW l \in LeaseIds, IsActive(rs, l),
         NEW new, NEW t \in Times, new.leases = [rs.leases EXCEPT ![l].expires = t]
  PROVE  HoldingOf(new)
           = [HoldingOf(rs) EXCEPT ![rs.leases[l].att] = {[GrantOf(rs, l) EXCEPT !.expires = t]}]
<1> DEFINE a == rs.leases[l].att
           g == [GrantOf(rs, l) EXCEPT !.expires = t]
<1>1. /\ DOMAIN rs.leases = LeaseIds /\ rs.leases[l] \in Lease /\ a \in Attempts
      /\ NoLease \notin Lease
  BY NoneAssumption DEF RunState, IsActive, Held, Lease
<1>2. /\ \A k \in LeaseIds \ {l} : new.leases[k] = rs.leases[k]
      /\ new.leases[l] = [rs.leases[l] EXCEPT !.expires = t]
  BY <1>1
<1>3. /\ new.leases[l] \in Lease /\ new.leases[l].status = "ACTIVE" /\ new.leases[l].att = a
      /\ new.leases[l].token = rs.leases[l].token /\ new.leases[l].gen = rs.leases[l].gen
      /\ new.leases[l].expires = t /\ rs.leases[l].att = a
  BY <1>1, <1>2 DEF Lease, IsActive
<1>4. IsActive(new, l) /\ GrantOf(new, l) = g
  BY <1>1, <1>3 DEF IsActive, Held, GrantOf
<1> HIDE DEF a, g
<1>5. ASSUME NEW b \in Attempts \ {a} PROVE Holders(new, b) = Holders(rs, b)
  <2>1. \A k \in LeaseIds :
          \/ new.leases[k] = rs.leases[k]
          \/ /\ ~(IsActive(rs, k) /\ rs.leases[k].att = b)
             /\ ~(IsActive(new, k) /\ new.leases[k].att = b)
    BY <1>2, <1>3
  <2> QED
    BY <2>1, SameHolders
<1>6. Holders(new, a) = {g}
  <2>1. \A k \in LeaseIds : IsActive(rs, k) /\ rs.leases[k].att = a => k = l
    BY <1>3, OneHolder
  <2>2. \A k \in LeaseIds : IsActive(new, k) /\ new.leases[k].att = a => k = l
    BY <1>2, <2>1 DEF IsActive, Held
  <2>3. \A h : h \in Holders(new, a) <=> h = g
    BY <1>3, <1>4, <2>2, HolderIs
  <2> QED
    BY <2>3
<1>7. HoldingOf(new) = [HoldingOf(rs) EXCEPT ![a] = {g}]
  BY <1>1, <1>5, <1>6 DEF HoldingOf
<1> QED
  BY <1>7 DEF a, g

\* Registering a lease for an attempt without one takes its id from others.
LEMMA IssueHolders ==
  ASSUME NEW rs \in RunState, NEW l \in LeaseIds, NEW lease \in Lease, lease.status = "ACTIVE",
         ActiveLeases(rs, lease.att) = {}, NEW new, new.leases = NewLeases(rs, l, lease)
  PROVE  /\ Holders(rs, lease.att) = {}
         /\ HoldingOf(new)
              = [b \in Attempts |-> IF b = lease.att THEN {GrantOf(new, l)}
                                    ELSE {h \in HoldingOf(rs)[b] : h.id # l}]
<1> DEFINE a == lease.att
<1>1. DOMAIN rs.leases = LeaseIds /\ a \in Attempts /\ NoLease \notin Lease
  BY NoneAssumption DEF RunState, Lease
<1>2. /\ \A k \in LeaseIds \ {l} : new.leases[k] = rs.leases[k]
      /\ new.leases[l] = lease
  BY <1>1 DEF NewLeases
<1>3. IsActive(new, l) /\ new.leases[l].att = a
  BY <1>1, <1>2 DEF IsActive, Held
<1>4. \A k \in LeaseIds : ~(IsActive(rs, k) /\ rs.leases[k].att = a)
  BY DEF ActiveLeases
<1>5. Holders(new, a) = {GrantOf(new, l)}
  <2>1. \A k \in LeaseIds : IsActive(new, k) /\ new.leases[k].att = a => k = l
    BY <1>2, <1>4 DEF IsActive, Held
  <2>2. \A h : h \in Holders(new, a) <=> h = GrantOf(new, l)
    BY <1>3, <2>1, HolderIs
  <2> QED
    BY <2>2
<1>6. ASSUME NEW b \in Attempts \ {a}
      PROVE  Holders(new, b) = {h \in Holders(rs, b) : h.id # l}
  <2>1. \A k \in LeaseIds :
          IsActive(new, k) /\ new.leases[k].att = b
            <=> k # l /\ IsActive(rs, k) /\ rs.leases[k].att = b
    BY <1>2, <1>3 DEF IsActive, Held
  <2>2. \A k \in LeaseIds \ {l} : GrantOf(new, k) = GrantOf(rs, k)
    BY <1>2 DEF GrantOf
  <2>3. \A k \in LeaseIds : GrantOf(rs, k).id = k
    BY DEF GrantOf
  <2>4. ASSUME NEW h PROVE h \in Holders(new, b) <=> h \in Holders(rs, b) /\ h.id # l
    BY <2>1, <2>2, <2>3, HolderIs
  <2> QED
    BY <2>4
<1>7. Holders(rs, a) = {}
  BY <1>4, HolderIs
<1> HIDE DEF a
<1>8. HoldingOf(new) = [b \in Attempts |-> IF b = a THEN {GrantOf(new, l)}
                                           ELSE {h \in HoldingOf(rs)[b] : h.id # l}]
  BY <1>5, <1>6 DEF HoldingOf
<1> QED
  BY <1>7, <1>8 DEF a

\* The lease a grant is about to register, after its detachment.
GrantReady ==
  \A c \in Callers :
    pc[c] \in DetachPC => /\ work[c].rec.lease.status = "ACTIVE"
                          /\ work[c].rec.lease.gen \in 1 .. MaxGeneration

AuthorityInv == GenInv /\ GrantReady

\* What the authority sees of a step.
Seen == <<HoldingOf(run), IssuedOf(run)>>
AuthorityStep == Authority!Next \/ UNCHANGED Seen

\* An ended lease is an End.
LEMMA EndIsEnd ==
  ASSUME OneInv, NEW l \in LeaseIds, IsActive(run, l), NEW st \in LeaseStatus \ {"ACTIVE"},
         run'.leases = [run.leases EXCEPT ![l].status = st],
         \A a \in Attempts : run'.attempt[a].gen = run.attempt[a].gen
  PROVE  AuthorityStep
<1>1. run \in RunState /\ AllBound(run)
  BY DEF OneInv, Inv, TypeOK, ActiveIsBound, AllBound
<1>2. PICK a \in Attempts : run.leases[l].att = a
  BY <1>1 DEF RunState, IsActive, Held, Lease
<1>3. HoldingOf(run') = [HoldingOf(run) EXCEPT ![a] = {}]
  BY <1>1, <1>2, EndHolders
<1>4. IssuedOf(run') = IssuedOf(run)
  BY DEF IssuedOf
<1>5. Authority!End(a)
  BY <1>3, <1>4 DEF Authority!End, HoldingOf, IssuedOf
<1>6. \E b \in Attempts : Authority!End(b)
  BY <1>2, <1>5, Zenon
<1> QED
  BY <1>6, Zenon DEF Authority!Next, AuthorityStep

\* A renewed lease is an Extend.
LEMMA RenewIsExtend ==
  ASSUME OneInv, NEW l \in LeaseIds, IsActive(run, l), NEW t \in Times,
         run.leases[l].expires <= t,
         run'.leases = [run.leases EXCEPT ![l].expires = t], run'.attempt = run.attempt
  PROVE  AuthorityStep
<1> DEFINE a == run.leases[l].att
           g == GrantOf(run, l)
<1>1. run \in RunState /\ AllBound(run)
  BY DEF OneInv, Inv, TypeOK, ActiveIsBound, AllBound
<1>2. a \in Attempts
  BY <1>1 DEF RunState, IsActive, Held, Lease
<1>3. HoldingOf(run') = [HoldingOf(run) EXCEPT ![a] = {[g EXCEPT !.expires = t]}]
  BY <1>1, ExtendHolders
<1>4. g \in Holders(run, a)
  BY <1>1, OneHolder
<1>5. g.expires <= t
  BY DEF GrantOf
<1> HIDE DEF a, g
<1>6. Authority!Extend(a, g, t)
  BY <1>3, <1>5 DEF Authority!Extend, HoldingOf
<1>7. g \in [b \in Attempts |-> Holders(run, b)][a]
  BY <1>2, <1>4
<1> QED
  BY <1>2, <1>6, <1>7 DEF Authority!Next, AuthorityStep

\* A registered lease is an Issue.
LEMMA CommitIsIssue ==
  ASSUME OneInv, NEW c \in Callers, NEW l \in LeaseIds, NEW lease \in Lease, Commit(c, l, lease),
         lease.status = "ACTIVE", lease.gen \in 1 .. MaxGeneration,
         ActiveLeases(run, lease.att) = {}, run.attempt[lease.att].gen < lease.gen
  PROVE  AuthorityStep
<1> DEFINE a == lease.att
<1>0. PICK g : g = GrantOf(run', l)
  OBVIOUS
<1>1. run \in RunState /\ snap[c] \in RunState /\ snap[c].version = run.version
  BY DEF OneInv, Inv, TypeOK, Commit, PutRun
<1>2. snap[c].attempt = run.attempt /\ snap[c].leases = run.leases
  BY <1>1, SameFields DEF OneInv, Inv
<1>3. run' = Registered(snap[c], l, lease)
  BY DEF Commit, PutRun
<1>4. /\ run'.attempt = NewAttempt(snap[c], l, lease)
      /\ run'.leases = NewLeases(snap[c], l, lease)
  BY <1>1, <1>3, RegisteredFacts, Zenon
<1>5. run'.leases = NewLeases(run, l, lease)
  BY <1>2, <1>4 DEF NewLeases
<1>6. /\ Holders(run, a) = {}
      /\ HoldingOf(run') = [b \in Attempts |-> IF b = a THEN {g}
                                               ELSE {h \in HoldingOf(run)[b] : h.id # l}]
  <2>1. PICK old : old = run
    OBVIOUS
  <2>2. PICK new : new = run'
    OBVIOUS
  <2>3. /\ old \in RunState /\ ActiveLeases(old, lease.att) = {}
        /\ new.leases = NewLeases(old, l, lease)
    BY <1>1, <1>5, <2>1, <2>2
  <2>4. /\ Holders(old, lease.att) = {}
        /\ HoldingOf(new) = [b \in Attempts |-> IF b = lease.att THEN {GrantOf(new, l)}
                                                 ELSE {h \in HoldingOf(old)[b] : h.id # l}]
    BY <2>3, IssueHolders
  <2> QED
    BY <1>0, <2>1, <2>2, <2>4
<1>7. /\ run'.leases[l] = lease /\ a \in Attempts
      /\ run.attempt \in [Attempts -> AttemptRecord] /\ lease.gen \in Nat
      /\ lease.token \in Tokens /\ lease.expires \in Times
  BY <1>1, <1>5 DEF NewLeases, RunState, Lease
<1>8. /\ g \in [id : LeaseIds, token : Tokens, gen : 1 .. MaxGeneration, expires : Times]
      /\ g.gen = lease.gen /\ g.id = l
  BY <1>0, <1>7 DEF GrantOf
<1>9. IssuedOf(run') = [IssuedOf(run) EXCEPT ![a] = g.gen]
  <2>1. run'.attempt = [run.attempt EXCEPT ![a] = Bound(run.attempt[a], l, lease)]
    BY <1>2, <1>4 DEF NewAttempt
  <2>2. Bound(run.attempt[a], l, lease).gen = lease.gen
    BY <1>7 DEF Bound, AttemptRecord
  <2> QED
    BY <1>7, <1>8, <2>1, <2>2 DEF IssuedOf
<1>10. run.attempt[a].gen < g.gen
  BY <1>8
<1> HIDE DEF a
<1>11. Authority!Issue(a, g)
  BY <1>6, <1>7, <1>8, <1>9, <1>10 DEF Authority!Issue, HoldingOf, IssuedOf
<1>12. g \in Authority!Grants
  BY <1>8 DEF Authority!Grants
<1>13. \E b \in Attempts : \E h \in Authority!Grants : Authority!Issue(b, h)
  BY <1>7, <1>11, <1>12, Zenon
<1> QED
  BY <1>13, Zenon DEF Authority!Next, AuthorityStep

\* A step that leaves leases and generations alone is none of the authority's.
LEMMA StillSeen ==
  ASSUME run'.leases = run.leases,
         \A a \in Attempts : run'.attempt[a].gen = run.attempt[a].gen
  PROVE  AuthorityStep
<1>1. \A a \in Attempts : Holders(run', a) = Holders(run, a)
  BY SameHolders
<1> QED
  BY <1>1 DEF AuthorityStep, Seen, HoldingOf, IssuedOf

\* A commit that ends a lease of the snapshot it is based on.
LEMMA EndCommit ==
  ASSUME OneInv, NEW c \in Callers, NEW l \in LeaseIds, IsActive(snap[c], l),
         NEW st \in LeaseStatus \ {"ACTIVE"}, snap[c].version = run.version,
         run'.leases = [snap[c].leases EXCEPT ![l].status = st],
         \A a \in Attempts : run'.attempt[a].gen = snap[c].attempt[a].gen
  PROVE  AuthorityStep
<1>1. snap[c].leases = run.leases /\ snap[c].attempt = run.attempt
  BY SameFields DEF OneInv, Inv
<1>2. IsActive(run, l)
  BY <1>1 DEF IsActive, Held
<1>3. /\ run'.leases = [run.leases EXCEPT ![l].status = st]
      /\ \A a \in Attempts : run'.attempt[a].gen = run.attempt[a].gen
  BY <1>1
<1> QED
  BY <1>2, <1>3, EndIsEnd

\* Release, revoke, the detachment of a grant, and the expiry of a lease that
\* is no longer its attempt's: only a status changes.
LEMMA StatusIsEnd ==
  ASSUME OneInv, NEW c \in Callers, NEW l \in LeaseIds, IsActive(snap[c], l),
         NEW st \in LeaseStatus \ {"ACTIVE"}, snap[c].version = run.version,
         run' = SetStatus(snap[c], l, st)
  PROVE  AuthorityStep
<1>1. snap[c] \in RunState /\ Held(snap[c], l)
  BY DEF OneInv, Inv, TypeOK, IsActive
<1>2. /\ run'.leases = [snap[c].leases EXCEPT ![l].status = st]
      /\ run'.attempt = snap[c].attempt
  BY <1>1, SetStatusFacts
<1> QED
  BY <1>2, EndCommit

\* The service calls.
LEMMA ServiceAuthority ==
  ASSUME OneCaller, AuthorityInv, NEW c \in Callers, CallService(c)
  PROVE  AuthorityStep /\ GrantReady'
<1>i. Inv /\ OneInv /\ TypeOK
  BY DEF AuthorityInv, GenInv, SoloInv, OneInv, Inv
<1>s. snap[c] \in RunState /\ run \in RunState /\ pc \in [Callers -> PC]
  BY <1>i DEF TypeOK
<1>0. ASSUME pc'[c] \notin DetachPC PROVE GrantReady'
  BY <1>0 DEF GrantReady, OneCaller
<1>1. ASSUME NEW rec, ThenJournal(c, rec) PROVE GrantReady'
  BY <1>0, <1>1, <1>s DEF ThenJournal, Goto, DetachPC
<1>2. ASSUME NEW l \in LeaseIds, Expire(c, l) PROVE AuthorityStep /\ GrantReady'
  <2>1. IsActive(snap[c], l) /\ Held(snap[c], l) /\ GrantReady'
    BY <1>1, <1>2 DEF Expire, IsActive
  <2>2. CASE IsCurrentLease(snap[c], l)
    <3> DEFINE b == snap[c].leases[l].att
               new == ExpiredCurrent(snap[c], l)
    <3>1. snap[c].version = run.version /\ run' = new
      BY <1>2, <2>2 DEF Expire, PutRun
    <3>2. b \in Attempts /\ snap[c].attempt \in [Attempts -> AttemptRecord]
      BY <1>s, <2>1 DEF RunState, Held, Lease
    <3>3. /\ new.attempt = [snap[c].attempt EXCEPT ![b].status = "LEASE_EXPIRED",
                                                   ![b].lease = NoLease]
          /\ new.leases = [snap[c].leases EXCEPT ![l].status = "EXPIRED"]
      BY <1>s, <2>1, ExpiredCurrentFacts, Zenon
    <3> HIDE DEF b, new
    <3>4. \A a \in Attempts : new.attempt[a].gen = snap[c].attempt[a].gen
      BY <3>2, <3>3 DEF AttemptRecord
    <3>5. "EXPIRED" \in LeaseStatus \ {"ACTIVE"}
      BY DEF LeaseStatus
    <3> QED
      BY <1>i, <2>1, <3>1, <3>3, <3>4, <3>5, EndCommit
  <2>3. CASE ~IsCurrentLease(snap[c], l)
    <3>1. PutRun(SetStatus(snap[c], l, "EXPIRED"), snap[c].version)
      BY <1>2, <2>3 DEF Expire
    <3>2. "EXPIRED" \in LeaseStatus \ {"ACTIVE"}
      BY DEF LeaseStatus
    <3> QED
      BY <1>i, <2>1, <3>1, <3>2, StatusIsEnd DEF PutRun
  <2> QED
    BY <2>2, <2>3
<1>3. "RELEASED" \in LeaseStatus \ {"ACTIVE"} /\ "REVOKED" \in LeaseStatus \ {"ACTIVE"}
  BY DEF LeaseStatus
<1>4. ASSUME NEW l \in LeaseIds, Revoke(c, l) PROVE AuthorityStep /\ GrantReady'
  BY <1>i, <1>1, <1>3, <1>4, StatusIsEnd DEF Revoke, PutRun
<1>5. ASSUME NEW l \in LeaseIds, NEW now \in Times, Release(c, l, now)
      PROVE  AuthorityStep /\ GrantReady'
  BY <1>i, <1>1, <1>3, <1>5, StatusIsEnd DEF Release, PutRun
<1>6. ASSUME NEW l \in LeaseIds, NEW token \in Tokens, NEW expires \in Times,
             NEW now \in Times, Renew(c, l, token, expires, now)
      PROVE  AuthorityStep /\ GrantReady'
  <2>1. /\ IsActive(snap[c], l) /\ Held(snap[c], l) /\ snap[c].leases[l].expires <= expires
        /\ PutRun(Renewed(snap[c], l, expires), snap[c].version) /\ GrantReady'
    <3>1. snap[c].leases[l].expires \in Times /\ IsActive(snap[c], l)
      BY <1>6, <1>s DEF Renew, IsActive, Held, RunState, Lease
    <3> QED
      BY <1>1, <1>6, <3>1, BoundsAssumption DEF Renew, Renewable, IsActive, Times
  <2>2. /\ Renewed(snap[c], l, expires).attempt = snap[c].attempt
        /\ Renewed(snap[c], l, expires).leases = [snap[c].leases EXCEPT ![l].expires = expires]
    BY <1>s, <2>1, RenewedFacts
  <2>3. snap[c].version = run.version /\ run' = Renewed(snap[c], l, expires)
    BY <2>1 DEF PutRun
  <2>4. snap[c].leases = run.leases /\ snap[c].attempt = run.attempt
    BY <1>i, <2>3, SameFields DEF Inv
  <2>5. IsActive(run, l) /\ run.leases[l].expires <= expires
    BY <2>1, <2>4 DEF IsActive, Held
  <2>6. run'.leases = [run.leases EXCEPT ![l].expires = expires] /\ run'.attempt = run.attempt
    BY <2>2, <2>3, <2>4
  <2> QED
    BY <1>i, <2>1, <2>5, <2>6, RenewIsExtend
<1>7. ASSUME NEW a \in Attempts, NEW gen \in 1 .. MaxGeneration,
             gen > CurrentGeneration(snap[c], a), snap[c].version = run.version
      PROVE  run.attempt[a].gen < gen
  <2>1. AllBound(snap[c]) /\ snap[c].attempt = run.attempt
    BY <1>7, <1>i, SnapBound, SameFields DEF Inv
  <2>2. CurrentGeneration(snap[c], a) = run.attempt[a].gen
    BY <1>s, <2>1, CurrentGenerationIs
  <2>3. run.attempt[a].gen \in Nat /\ gen \in Nat
    BY <1>s, BoundsAssumption DEF RunState, AttemptRecord
  <2> QED
    BY <1>7, <2>2, <2>3
<1>8. ASSUME NEW l \in LeaseIds, NEW a \in Attempts, NEW token \in Tokens,
             NEW expires \in Times, NEW gen \in 1 .. MaxGeneration,
             Grant(c, l, a, token, expires, gen)
      PROVE  AuthorityStep /\ GrantReady'
  <2> DEFINE lease == NewLease(a, token, expires, gen)
  <2>1. /\ Commit(c, l, lease) /\ snap[c].version = run.version
        /\ gen > CurrentGeneration(snap[c], a) /\ ActiveLeases(snap[c], a) = {}
    BY <1>8 DEF Grant, Commit, PutRun
  <2>2. /\ lease \in Lease /\ lease.att = a /\ lease.status = "ACTIVE" /\ lease.gen = gen
    BY NewLeaseType DEF NewLease
  <2> HIDE DEF lease
  <2>3. ActiveLeases(run, lease.att) = {} /\ run.attempt[lease.att].gen < lease.gen
    BY <1>i, <1>7, <2>1, <2>2, SnapBound
  <2>4. AuthorityStep
    BY <1>i, <2>1, <2>2, <2>3, CommitIsIssue
  <2>5. pc'[c] = "registerSync"
    BY <1>s, <2>1 DEF Commit, Goto
  <2> QED
    BY <1>0, <2>4, <2>5 DEF DetachPC
<1>9. ASSUME NEW l \in LeaseIds, NEW a \in Attempts, NEW token \in Tokens,
             NEW expires \in Times, NEW gen \in 1 .. MaxGeneration,
             GrantDetach(c, l, a, token, expires, gen)
      PROVE  AuthorityStep /\ GrantReady'
  <2> DEFINE rec == LeaseRecord("grant", l, NewLease(a, token, expires, gen), "NONE", 0)
  <2>1. PICK old \in ActiveLeases(snap[c], a) :
          /\ PutRun(SetStatus(snap[c], old, "RELEASED"), snap[c].version)
          /\ work' = [work EXCEPT ![c] =
               Pending(rec, old, SetStatus(snap[c], old, "RELEASED").version)]
    BY <1>9 DEF GrantDetach
  <2>2. AuthorityStep
    BY <1>i, <1>3, <2>1, StatusIsEnd DEF ActiveLeases, PutRun
  <2>3. /\ work'[c].rec.lease.status = "ACTIVE"
        /\ work'[c].rec.lease.gen = gen
    BY <1>i, <2>1 DEF TypeOK, Pending, LeaseRecord, NewLease
  <2> QED
    BY <2>2, <2>3 DEF GrantReady, OneCaller
<1>10. ASSUME NEW e \in Events, Route(c, e) PROVE AuthorityStep /\ GrantReady'
  <2>1. PICK s \in NextNodeStatus(snap[c], e) :
          PutRun(Applied(snap[c], e, s), snap[c].version)
    BY <1>10 DEF Route
  <2>2. /\ Applied(snap[c], e, s).attempt = snap[c].attempt
        /\ Applied(snap[c], e, s).leases = snap[c].leases
    BY <1>s DEF Applied, RunState
  <2>3. run'.attempt = run.attempt /\ run'.leases = run.leases
    BY <1>i, <2>1, <2>2, SameFields DEF PutRun, Inv
  <2>4. pc'[c] = "append"
    BY <1>10, <1>s DEF Route, Goto
  <2> QED
    BY <1>0, <2>3, <2>4, StillSeen DEF DetachPC
<1> QED
  BY <1>2, <1>4, <1>5, <1>6, <1>8, <1>9, <1>10 DEF CallService

\* The store calls: the second half of a grant issues, the others are not seen.
LEMMA StoreAuthority ==
  ASSUME OneCaller, AuthorityInv, NEW c \in Callers, StoreCall(c)
  PROVE  AuthorityStep /\ GrantReady'
<1>i. Inv /\ OneInv /\ Undisturbed /\ TypeOK
  BY DEF AuthorityInv, GenInv, SoloInv, OneInv, Inv
<1>t. /\ pc \in [Callers -> PC] /\ work \in [Callers -> Work] /\ run \in RunState
      /\ work[c] \in Work /\ work[c].rec \in Record
  BY <1>i DEF TypeOK, Work
<1>1. CASE Register(c)
  <2>1. PICK l, lease : l = work[c].rec.lid /\ lease = work[c].rec.lease
    OBVIOUS
  <2>2. /\ Commit(c, l, lease) /\ l \in LeaseIds /\ lease \in Lease
        /\ run.attempt[lease.att].gen < lease.gen
        /\ lease.status = "ACTIVE" /\ lease.gen \in 1 .. MaxGeneration
        /\ ActiveLeases(run, lease.att) = {}
    BY <1>1, <1>i, <2>1 DEF Register, Inv, PendingOK, PendingOf, GrantPC, AuthorityInv, GenInv,
       GenerationAhead, GrantReady, OneInv, Detached, DetachPC
  <2>3. AuthorityStep
    BY <1>i, <2>2, CommitIsIssue
  <2>4. pc'[c] = "registerSync"
    BY <1>t, <2>2 DEF Commit, Goto
  <2> QED
    BY <2>3, <2>4 DEF GrantReady, OneCaller, DetachPC
<1>2. ASSUME run'.attempt = run.attempt, run'.leases = run.leases,
             pc'[c] \in DetachPC => pc[c] \in DetachPC /\ work'[c].rec.lease = work[c].rec.lease
      PROVE  AuthorityStep /\ GrantReady'
  BY <1>2, StillSeen DEF AuthorityInv, GrantReady, OneCaller
<1>3. CASE Synced(c)
  <2>1. run'.attempt = run.attempt /\ run'.leases = run.leases
    BY <1>3, <1>t DEF Synced, SyncJournalPosition, RunState
  <2> QED
    BY <1>2, <1>3, <2>1 DEF Synced, SyncThen, DetachPC
<1>4. CASE DetachRead(c)
  <2>1. work'[c].rec = work[c].rec
    BY <1>4, <1>t DEF DetachRead, Work
  <2> QED
    BY <1>2, <1>4, <2>1 DEF DetachRead, DetachPC
<1>5. CASE DetachAppend(c)
  BY <1>2, <1>5 DEF DetachAppend, DetachPC
<1>6. CASE RegisterRead(c) \/ JournalAppend(c) \/ DedupePut(c) \/ SaveStreamWatermark(c)
  <2>1. pc'[c] \notin DetachPC /\ run' = run
    BY <1>6, <1>t DEF RegisterRead, JournalAppend, DedupePut, SaveStreamWatermark, Goto, DetachPC
  <2> QED
    BY <1>2, <2>1
<1> QED
  BY <1>i, <1>1, <1>3, <1>4, <1>5, <1>6, StoreShape

\* Every step of one caller is a step of the authority, or none.
LEMMA AuthorityNext ==
  ASSUME OneCaller PROVE AuthorityInv /\ [Next]_vars => AuthorityInv' /\ AuthorityStep
<1> SUFFICES ASSUME AuthorityInv, [Next]_vars PROVE AuthorityInv' /\ AuthorityStep
  OBVIOUS
<1>1. GenInv'
  BY GenNext DEF AuthorityInv
<1>2. CASE UNCHANGED vars
  <2>1. GrantReady'
    BY <1>2 DEF vars, AuthorityInv, GrantReady
  <2> QED
    BY <1>1, <1>2, <2>1, StillSeen DEF vars, AuthorityInv
<1>3. ASSUME NEW c \in Callers, GetRun(c) PROVE GrantReady' /\ AuthorityStep
  <2>1. GrantReady'
    BY <1>3 DEF GetRun, AuthorityInv, GrantReady
  <2> QED
    BY <1>3, <2>1, StillSeen DEF GetRun
<1> QED
  BY <1>1, <1>2, <1>3, ServiceAuthority, StoreAuthority DEF Next, AuthorityInv

\* No lease is in force at the start.
LEMMA AuthorityInit == Init => AuthorityInv /\ Authority!Init
<1> SUFFICES ASSUME Init PROVE AuthorityInv /\ Authority!Init
  OBVIOUS
<1>1. AuthorityInv
  BY SoloInit DEF AuthorityInv, GenInv, GenerationAhead, GrantReady, Init, DetachPC
<1>2. PICK status \in InitStatuses, token \in Tokens : run = InitRun(status, token)
  BY DEF Init
<1>3. /\ \A l \in LeaseIds : ~IsActive(run, l)
      /\ \A a \in Attempts : run.attempt[a].gen = 0
  BY <1>2 DEF InitRun, IsActive, Held
<1>4. \A a \in Attempts : Holders(run, a) = {}
  BY <1>3 DEF Holders, ActiveLeases
<1> QED
  BY <1>1, <1>3, <1>4 DEF Authority!Init

\* With one caller the lease services, cut at every store call, implement a
\* lease authority: one holder per attempt, generations that only advance,
\* renewals that never shorten.
THEOREM ImplementsAuthority ==
  ASSUME OneCaller
  PROVE  Spec => IsLeaseAuthority
<1>1. AuthorityInv /\ [Next]_vars
        => AuthorityInv' /\ [Authority!Next]_<<[a \in Attempts |-> Holders(run, a)],
                                               [a \in Attempts |-> run.attempt[a].gen]>>
  BY AuthorityNext DEF AuthorityStep, Seen, HoldingOf, IssuedOf
<1> QED
  BY <1>1, AuthorityInit, PTL DEF Spec, IsLeaseAuthority, Authority!Spec
=============================================================================
