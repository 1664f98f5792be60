--------------------------- MODULE LeaseAuthority ---------------------------
(***************************************************************************)
(* What a lease manager promises, with no word about stores, versions or   *)
(* journals: an attempt has at most one holder, a new holder comes with a  *)
(* generation never issued for that attempt before, and a holder's time is *)
(* only ever extended.  A lease id can be issued again, and whoever held   *)
(* it under that id loses it.                                              *)
(***************************************************************************)
EXTENDS Naturals

CONSTANTS Attempts, Ids, Tokens, Generations, Instants

VARIABLES
  holding,   \* per attempt, the leases that are in force
  issued     \* per attempt, the latest generation

Grants == [id : Ids, token : Tokens, gen : Generations, expires : Instants]

Init ==
  /\ holding = [a \in Attempts |-> {}]
  /\ issued = [a \in Attempts |-> 0]

Issue(a, g) ==
  /\ holding[a] = {}
  /\ issued[a] < g.gen
  /\ holding' = [b \in Attempts |->
                   IF b = a THEN {g} ELSE {h \in holding[b] : h.id # g.id}]
  /\ issued' = [issued EXCEPT ![a] = g.gen]

Extend(a, g, t) ==
  /\ g.expires <= t
  /\ holding' = [holding EXCEPT ![a] = {[g EXCEPT !.expires = t]}]
  /\ issued' = issued

End(a) ==
  /\ holding' = [holding EXCEPT ![a] = {}]
  /\ issued' = issued

Next ==
  \E a \in Attempts :
    \/ \E g \in Grants : Issue(a, g)
    \/ \E g \in holding[a], t \in Instants : Extend(a, g, t)
    \/ End(a)

Spec == Init /\ [][Next]_<<holding, issued>>
=============================================================================
