-------------------------------- MODULE MCApi --------------------------------
(***************************************************************************)
(* Api on small instances: one fight with two tickets and two drawers, or  *)
(* two fights with a ticket.                                               *)
(***************************************************************************)
EXTENDS Api

CONSTANTS b1, b2, t1, t2

Symmetry == Permutations({b1, b2}) \cup Permutations({t1, t2})

VARIABLE fightsHeld     \* how many fights the evening has; it never changes

EveningInit == ApiInit /\ fightsHeld \in 1 .. MaxFights

\* An evening of several fights has one ticket, which is not purged, no last
\* call, no side held, and drawers that only tickets fill.
Brief ==
  /\ Cardinality(DOMAIN bets') <= 1
  /\ \A f \in DOMAIN fights', s \in Sides : purged'[f][s] = 0
  /\ \A f \in DOMAIN fights' : /\ fights'[f].status # "LAST_CALL"
                               /\ fights'[f].accepting = [s \in Sides |-> TRUE]
  /\ \A r \in DOMAIN ledger' : r.type \notin {"CASH_ADVANCE", "REMIT"}

EveningNext ==
  /\ OrderlyNext
  /\ Len(fights') <= fightsHeld
  /\ fightsHeld > 1 => Brief
  /\ UNCHANGED fightsHeld

EveningSpec == EveningInit /\ [][EveningNext]_<<apiVars, fightsHeld>>
=============================================================================
