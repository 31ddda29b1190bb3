------------------------------- MODULE MCBook -------------------------------
(***************************************************************************)
(* Book on small instances: houses that revert declarations and houses     *)
(* that never do.  Nothing is purged, and drawers may hold more than the   *)
(* stakes: a fight that owes too much must not be saved by an empty        *)
(* drawer.                                                                 *)
(***************************************************************************)
EXTENDS Book

CONSTANTS b1, b2, t1, t2

Symmetry == Permutations({b1, b2}) \cup Permutations({t1, t2})

VARIABLE reverts        \* whether the house reverts; it never changes

HouseInit == Init /\ reverts \in BOOLEAN

HouseNext ==
  /\ \/ Lifecycle \/ Betting \/ Declaring \/ Paying \/ Correcting
     \/ reverts /\ Reverting
     \/ \E t \in Tellers, amount \in CashAmounts : CashAdvance(t, amount)
  /\ UNCHANGED reverts

HouseSpec == HouseInit /\ [][HouseNext]_<<vars, reverts>>

(***************************************************************************)
(* createFight refuses while a fight is unfinished, and the latest stays   *)
(* the only one that can be: unless a declaration was reverted, which      *)
(* leaves two closed fights that may both be reopened (fights.service.js). *)
(***************************************************************************)
OneUnfinishedUnlessReverted == reverts \/ OneUnfinishedFight
=============================================================================
