------------------------------ MODULE MCBookTx ------------------------------
(***************************************************************************)
(* BookTx on a small instance: tickets are redeemed while a declaration is *)
(* reverted, and nothing is purged.                                        *)
(***************************************************************************)
EXTENDS BookTx

CONSTANTS b1, b2, t1, s1, s2

Symmetry == Permutations({b1, b2}) \cup Permutations({s1, s2})

ReturningNext ==
  \/ Direct
  \/ \E s \in Sessions : Creating(s) \/ Returning(s) \/ Redeeming(s)

ReturningSpec == TxInit /\ [][ReturningNext]_txVars
=============================================================================
