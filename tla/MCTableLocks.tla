---------------------------- MODULE MCTableLocks ----------------------------
(***************************************************************************)
(* TableLocks with three requests.  Those that take two locks at most      *)
(* (cash, the creation of a fight), and purges, whose locks are among those*)
(* of a payment, meet one other request at a time.                         *)
(***************************************************************************)
EXTENDS TableLocks

CONSTANTS r1, r2, r3

Busy == {r \in Requests : kind'[r] # "none"}

Crowded ==
  Cardinality(Busy) > 2 /\ \E r \in Busy : kind'[r] \in {"cash", "create", "purge"}

CrowdSpec == Init /\ [][Next /\ ~Crowded]_vars /\ Fairness

(***************************************************************************)
(* Whatever a request meets, resets included, it is answered: no timeout   *)
(* of a transaction is needed for it, because Postgres finds those that    *)
(* wait for each other (session.service.js promises that requests queue    *)
(* "until the wipe commits").  The requests are alike, and one stands for  *)
(* all.                                                                    *)
(***************************************************************************)
RequestEnds == kind[r1] # "none" ~> kind[r1] = "none"
=============================================================================
