------------------------------- MODULE Reports -------------------------------
(***************************************************************************)
(* The two commission reports (reports.service.js) over the book: what     *)
(* each teller's tickets brought the house, and what each fight did.  They *)
(* are computed on demand from the tables and write nothing.  A commission *)
(* is a sum of stake * rate, here in 1/10000 centavo; toMoney rounds it to *)
(* the centavo.  The filters by date and by teller are left out: the scope *)
(* is one fight.                                                           *)
(***************************************************************************)
EXTENDS Book

\* toMoney
Centavos(commission) == (commission + 5000) \div 10000

-----------------------------------------------------------------------------
(* getTellerCommissions                                                    *)

Counted == {"WON", "LOST", "PAID"}

TellerStake(f, t) ==
  SumFunctionOnSet([b \in DOMAIN bets |-> bets[b].amount],
    {b \in TicketsOf(f) : bets[b].teller = t /\ bets[b].status \in Counted})

TellerCommission(f, t) == TellerStake(f, t) * fights[f].rate

\* totals: the tellers' rounded commissions, added.
TellerTotal(f) ==
  SumFunctionOnSet([t \in Tellers |-> Centavos(TellerCommission(f, t))], Tellers)

-----------------------------------------------------------------------------
(* getFightCommissions                                                     *)

\* grossHandle: the tickets that are still there, not the pools.
GrossHandle(f) == StakesOn(f, "MERON") + StakesOn(f, "WALA")

\* Fault: the commission of a draw that was refunded.
CommissionOnAnything(f) == GrossHandle(f) * fights[f].rate

\* computeFightCommission: nothing on a cancelled or drawn fight.
FightCommission(f) ==
  IF \/ fights[f].status = "CANCELLED"
     \/ fights[f].status = "SETTLED" /\ fights[f].outcome \notin Sides
  THEN 0 ELSE GrossHandle(f) * fights[f].rate

HouseCommission(f) == Centavos(FightCommission(f))

-----------------------------------------------------------------------------

Settled(f) == fights[f].status = "SETTLED"
Declared(f) == Settled(f) /\ fights[f].prevOutcome = None
\* What the tickets are, or were, owed.
Owed(f) ==
  SumFunctionOnSet([b \in DOMAIN bets |-> bets[b].payout],
    {b \in TicketsOf(f) : bets[b].payout # Null})

Unpurged(f) == \A s \in Sides : purged[f][s] = 0

(***************************************************************************)
(* The commission reported for a declared fight was really withheld: the   *)
(* stakes of the fight cover it and what its tickets are or were owed (the *)
(* multiplier withholds half the rate, reports.service.js reports all of   *)
(* it: whence the factor).                                                 *)
(***************************************************************************)
HalfIsWithheld ==
  \A f \in DOMAIN fights :
    Declared(f) /\ Unpurged(f) =>
      2 * 10000 * (GrossHandle(f) - Owed(f)) + 10000 * Cardinality(TicketsOf(f))
        >= FightCommission(f)

(***************************************************************************)
(* The header of reports.service.js: "the house takes a flat               *)
(* commissionRate of the ENTIRE pool before distributing the remainder to  *)
(* the winning side", so that what the fight report says is what the       *)
(* declaration left in the drawers.                                        *)
(***************************************************************************)
CommissionIsWithheld ==
  \A f \in DOMAIN fights :
    Declared(f) /\ Unpurged(f) =>
      10000 * (GrossHandle(f) - Owed(f)) + 5000 * Cardinality(TicketsOf(f))
        >= FightCommission(f)

(***************************************************************************)
(* "SUM of per-teller commission === houseCommission for the scope"        *)
(* (reports.service.js), whatever has been corrected.                      *)
(***************************************************************************)
TotalsAgree == \A f \in DOMAIN fights : Settled(f) => TellerTotal(f) = HouseCommission(f)

(***************************************************************************)
(* purgeBet answers "fightCommissionUnchanged: true" (bets.service.js):    *)
(* the report by fight says the same before and after.                     *)
(***************************************************************************)
PurgeKeepsFightCommission ==
  [][\A f \in DOMAIN fights :
       purged' # purged => (HouseCommission(f))' = HouseCommission(f)]_vars
=============================================================================
