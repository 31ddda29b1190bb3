---------------------------- MODULE Declaration -----------------------------
(***************************************************************************)
(* One fight whose betting is over, under every sequence of declarations,  *)
(* corrections and reverts, with awkward amounts and rates: what           *)
(* fights.service.js asks of lib/fight-settlement.js, and whether the      *)
(* money adds up to the centavo.  The pools are the sums of the stakes, as *)
(* the database keeps them (module Book shows that it does).               *)
(***************************************************************************)
EXTENDS Settlement, FiniteSets, Functions

CONSTANTS Tickets,      \* the tickets of the fight
          Stakes,       \* the stakes to try, in centavos
          Rates         \* the commission rates to try, in 1/10000

ASSUME DeclarationInputs ==
  /\ IsFiniteSet(Tickets)
  /\ Stakes \subseteq MinStake .. MaxAmount
  /\ Rates \subseteq 0 .. MaxRate

VARIABLES rate,         \* the fight's commission snapshot
          bets,         \* the ticket rows
          outcome,      \* the declared outcome, None while undeclared
          ratios        \* the payout ratio columns

vars == <<rate, bets, outcome, ratios>>

StakesOn(side) ==
  SumFunctionOnSet([b \in Tickets |-> bets[b].amount],
                   {b \in Tickets : bets[b].side = side})

Pool == [s \in Sides |-> StakesOn(s)]

NoRatios == [s \in Sides |-> Null]

PendingTicket(side, amount) ==
  [side |-> side, amount |-> amount, status |-> "PENDING", payout |-> Null,
   prevStatus |-> None, prevPayout |-> Null]

Init ==
  /\ rate \in Rates
  /\ \E side \in [Tickets -> Sides], amount \in [Tickets -> Stakes] :
       bets = [b \in Tickets |-> PendingTicket(side[b], amount[b])]
  /\ outcome = None
  /\ ratios = NoRatios

-----------------------------------------------------------------------------

Settle(o) ==
  LET new == PayoutRatios(Pool, rate, o) IN
  /\ outcome = None
  /\ \A b \in Tickets : CanSettle(o, new, bets[b])
  /\ bets' = [b \in Tickets |-> SettledTicket(o, new, bets[b])]
  /\ outcome' = o
  /\ ratios' = new
  /\ UNCHANGED rate

Correct(o) ==
  LET new == PayoutRatios(Pool, rate, o) IN
  /\ outcome \notin {None, o}
  /\ \A b \in Tickets : CanCorrect(o, new, bets[b])
  /\ bets' = [b \in Tickets |-> CorrectedTicket(o, new, bets[b])]
  /\ outcome' = o
  /\ ratios' = new
  /\ UNCHANGED rate

Unsettle ==
  /\ outcome # None
  /\ \A b \in Tickets : ~BlocksUnsettle(bets[b])
  /\ bets' = [b \in Tickets |-> UnsettledTicket(bets[b])]
  /\ outcome' = None
  /\ ratios' = NoRatios
  /\ UNCHANGED rate

\* payBet, for the ticket's own columns.
Redeem(b) ==
  /\ bets[b].status \in {"WON", "PENDING_REFUND"}
  /\ bets' = [bets EXCEPT ![b].status = IF @ = "WON" THEN "PAID" ELSE "REFUNDED"]
  /\ UNCHANGED <<rate, outcome, ratios>>

Next ==
  \/ \E o \in Outcomes : Settle(o) \/ Correct(o)
  \/ Unsettle
  \/ \E b \in Tickets : Redeem(b)

Spec == Init /\ [][Next]_vars

-----------------------------------------------------------------------------

Winners == {b \in Tickets : bets[b].side = outcome /\ bets[b].status \in {"WON", "PAID"}}

TotalOwed == SumFunctionOnSet([b \in Tickets |-> bets[b].payout], Winners)

(***************************************************************************)
(* However the stakes and the commission fall, the payouts of the declared *)
(* winners exceed what the house must distribute by no more than half a    *)
(* centavo per winner (the rounding of round2): the floored multiplier     *)
(* never promises money the pool does not hold.                            *)
(***************************************************************************)
PayoutsWithinPool ==
  outcome \in Sides =>
    \* both sides in whole centavos: the bound is on an integer
    TotalOwed <= (PoolDistributable(Pool, rate)
                  + 10000 * Cardinality(Winners)) \div 20000

(***************************************************************************)
(* Declarations have no memory: whatever was declared, corrected and       *)
(* reverted before, an uncashed ticket has exactly the status and payout   *)
(* that declaring the present outcome on a pending ticket would give it.   *)
(***************************************************************************)
DeclarationIsMemoryless ==
  \A b \in Tickets :
    LET fresh == SettledTicket(outcome, PayoutRatios(Pool, rate, outcome),
                               PendingTicket(bets[b].side, bets[b].amount))
    IN  \/ bets[b].status = "REFUNDED"
        \/ outcome = None /\ bets[b] = PendingTicket(bets[b].side, bets[b].amount)
        \/ /\ outcome # None
           /\ bets[b].status \in {"PAID", fresh.status}
           /\ bets[b].payout = fresh.payout
=============================================================================
