----------------------------- MODULE Settlement -----------------------------
(***************************************************************************)
(* The settlement mathematics: lib/fight-settlement.js and lib/odds.js.    *)
(* These are pure functions of a fight's pools and of one ticket row, so   *)
(* they are operators here; the modules about the database apply them.     *)
(*                                                                         *)
(* Units.  Money is in centavos, a commission rate in 1/10000 (0.1000 is   *)
(* 1000) and a payout multiplier in 1/10000 (1.7100 is 17100), which are   *)
(* the precisions of the Decimal columns.  The code computes with doubles  *)
(* and rounds; here the same formulas are exact, and the two roundings of  *)
(* the code (floor to 4 decimals, then half-up to the centavo) are kept.   *)
(***************************************************************************)
EXTENDS Integers

Sides    == {"MERON", "WALA"}
Outcomes == Sides \cup {"DRAW"}
None     == "NONE"      \* a null status or outcome column
Null     == -1          \* a null amount or multiplier: all others are >= 0

TicketStatuses ==
  {"PENDING", "WON", "LOST", "PAID", "VOIDED", "PENDING_REFUND", "REFUNDED"}

MaxRate   == 3000       \* updateSettingsRequestSchema: 0 .. 0.30
MinStake  == 10000      \* placeBetRequestSchema: 100.00 .. 1,000,000.00
MaxAmount == 100000000

\* Amounts and multipliers are never negative (Book!PoolsMatchStakes); the
\* types only say that they are numbers.
Money == Int
Pools == [Sides -> Money]

-----------------------------------------------------------------------------
(* Pari-mutuel multipliers                                                 *)

Handle(pool) == pool["MERON"] + pool["WALA"]

\* What is left of the handle for the winners after the house keeps half the
\* commission rate, in 1/20000 centavo so that it stays an integer.
PoolDistributable(pool, rate) == Handle(pool) * (20000 - rate)

\* Fault: the multiplier rounded up instead of down.
PayoutMultiplierRoundedUp(pool, rate, side) ==
  IF pool[side] > 0
  THEN (PoolDistributable(pool, rate) + 2 * pool[side] - 1) \div (2 * pool[side])
  ELSE Null

\* Fault: the handle shared out over the opposing pool.
PayoutMultiplierOpposing(pool, rate, side) ==
  LET other == CHOOSE s \in Sides : s # side IN
  IF pool[side] > 0 /\ pool[other] > 0
  THEN PoolDistributable(pool, rate) \div (2 * pool[other])
  ELSE Null

\* floor(distributable / own pool * 10000), or null when nobody bet the side.
PayoutMultiplier(pool, rate, side) ==
  IF pool[side] > 0 THEN PoolDistributable(pool, rate) \div (2 * pool[side])
                    ELSE Null

\* The ratio columns a declaration writes: the winner's multiplier, null for
\* the loser, and null for both on a draw.
PayoutRatios(pool, rate, outcome) ==
  [s \in Sides |-> IF s = outcome THEN PayoutMultiplier(pool, rate, s) ELSE Null]

\* amount * multiplier rounded half-up to the centavo.
Payout(amount, multiplier) == (amount * multiplier + 5000) \div 10000

-----------------------------------------------------------------------------
(* Where a declaration sends one ticket                                    *)

TargetStatus(outcome, bet) ==
  CASE outcome = "DRAW"   -> "PENDING_REFUND"
    [] outcome = bet.side -> "WON"
    [] OTHER              -> "LOST"

TargetPayout(outcome, ratios, bet) ==
  CASE outcome = "DRAW"   -> bet.amount
    [] outcome = bet.side -> Payout(bet.amount, ratios[bet.side])
    [] OTHER              -> Null

\* determineBetTargetState throws for a winner whose side has no ratio.
HasTarget(outcome, ratios, bet) == outcome = bet.side => ratios[bet.side] # Null

\* planSettlementForBet: a voided ticket is skipped, any other that is not
\* pending makes the settlement throw.
CanSettle(outcome, ratios, bet) ==
  \/ bet.status = "VOIDED"
  \/ bet.status = "PENDING" /\ HasTarget(outcome, ratios, bet)

SettledTicket(outcome, ratios, bet) ==
  IF bet.status = "VOIDED" THEN bet
  ELSE [bet EXCEPT !.status = TargetStatus(outcome, bet),
                   !.payout = TargetPayout(outcome, ratios, bet)]

\* planCancellationForBet: the stake becomes refundable.
CanCancel(bet) == bet.status \in {"PENDING", "VOIDED"}

CancelledTicket(bet) ==
  IF bet.status = "VOIDED" THEN bet
  ELSE [bet EXCEPT !.status = "PENDING_REFUND", !.payout = bet.amount]

\* planCorrectionForBet.  Skipped: a voided or refunded ticket, and one that
\* already is where the new outcome puts it.  A paid ticket stays paid and
\* only its payout is rewritten; the others move.  Both keep what they were.
CorrectionSkips(outcome, ratios, bet) ==
  \/ bet.status \in {"VOIDED", "REFUNDED"}
  \/ /\ bet.status = TargetStatus(outcome, bet)
     /\ bet.payout = TargetPayout(outcome, ratios, bet)

CanCorrect(outcome, ratios, bet) ==
  bet.status \in {"VOIDED", "REFUNDED"} \/ HasTarget(outcome, ratios, bet)

\* Fault: a paid ticket flips with the others.
CorrectedTicketFlippingPaid(outcome, ratios, bet) ==
  IF CorrectionSkips(outcome, ratios, bet) THEN bet
  ELSE [bet EXCEPT !.status     = TargetStatus(outcome, bet),
                   !.payout     = TargetPayout(outcome, ratios, bet),
                   !.prevStatus = bet.status,
                   !.prevPayout = bet.payout]

\* Fault: only a winner's payout is recomputed.
CorrectedTicketKeepingPayout(outcome, ratios, bet) ==
  IF CorrectionSkips(outcome, ratios, bet) THEN bet
  ELSE [bet EXCEPT !.status     = IF @ = "PAID" THEN @ ELSE TargetStatus(outcome, bet),
                   !.payout     = IF outcome = bet.side
                                  THEN TargetPayout(outcome, ratios, bet) ELSE @,
                   !.prevStatus = bet.status,
                   !.prevPayout = bet.payout]

CorrectedTicket(outcome, ratios, bet) ==
  IF CorrectionSkips(outcome, ratios, bet) THEN bet
  ELSE [bet EXCEPT !.status     = IF @ = "PAID" THEN @ ELSE TargetStatus(outcome, bet),
                   !.payout     = TargetPayout(outcome, ratios, bet),
                   !.prevStatus = bet.status,
                   !.prevPayout = bet.payout]

\* assertFightCanUnsettle and planUnsettleForBet: a ticket whose cash left
\* blocks the revert, a declared one goes back to pending, the rest stay.
BlocksUnsettleIfPaid(bet) == bet.status = "PAID"        \* Fault: refunds forgotten
BlocksUnsettle(bet) == bet.status \in {"PAID", "REFUNDED"}

\* Fault: the refundable tickets of a draw forgotten.
UnsettledTicketOfWinOnly(bet) ==
  IF bet.status \notin {"WON", "LOST"} THEN bet
  ELSE [bet EXCEPT !.status = "PENDING", !.payout = Null,
                   !.prevStatus = None, !.prevPayout = Null]

UnsettledTicket(bet) ==
  IF bet.status \notin {"WON", "LOST", "PENDING_REFUND"} THEN bet
  ELSE [bet EXCEPT !.status = "PENDING", !.payout = Null,
                   !.prevStatus = None, !.prevPayout = Null]
=============================================================================
