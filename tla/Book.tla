-------------------------------- MODULE Book --------------------------------
(***************************************************************************)
(* The betting book: fights, tickets and the teller ledger, with every     *)
(* service operation that writes them taken as one indivisible step.  This *)
(* is what the services promise ("every mutating operation runs inside     *)
(* prisma.$transaction", fights.service.js); modules that split the        *)
(* transactions compare themselves with it.                                *)
(*                                                                         *)
(* A table is a function from its keys to its rows.  A fight's key is its  *)
(* fightNumber, a ticket's key is its clientRequestId (the idempotency key *)
(* of a placement, unique like the id), and the ledger is a bag of rows:   *)
(* row ids, codes, notes and timestamps are left out.  An operation that   *)
(* the code answers with an error or an idempotent replay writes nothing   *)
(* and is no step here.                                                    *)
(***************************************************************************)
EXTENDS Settlement, FiniteSets, Bags, Functions

CONSTANTS BetIds,       \* the clientRequestIds the kiosks may send
          Tellers,      \* the active tellers, each with a cash drawer
          NoBet,        \* the null betId of a ledger row
          Stakes,       \* the stakes the kiosks may send, in centavos
          CashAmounts,  \* the amounts of advances and remits
          Rates,        \* the commission rates an admin may set
          MaxFights,    \* bound: fights created in a session
          MaxCashRows   \* bound: cash rows the ledger may hold

ASSUME BookConstants ==
  /\ NoBet \notin BetIds
  /\ IsFiniteSet(Tellers)
  /\ Stakes \subseteq MinStake .. MaxAmount
  /\ CashAmounts \subseteq 1 .. MaxAmount     \* cashAdvanceRequestSchema
  /\ Rates \subseteq 0 .. MaxRate
  /\ Rates # {}
  /\ MaxFights \in Nat
  /\ MaxCashRows \in Nat

VARIABLES setting,      \* the commission rate of the Setting singleton
          fights,       \* fightNumber -> Fight row
          bets,         \* clientRequestId -> Bet row
          ledger,       \* bag of TellerLedger rows
          drawer,       \* history: the cash physically in a teller's drawer
          paidOut,      \* history: the cash customers got for a fight
          purged        \* history: stakes of purged tickets, by fight and side

vars == <<setting, fights, bets, ledger, drawer, paidOut, purged>>

-----------------------------------------------------------------------------
(* Rows                                                                    *)

Ratios == [Sides -> Int]          \* a multiplier or Null
NoRatios == [s \in Sides |-> Null]

FightStatuses == {"OPEN", "LAST_CALL", "CLOSED", "SETTLED", "CANCELLED"}

\* correctedAt is set exactly when prevOutcome is.
Fight ==
  [status : FightStatuses, rate : 0 .. MaxRate, pool : Pools,
   accepting : [Sides -> BOOLEAN],
   outcome : Outcomes \cup {None}, ratios : Ratios,
   prevOutcome : Outcomes \cup {None}, prevRatios : Ratios]

\* correctedAt is set exactly when prevStatus is; paidBy is the ticket's own
\* teller (assertCanPayBet), so it is not a column here.
Ticket ==
  [fight : Nat, teller : Tellers, side : Sides, amount : Money,
   status : TicketStatuses, payout : Money,           \* or Null
   prevStatus : TicketStatuses \cup {None}, prevPayout : Money]

TicketTypes == {"BET_PLACED", "BET_VOIDED", "BET_REFUNDED", "PAYOUT"}
CashTypes   == {"CASH_ADVANCE", "REMIT", "ADJUSTMENT"}

Row == [teller : Tellers, type : TicketTypes \cup CashTypes,
        amount : Int, bet : BetIds \cup {NoBet}]

NewFight(rate) ==
  [status |-> "OPEN", rate |-> rate, pool |-> [s \in Sides |-> 0],
   accepting |-> [s \in Sides |-> TRUE], outcome |-> None,
   ratios |-> NoRatios, prevOutcome |-> None, prevRatios |-> NoRatios]

NewTicket(f, t, side, amount) ==
  [fight |-> f, teller |-> t, side |-> side, amount |-> amount,
   status |-> "PENDING", payout |-> Null,
   prevStatus |-> None, prevPayout |-> Null]

\* The columns a ticket has from its placement on.
SameBet(p, bet) ==
  /\ p.fight = bet.fight
  /\ p.teller = bet.teller
  /\ p.side = bet.side
  /\ p.amount = bet.amount

LedgerRow(t, type, amount, b) ==
  [teller |-> t, type |-> type, amount |-> amount, bet |-> b]

-----------------------------------------------------------------------------
(* Queries                                                                 *)

TicketsOf(f) == {b \in DOMAIN bets : bets[b].fight = f}

LiveStatuses == {"OPEN", "LAST_CALL"}
FightsIn(statuses) == {f \in DOMAIN fights : fights[f].status \in statuses}
Live == FightsIn(LiveStatuses)

RowsOf(b) == {r \in DOMAIN ledger : r.bet = b}

\* SUM(amount) of some rows of a ledger, each as often as it occurs.
SumOf(book, rows) ==
  SumFunctionOnSet([r \in DOMAIN book |-> book[r] * r.amount], rows)

\* computeTellerBalance: SUM(amount) of the teller's rows.
BalanceIn(book, t) == SumOf(book, {r \in DOMAIN book : r.teller = t})
Balance(t) == BalanceIn(ledger, t)

CashRows == BagCardinality(Restrict(ledger, {r \in DOMAIN ledger : r.bet = NoBet}))

\* The ledger after INSERTing one row of each kind in rows.
Posted(rows) == ledger (+) SetToBag(rows)

Init ==
  /\ setting \in Rates
  /\ fights = << >>
  /\ bets = << >>
  /\ ledger = EmptyBag
  /\ drawer = [t \in Tellers |-> 0]
  /\ paidOut = [f \in 1 .. MaxFights |-> 0]
  /\ purged = [f \in 1 .. MaxFights |-> [s \in Sides |-> 0]]

-----------------------------------------------------------------------------
(* Settings and the fight lifecycle (settings.service, fights.service)     *)

history == <<drawer, paidOut, purged>>

UpdateSetting(rate) ==
  /\ rate # setting
  /\ setting' = rate
  /\ UNCHANGED <<fights, bets, ledger, history>>

\* MAX(fightNumber) + 1, and 1 on an empty table.
IsNextNumber(n) ==
  /\ \A f \in DOMAIN fights : f < n
  /\ n - 1 \in DOMAIN fights \cup {0}

NoLiveFight       == Live = {}              \* Fault: closed fights forgotten
NoUnfinishedFight == FightsIn(LiveStatuses \cup {"CLOSED"}) = {}

CreateFight ==
  /\ NoUnfinishedFight
  /\ \E n \in 1 .. MaxFights :
       /\ IsNextNumber(n)
       /\ fights' = [f \in DOMAIN fights \cup {n} |->
                       IF f = n THEN NewFight(setting) ELSE fights[f]]
  /\ UNCHANGED <<setting, bets, ledger, history>>

\* UPDATE of the status column alone, from one of the given statuses.
MoveFight(f, from, to) ==
  /\ fights[f].status \in from
  /\ fights' = [fights EXCEPT ![f].status = to]
  /\ UNCHANGED <<setting, bets, ledger, history>>

CloseFight(f)       == MoveFight(f, LiveStatuses, "CLOSED")
ReopenFight(f)      == MoveFight(f, {"CLOSED"}, "OPEN")
SetFightLastCall(f) == MoveFight(f, {"OPEN"}, "LAST_CALL")
ResumeFightOpen(f)  == MoveFight(f, {"LAST_CALL"}, "OPEN")

\* holdSide (accepting = FALSE) and unholdSide (TRUE).
ToggleSide(f, side, accepting) ==
  /\ f \in Live
  /\ fights[f].accepting[side] # accepting
  /\ fights' = [fights EXCEPT ![f].accepting[side] = accepting]
  /\ UNCHANGED <<setting, bets, ledger, history>>

-----------------------------------------------------------------------------
(* Declaring a result (fights.service)                                     *)

SettleFight(f, o) ==
  LET ratios == PayoutRatios(fights[f].pool, fights[f].rate, o) IN
  /\ fights[f].status = "CLOSED"
  /\ \A b \in TicketsOf(f) : CanSettle(o, ratios, bets[b])
  /\ bets' = [b \in DOMAIN bets |->
                IF b \in TicketsOf(f) THEN SettledTicket(o, ratios, bets[b])
                                      ELSE bets[b]]
  /\ fights' = [fights EXCEPT ![f].status = "SETTLED", ![f].outcome = o,
                              ![f].ratios = ratios]
  /\ UNCHANGED <<setting, ledger, history>>

CancelFight(f) ==
  /\ fights[f].status \in LiveStatuses \cup {"CLOSED"}
  /\ \A b \in TicketsOf(f) : CanCancel(bets[b])
  /\ bets' = [b \in DOMAIN bets |->
                IF b \in TicketsOf(f) THEN CancelledTicket(bets[b]) ELSE bets[b]]
  /\ fights' = [fights EXCEPT ![f].status = "CANCELLED"]
  /\ UNCHANGED <<setting, ledger, history>>

CorrectFight(f, o) ==
  LET ratios == PayoutRatios(fights[f].pool, fights[f].rate, o) IN
  /\ fights[f].status = "SETTLED"
  /\ fights[f].outcome # o
  /\ \A b \in TicketsOf(f) : CanCorrect(o, ratios, bets[b])
  /\ bets' = [b \in DOMAIN bets |->
                IF b \in TicketsOf(f) THEN CorrectedTicket(o, ratios, bets[b])
                                      ELSE bets[b]]
  /\ fights' = [fights EXCEPT ![f].outcome = o, ![f].ratios = ratios,
                              ![f].prevOutcome = fights[f].outcome,
                              ![f].prevRatios = fights[f].ratios]
  /\ UNCHANGED <<setting, ledger, history>>

\* Fault: the tickets keep the result of the reverted declaration.
UnsettleFightOnly(f) ==
  /\ fights[f].status = "SETTLED"
  /\ \A b \in TicketsOf(f) : ~BlocksUnsettle(bets[b])
  /\ fights' = [fights EXCEPT ![f].status = "CLOSED", ![f].outcome = None,
                              ![f].ratios = NoRatios]
  /\ UNCHANGED <<setting, bets, ledger, history>>

\* Every live fight is closed first, then the declaration of f is undone.
UnsettleFight(f) ==
  /\ fights[f].status = "SETTLED"
  /\ \A b \in TicketsOf(f) : ~BlocksUnsettle(bets[b])
  /\ bets' = [b \in DOMAIN bets |->
                IF b \in TicketsOf(f) THEN UnsettledTicket(bets[b]) ELSE bets[b]]
  /\ fights' = [g \in DOMAIN fights |->
       CASE g = f -> [fights[f] EXCEPT !.status = "CLOSED", !.outcome = None,
                        !.ratios = NoRatios, !.prevOutcome = None,
                        !.prevRatios = NoRatios]
         [] g \in Live -> [fights[g] EXCEPT !.status = "CLOSED"]
         [] OTHER -> fights[g]]
  /\ UNCHANGED <<setting, ledger, history>>

-----------------------------------------------------------------------------
(* Tickets (bets.service)                                                  *)

AcceptsBets(f, side) == f \in Live /\ fights[f].accepting[side]

PlaceBet(b, f, t, side, amount) ==
  /\ b \notin DOMAIN bets
  /\ AcceptsBets(f, side)
  /\ bets' = [x \in DOMAIN bets \cup {b} |->
                IF x = b THEN NewTicket(f, t, side, amount) ELSE bets[x]]
  /\ ledger' = Posted({LedgerRow(t, "BET_PLACED", amount, b)})
  /\ fights' = [fights EXCEPT ![f].pool[side] = @ + amount]
  /\ drawer' = [drawer EXCEPT ![t] = @ + amount]
  /\ UNCHANGED <<setting, paidOut, purged>>

\* Fault: the stake stays in the pool.
VoidBetKeepingPool(b) ==
  LET bet == bets[b] IN
  /\ bet.fight \in Live
  /\ bet.status = "PENDING"
  /\ bets' = [bets EXCEPT ![b].status = "VOIDED"]
  /\ ledger' = Posted({LedgerRow(bet.teller, "BET_VOIDED", -bet.amount, b)})
  /\ drawer' = [drawer EXCEPT ![bet.teller] = @ - bet.amount]
  /\ UNCHANGED <<setting, fights, paidOut, purged>>

\* By the ticket's own teller or an admin: either way the stake leaves the
\* drawer of the teller who took it.
VoidBet(b) ==
  LET bet == bets[b] IN
  /\ bet.fight \in Live
  /\ bet.status = "PENDING"
  /\ bets' = [bets EXCEPT ![b].status = "VOIDED"]
  /\ fights' = [fights EXCEPT ![bet.fight].pool[bet.side] = @ - bet.amount]
  /\ ledger' = Posted({LedgerRow(bet.teller, "BET_VOIDED", -bet.amount, b)})
  /\ drawer' = [drawer EXCEPT ![bet.teller] = @ - bet.amount]
  /\ UNCHANGED <<setting, paidOut, purged>>

\* assertRefundFightEligible
RefundEligible(f) ==
  \/ fights[f].status = "CANCELLED"
  \/ fights[f].status = "SETTLED" /\ fights[f].outcome = "DRAW"

\* Fault: no check that the ticket was not cashed before.
PayBetAgain(b) ==
  LET bet == bets[b] IN
  /\ bet.status \in {"WON", "PAID"}
  /\ bet.payout # Null
  /\ bets' = [bets EXCEPT ![b].status = "PAID"]
  /\ ledger' = Posted({LedgerRow(bet.teller, "PAYOUT", -bet.payout, b)})
  /\ BalanceIn(ledger', bet.teller) >= 0
  /\ drawer' = [drawer EXCEPT ![bet.teller] = @ - bet.payout]
  /\ paidOut' = [paidOut EXCEPT ![bet.fight] = @ + bet.payout]
  /\ UNCHANGED <<setting, fights, purged>>

\* A win is paid (WON -> PAID), a refund too (PENDING_REFUND -> REFUNDED),
\* unless the payout would leave the paying teller's balance negative.
PayBet(b) ==
  LET bet    == bets[b]
      refund == bet.status = "PENDING_REFUND"
  IN
  /\ bet.status \in {"WON", "PENDING_REFUND"}
  /\ refund => RefundEligible(bet.fight)
  /\ bet.payout # Null
  /\ bets' = [bets EXCEPT ![b].status = IF refund THEN "REFUNDED" ELSE "PAID"]
  /\ ledger' = Posted({LedgerRow(bet.teller, IF refund THEN "BET_REFUNDED" ELSE "PAYOUT",
                                 -bet.payout, b)})
  /\ BalanceIn(ledger', bet.teller) >= 0
  /\ drawer' = [drawer EXCEPT ![bet.teller] = @ - bet.payout]
  /\ paidOut' = [paidOut EXCEPT ![bet.fight] = @ + bet.payout]
  /\ UNCHANGED <<setting, fights, purged>>

\* Fault: the adjustment takes the cash back instead of keeping it.
PurgeAdjustmentsNegated(b) ==
  LET moved(t) == SumOf(ledger, {r \in RowsOf(b) : r.teller = t})
  IN  {LedgerRow(t, "ADJUSTMENT", -moved(t), NoBet) : t \in {u \in Tellers : moved(u) # 0}}

\* planPurgeCashAdjustments: one row per teller whose cash the deleted rows
\* of the ticket moved, equal to what they moved.
PurgeAdjustments(b) ==
  LET moved(t) == SumOf(ledger, {r \in RowsOf(b) : r.teller = t})
  IN  {LedgerRow(t, "ADJUSTMENT", moved(t), NoBet) : t \in {u \in Tellers : moved(u) # 0}}

\* Fault: the ledger rows of the deleted ticket stay behind.
PurgeBetKeepingRows(b) ==
  LET bet == bets[b] IN
  /\ bet.status = "PAID"
  /\ fights[bet.fight].status = "SETTLED"
  /\ bets' = Restrict(bets, DOMAIN bets \ {b})
  /\ purged' = [purged EXCEPT ![bet.fight][bet.side] = @ + bet.amount]
  /\ UNCHANGED <<setting, fights, ledger, drawer, paidOut>>

\* The ticket and its ledger rows are deleted; the pools keep the stake.
PurgeBet(b) ==
  LET bet == bets[b] IN
  /\ bet.status = "PAID"
  /\ fights[bet.fight].status = "SETTLED"
  /\ CashRows < MaxCashRows
  /\ bets' = Restrict(bets, DOMAIN bets \ {b})
  /\ ledger' = Restrict(ledger, DOMAIN ledger \ RowsOf(b)) (+) SetToBag(PurgeAdjustments(b))
  /\ purged' = [purged EXCEPT ![bet.fight][bet.side] = @ + bet.amount]
  /\ UNCHANGED <<setting, fights, drawer, paidOut>>

-----------------------------------------------------------------------------
(* Cash (cash.service)                                                     *)

CashAdvance(t, amount) ==
  /\ CashRows < MaxCashRows
  /\ ledger' = Posted({LedgerRow(t, "CASH_ADVANCE", amount, NoBet)})
  /\ drawer' = [drawer EXCEPT ![t] = @ + amount]
  /\ UNCHANGED <<setting, fights, bets, paidOut, purged>>

CashRemit(t, amount) ==
  /\ CashRows < MaxCashRows
  /\ ledger' = Posted({LedgerRow(t, "REMIT", -amount, NoBet)})
  /\ BalanceIn(ledger', t) >= 0
  /\ drawer' = [drawer EXCEPT ![t] = @ - amount]
  /\ UNCHANGED <<setting, fights, bets, paidOut, purged>>

\* The row goes and an adjustment of the same amount takes its place.
DeleteRemit(r) ==
  /\ r.type = "REMIT"
  /\ ledger' = (ledger (-) SetToBag({r}))
                 (+) SetToBag({LedgerRow(r.teller, "ADJUSTMENT", r.amount, NoBet)})
  /\ UNCHANGED <<setting, fights, bets, history>>

-----------------------------------------------------------------------------
(* The operations of a session, by what they are for                       *)

Lifecycle ==
  \/ CreateFight
  \/ \E f \in DOMAIN fights :
       CloseFight(f) \/ ReopenFight(f) \/ SetFightLastCall(f) \/ ResumeFightOpen(f)

Holding ==
  \E f \in DOMAIN fights, s \in Sides, a \in BOOLEAN : ToggleSide(f, s, a)

Betting ==
  \/ \E b \in BetIds, f \in DOMAIN fights, t \in Tellers, s \in Sides, a \in Stakes :
       PlaceBet(b, f, t, s, a)
  \/ \E b \in DOMAIN bets : VoidBet(b)

Declaring ==
  \E f \in DOMAIN fights :
    \/ CancelFight(f)
    \/ \E o \in Outcomes : SettleFight(f, o)

Paying == \E b \in DOMAIN bets : PayBet(b)

Correcting == \E f \in DOMAIN fights, o \in Outcomes : CorrectFight(f, o)

Reverting == \E f \in DOMAIN fights : UnsettleFight(f)

Purging == \E b \in DOMAIN bets : PurgeBet(b)

Cash ==
  \/ \E t \in Tellers, a \in CashAmounts : CashAdvance(t, a) \/ CashRemit(t, a)
  \/ \E r \in DOMAIN ledger : DeleteRemit(r)

Tuning == \E r \in Rates : UpdateSetting(r)

Next == \/ Tuning \/ Lifecycle \/ Holding \/ Betting \/ Declaring \/ Paying
        \/ Correcting \/ Reverting \/ Purging \/ Cash

Spec == Init /\ [][Next]_vars

\* A session in which no declaration is reverted.
NoRevertNext == \/ Tuning \/ Lifecycle \/ Holding \/ Betting \/ Declaring \/ Paying
                \/ Correcting \/ Purging \/ Cash

NoRevertSpec == Init /\ [][NoRevertNext]_vars

\* A session in which nothing is purged.
NoPurgeNext == \/ Tuning \/ Lifecycle \/ Holding \/ Betting \/ Declaring \/ Paying
               \/ Correcting \/ Reverting \/ Cash

NoPurgeSpec == Init /\ [][NoPurgeNext]_vars

-----------------------------------------------------------------------------
(* Types                                                                   *)

FightsTyped ==
  /\ DOMAIN fights \subseteq 1 .. MaxFights
  /\ fights \in [DOMAIN fights -> Fight]

TicketsTyped ==
  /\ IsFiniteSet(DOMAIN bets)
  /\ DOMAIN bets \subseteq BetIds
  /\ bets \in [DOMAIN bets -> Ticket]
  /\ \A b \in DOMAIN bets : bets[b].fight \in DOMAIN fights

RowsTyped ==
  /\ IsFiniteSet(DOMAIN ledger)
  /\ DOMAIN ledger \subseteq Row
  /\ ledger \in [DOMAIN ledger -> Nat \ {0}]
  /\ \A r \in DOMAIN ledger : r.bet # NoBet => r.bet \in DOMAIN bets

HistoryTyped ==
  /\ drawer \in [Tellers -> Int]
  /\ paidOut \in [1 .. MaxFights -> Money]
  /\ purged \in [1 .. MaxFights -> Pools]

\* The tables hold rows of their types, with the keys they refer to: a
\* ticket's fight exists, and a ledger row's ticket too.
TypeOK == setting \in Rates /\ FightsTyped /\ TicketsTyped /\ RowsTyped /\ HistoryTyped

-----------------------------------------------------------------------------
(* What the book promises                                                  *)

StakesOn(f, side) ==
  SumFunctionOnSet([b \in DOMAIN bets |-> bets[b].amount],
    {b \in TicketsOf(f) : bets[b].side = side /\ bets[b].status # "VOIDED"})

(***************************************************************************)
(* Settlement reads the running totals on the fight row instead of         *)
(* re-adding the tickets (fight.prisma).  So at all times a pool is the    *)
(* sum of the stakes of the tickets on that side that were not voided,     *)
(* including the stakes of tickets an admin has purged since.              *)
(***************************************************************************)
PoolsMatchStakes ==
  \A f \in DOMAIN fights, s \in Sides :
    fights[f].pool[s] = StakesOn(f, s) + purged[f][s]

(***************************************************************************)
(* A teller's balance, SUM(amount) over the ledger, is the cash in the     *)
(* drawer: bookkeeping that rewrites the ledger (a purge, the deletion of  *)
(* a remit) leaves every sum as it was.                                    *)
(***************************************************************************)
LedgerIsCash == \A t \in Tellers : Balance(t) = drawer[t]

\* The ledger rows a ticket must have, given its status.
RowTypesFor(status) ==
  {"BET_PLACED"} \cup CASE status = "VOIDED"   -> {"BET_VOIDED"}
                        [] status = "PAID"     -> {"PAYOUT"}
                        [] status = "REFUNDED" -> {"BET_REFUNDED"}
                        [] OTHER               -> {}

\* What a row of the given type says left or entered the drawer for a ticket.
\* The payout column of a ticket corrected after it was paid says nothing
\* about what was paid.
RowAmountFits(bet, r) ==
  CASE r.type = "BET_PLACED"   -> r.amount = bet.amount
    [] r.type = "BET_VOIDED"   -> r.amount = -bet.amount
    [] r.type = "BET_REFUNDED" -> r.amount = -bet.amount
    [] OTHER -> bet.prevStatus # "PAID" => r.amount = -bet.payout

(***************************************************************************)
(* Every cash movement of a ticket is in the ledger once and only once:    *)
(* a ticket has exactly the rows its status calls for, one of each type,   *)
(* on the drawer of the teller who took it and for the right amount        *)
(* (teller-ledger.prisma, "Transactional guarantee").  In particular no    *)
(* ticket is ever cashed twice.                                            *)
(***************************************************************************)
LedgerMatchesTickets ==
  \A b \in DOMAIN bets :
    /\ {r.type : r \in RowsOf(b)} = RowTypesFor(bets[b].status)
    /\ \A r \in RowsOf(b) :
         /\ ledger[r] = 1
         /\ r.teller = bets[b].teller
         /\ RowAmountFits(bets[b], r)
         /\ \A q \in RowsOf(b) : q.type = r.type => q = r

\* The statuses a ticket may have under a fight in the given state.
Cashed == {"PAID", "REFUNDED", "VOIDED"}

TicketFitsFight(bet, fight) ==
  \/ bet.status = "VOIDED"
  \/ /\ fight.status \in LiveStatuses \cup {"CLOSED"}
     /\ bet.status = "PENDING" /\ bet.payout = Null /\ bet.prevStatus = None
  \/ /\ fight.status = "CANCELLED"
     /\ bet.status \in {"PENDING_REFUND", "REFUNDED"} /\ bet.payout = bet.amount
  \/ /\ fight.status = "SETTLED"
     /\ bet.status \in {"PAID", TargetStatus(fight.outcome, bet)}
     /\ bet.payout = TargetPayout(fight.outcome, fight.ratios, bet)
     /\ bet.status = "PAID" => bet.side = fight.outcome \/ fight.prevOutcome # None
     \* refunded under a draw that may have been corrected since
  \/ /\ fight.status = "SETTLED"
     /\ bet.status = "REFUNDED" /\ bet.payout = bet.amount
     /\ fight.outcome = "DRAW" \/ fight.prevOutcome # None

(***************************************************************************)
(* A fight and its tickets always tell the same story.  While betting can  *)
(* still change, no ticket has a result; after a declaration every ticket  *)
(* has the result and the payout of the outcome and ratios on the fight    *)
(* row, however many corrections and reverts came before; a cancelled      *)
(* fight owes every stake back.                                            *)
(***************************************************************************)
TicketsFollowFight ==
  \A b \in DOMAIN bets : TicketFitsFight(bets[b], fights[bets[b].fight])

(***************************************************************************)
(* The settlement helpers throw on a ticket in an unexpected state or a    *)
(* winner without a ratio, and the throw would roll the declaration back   *)
(* for good.  It cannot happen: a closed fight can take any outcome, and   *)
(* be cancelled, and a settled one can be corrected to any other outcome.  *)
(***************************************************************************)
ResultCanBeDeclared ==
  \A f \in DOMAIN fights, o \in Outcomes, b \in BetIds :
    b \in TicketsOf(f) =>
      LET ratios == PayoutRatios(fights[f].pool, fights[f].rate, o) IN
      /\ fights[f].status = "CLOSED" => CanSettle(o, ratios, bets[b]) /\ CanCancel(bets[b])
      /\ fights[f].status = "SETTLED" => CanCorrect(o, ratios, bets[b])

(***************************************************************************)
(* fights.service.js, listCurrentFights: "OPEN / LAST_CALL (at most one)". *)
(* createFight checks it under an advisory lock; reopenFight does not      *)
(* check it at all, so it rests on there being one unfinished fight.       *)
(***************************************************************************)
OneLiveFight == \A f, g \in Live : f = g

(***************************************************************************)
(* Stronger, and inductive as long as no declaration is reverted: of the   *)
(* fights that are live or wait for a result there is at most one, and it  *)
(* is the latest.                                                          *)
(***************************************************************************)
OneUnfinishedFight ==
  \A f \in FightsIn(LiveStatuses \cup {"CLOSED"}), g \in DOMAIN fights : g <= f

(***************************************************************************)
(* What customers are paid for a fight never exceeds what the fight took:  *)
(* the stakes when it refunds, the distributable part of the pools (and    *)
(* half a centavo of rounding for each ticket) when a side won.  A fight   *)
(* corrected after payouts is excused: there the operator absorbs it.      *)
(***************************************************************************)
FightSolvent ==
  \A f \in DOMAIN fights :
    fights[f].prevOutcome = None =>
      IF fights[f].outcome \in Sides
      THEN paidOut[f] <= (PoolDistributable(fights[f].pool, fights[f].rate)
                          + 10000 * Cardinality(TicketsOf(f))) \div 20000
      ELSE paidOut[f] <= Handle(fights[f].pool)

\* A step that reverts a declaration is on a fight nobody was paid for.
RevertedUnpaid ==
  \A f \in DOMAIN fights \cap DOMAIN fights' :
    fights[f].status = "SETTLED" /\ fights'[f].status # "SETTLED" => paidOut[f] = 0

(***************************************************************************)
(* fights.service.js, unsettleFight: a declaration is reverted only "when  *)
(* no cash has left for this fight".                                       *)
(***************************************************************************)
RevertOnlyBeforeCash == [][RevertedUnpaid]_vars

\* A step moves no cashed ticket, and deletes none but a paid one of a settled
\* fight.
CashedKept ==
  \A b \in DOMAIN bets :
    IF b \in DOMAIN bets'
    THEN bets[b].status \in Cashed => /\ bets'[b].status = bets[b].status
                                      /\ SameBet(bets'[b], bets[b])
    ELSE bets[b].status = "PAID" /\ fights[bets[b].fight].status = "SETTLED"

(***************************************************************************)
(* Cash that changed hands is history: no operation moves a paid, refunded *)
(* or voided ticket to another status or drawer, and only a paid ticket    *)
(* may be deleted, once its fight is settled.                              *)
(***************************************************************************)
CashedIsFinal == [][CashedKept]_vars

=============================================================================
