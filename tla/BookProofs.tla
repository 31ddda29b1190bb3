----------------------------- MODULE BookProofs -----------------------------
(***************************************************************************)
(* What the book promises, for every instance of Book: any finite number   *)
(* of tellers, any tickets, stakes, rates and number of fights the schemas *)
(* allow.  Four parts, each with its inductive invariant:                  *)
(*   - types, and one unfinished fight while nothing is reverted;          *)
(*   - the running pools of a fight are the sums of its stakes;            *)
(*   - tickets follow their fight, what was cashed stays cashed, and a     *)
(*     result can always be declared;                                      *)
(*   - the ledger tells the whole story of the cash: a balance is the cash *)
(*     in the drawer, and a ticket has the rows its status calls for, each *)
(*     of them once.                                                       *)
(***************************************************************************)
EXTENDS Book, Sums

\* What the assumptions say of the constants, without the bounds of the
\* request schemas.
LEMMA ConstantTypes ==
  /\ Stakes \subseteq Nat \ {0}
  /\ CashAmounts \subseteq Nat \ {0}
  /\ Rates \subseteq 0 .. MaxRate
  /\ NoBet \notin BetIds
  /\ IsFiniteSet(Tellers)
  /\ MaxFights \in Nat
  /\ MaxCashRows \in Nat
<1>1. MinStake \in Nat \ {0} /\ MaxAmount \in Nat
  BY SMT DEF MinStake, MaxAmount
<1>2. \A x \in Stakes : x \in Nat \ {0}
  BY <1>1, BookConstants, SMT
<1>3. \A x \in CashAmounts : x \in Nat \ {0}
  BY <1>1, BookConstants, SMT
<1>. QED BY <1>2, <1>3, BookConstants

\* The domain and range of a bag to which a set of rows is added ...
LEMMA AddedRows ==
  ASSUME NEW B, B \in [DOMAIN B -> Nat \ {0}], NEW R
  PROVE  /\ DOMAIN (B (+) SetToBag(R)) = DOMAIN B \cup R
         /\ B (+) SetToBag(R) \in [DOMAIN B \cup R -> Nat \ {0}]
BY DEF (+), SetToBag, BagToSet

\* ... and of one from which a row is taken.
LEMMA TakenRow ==
  ASSUME NEW B, B \in [DOMAIN B -> Nat \ {0}], NEW r \in DOMAIN B
  PROVE  /\ DOMAIN (B (-) SetToBag({r})) = {q \in DOMAIN B : q = r => B[r] > 1}
         /\ B (-) SetToBag({r}) \in [DOMAIN (B (-) SetToBag({r})) -> Nat \ {0}]
BY DEF (-), SetToBag

-----------------------------------------------------------------------------

\* Empty tables are well typed.
LEMMA InitType == Init => TypeOK
<1>. SUFFICES ASSUME Init PROVE TypeOK
  OBVIOUS
<1>1. FightsTyped
  BY ConstantTypes DEF Init, FightsTyped
<1>2. TicketsTyped
  BY FS_EmptySet DEF Init, TicketsTyped
<1>3. RowsTyped
  BY FS_EmptySet DEF Init, RowsTyped, EmptyBag, SetToBag
<1>4. HistoryTyped
  BY DEF Init, HistoryTyped, Money, Pools
<1>. QED BY <1>1, <1>2, <1>3, <1>4 DEF Init, TypeOK

\* The rows CREATE puts into the tables are.
LEMMA NewRows ==
  /\ NoRatios \in Ratios
  /\ \A rate \in 0 .. MaxRate : NewFight(rate) \in Fight
  /\ \A f \in Nat, t \in Tellers, s \in Sides, a \in Int : NewTicket(f, t, s, a) \in Ticket
<1>1. NoRatios \in Ratios
  BY DEF NoRatios, Ratios, Null
<1>2. ASSUME NEW rate \in 0 .. MaxRate PROVE NewFight(rate) \in Fight
  <2>1. [s \in Sides |-> 0] \in Pools
    BY DEF Pools, Money
  <2>. QED BY <1>1, <2>1 DEF NewFight, Fight, FightStatuses
<1>3. ASSUME NEW f \in Nat, NEW t \in Tellers, NEW s \in Sides, NEW a \in Int
      PROVE NewTicket(f, t, s, a) \in Ticket
  BY DEF NewTicket, Ticket, TicketStatuses, Money, Null
<1>. QED BY <1>1, <1>2, <1>3

\* The steps that write the fights alone.
LEMMA CreateType == TypeOK /\ CreateFight => TypeOK'
<1>1. SUFFICES ASSUME TypeOK, CreateFight PROVE TypeOK'
  OBVIOUS
<1>2. FightsTyped'
  BY <1>1, NewRows, ConstantTypes DEF CreateFight, TypeOK, FightsTyped
<1>. QED BY <1>1, <1>2 DEF CreateFight, TypeOK, TicketsTyped, RowsTyped, HistoryTyped, history

\* UPDATE of the status column.
LEMMA MoveType ==
  ASSUME TypeOK, NEW f \in DOMAIN fights, NEW from, NEW to \in FightStatuses,
         MoveFight(f, from, to)
  PROVE  TypeOK'
<1>1. FightsTyped'
  BY DEF MoveFight, TypeOK, FightsTyped, Fight
<1>. QED BY <1>1 DEF MoveFight, TypeOK, TicketsTyped, RowsTyped, HistoryTyped, history

\* Holding and unholding a side.
LEMMA ToggleType ==
  ASSUME TypeOK, NEW f \in DOMAIN fights, NEW side \in Sides, NEW accepting \in BOOLEAN,
         ToggleSide(f, side, accepting)
  PROVE  TypeOK'
<1>1. FightsTyped'
  BY DEF ToggleSide, TypeOK, FightsTyped, Fight
<1>. QED BY <1>1 DEF ToggleSide, TypeOK, TicketsTyped, RowsTyped, HistoryTyped, history

\* The ratios of a declaration are numbers or null.
LEMMA RatioTypes ==
  ASSUME NEW pool \in Pools, NEW rate \in 0 .. MaxRate, NEW o
  PROVE  PayoutRatios(pool, rate, o) \in Ratios
<1>1. ASSUME NEW s \in Sides PROVE PayoutMultiplier(pool, rate, s) \in Int
  <2>1. Null \in Int
    BY DEF Null
  <2>2. Handle(pool) \in Int /\ pool[s] \in Int
    BY DEF Handle, Pools, Money, Sides
  <2>3. PoolDistributable(pool, rate) \in Int
    BY <2>2, SMT DEF PoolDistributable, MaxRate
  <2>. QED BY <2>1, <2>2, <2>3 DEF PayoutMultiplier
<1>. QED BY <1>1 DEF PayoutRatios, Ratios, Null

\* Where a declaration sends a ticket has the types of its columns.
LEMMA TargetTypes ==
  ASSUME NEW bet \in Ticket, NEW o, NEW ratios \in Ratios
  PROVE  /\ TargetStatus(o, bet) \in TicketStatuses
         /\ TargetPayout(o, ratios, bet) \in Money
<1>1. bet.amount \in Int /\ bet.side \in Sides /\ ratios[bet.side] \in Int
  BY DEF Ticket, Ratios, Money
<1>2. Payout(bet.amount, ratios[bet.side]) \in Int
  BY <1>1, SMT DEF Payout
<1>3. Null \in Int
  BY DEF Null
<1>. QED BY <1>1, <1>2, <1>3 DEF TargetStatus, TargetPayout, TicketStatuses, Money

\* Every plan of lib/fight-settlement.js yields a ticket, the same bet.
LEMMA TicketPlans ==
  ASSUME NEW bet \in Ticket, NEW o, NEW ratios \in Ratios,
         NEW p \in {SettledTicket(o, ratios, bet), CorrectedTicket(o, ratios, bet),
                    CancelledTicket(bet), UnsettledTicket(bet)}
  PROVE  p \in Ticket /\ SameBet(p, bet)
<1>0. "PENDING" \in TicketStatuses /\ "PENDING_REFUND" \in TicketStatuses /\ Null \in Money
  BY DEF TicketStatuses, Money, Null
<1>1. CASE p = SettledTicket(o, ratios, bet)
  BY <1>1, TargetTypes DEF SettledTicket, Ticket, SameBet
<1>2. CASE p = CorrectedTicket(o, ratios, bet)
  BY <1>2, TargetTypes DEF CorrectedTicket, Ticket, SameBet
<1>3. CASE p = CancelledTicket(bet)
  BY <1>0, <1>3 DEF CancelledTicket, Ticket, SameBet
<1>4. CASE p = UnsettledTicket(bet)
  BY <1>0, <1>4 DEF UnsettledTicket, Ticket, SameBet
<1>. QED BY <1>1, <1>2, <1>3, <1>4

\* A fight row replaced by another.
LEMMA FightWritten ==
  ASSUME FightsTyped, NEW f \in DOMAIN fights, NEW row \in Fight,
         fights' = [fights EXCEPT ![f] = row]
  PROVE  FightsTyped' /\ DOMAIN fights' = DOMAIN fights
BY DEF FightsTyped

\* The steps that rewrite the tickets of one fight.
LEMMA PlannedTickets ==
  ASSUME TicketsTyped, DOMAIN fights' = DOMAIN fights,
         bets' = [b \in DOMAIN bets |-> bets'[b]],
         \A b \in DOMAIN bets : bets'[b] \in Ticket /\ SameBet(bets'[b], bets[b])
  PROVE  TicketsTyped'
BY DEF TicketsTyped, SameBet

\* Settlement keeps the types.
LEMMA SettleType ==
  ASSUME TypeOK, NEW f \in DOMAIN fights, NEW o \in Outcomes, SettleFight(f, o)
  PROVE  TypeOK'
<1>. DEFINE ratios == PayoutRatios(fights[f].pool, fights[f].rate, o)
<1>1. fights[f] \in Fight
  BY DEF TypeOK, FightsTyped
<1>2. ratios \in Ratios
  BY <1>1, RatioTypes DEF Fight
<1>3. FightsTyped'
  <2>. DEFINE row == [fights[f] EXCEPT !.status = "SETTLED", !.outcome = o,
                                       !.ratios = ratios]
  <2>1. fights' = [fights EXCEPT ![f] = row]
    BY DEF SettleFight
  <2>2. row \in Fight
    <3>. HIDE DEF ratios
    <3>. QED BY <1>1, <1>2 DEF Fight, FightStatuses
  <2>. HIDE DEF row
  <2>. QED BY <2>1, <2>2, FightWritten DEF TypeOK
<1>4. \A b \in DOMAIN bets : bets'[b] \in Ticket /\ SameBet(bets'[b], bets[b])
  <2>. SUFFICES ASSUME NEW b \in DOMAIN bets
                PROVE  bets'[b] \in Ticket /\ SameBet(bets'[b], bets[b])
    OBVIOUS
  <2>1. bets[b] \in Ticket
    BY DEF TypeOK, TicketsTyped
  <2>2. bets'[b] = bets[b] \/ bets'[b] = SettledTicket(o, ratios, bets[b])
    BY DEF SettleFight
  <2>. HIDE DEF ratios
  <2>. QED BY <1>2, <2>1, <2>2, TicketPlans DEF SameBet
<1>5. TicketsTyped'
  BY <1>4, PlannedTickets DEF SettleFight, TypeOK
<1>. QED BY <1>3, <1>5 DEF SettleFight, TypeOK, RowsTyped, HistoryTyped, history

\* Cancellation keeps the types.
LEMMA CancelType ==
  ASSUME TypeOK, NEW f \in DOMAIN fights, CancelFight(f)
  PROVE  TypeOK'
<1>1. FightsTyped' /\ DOMAIN fights' = DOMAIN fights
  <2>. DEFINE row == [fights[f] EXCEPT !.status = "CANCELLED"]
  <2>1. fights' = [fights EXCEPT ![f] = row]
    BY DEF CancelFight
  <2>2. row \in Fight
    BY DEF TypeOK, FightsTyped, Fight, FightStatuses
  <2>. HIDE DEF row
  <2>. QED BY <2>1, <2>2, FightWritten DEF TypeOK
<1>2. \A b \in DOMAIN bets : bets'[b] \in Ticket /\ SameBet(bets'[b], bets[b])
  <2>. SUFFICES ASSUME NEW b \in DOMAIN bets
                PROVE  bets'[b] \in Ticket /\ SameBet(bets'[b], bets[b])
    OBVIOUS
  <2>1. bets[b] \in Ticket
    BY DEF TypeOK, TicketsTyped
  <2>2. bets'[b] = bets[b] \/ bets'[b] = CancelledTicket(bets[b])
    BY DEF CancelFight
  <2>. QED BY <2>1, <2>2, NewRows, TicketPlans DEF SameBet
<1>3. TicketsTyped'
  BY <1>1, <1>2, PlannedTickets DEF CancelFight, TypeOK
<1>. QED BY <1>1, <1>3 DEF CancelFight, TypeOK, RowsTyped, HistoryTyped, history

\* Correction keeps the types.
LEMMA CorrectType ==
  ASSUME TypeOK, NEW f \in DOMAIN fights, NEW o \in Outcomes, CorrectFight(f, o)
  PROVE  TypeOK'
<1>. DEFINE ratios == PayoutRatios(fights[f].pool, fights[f].rate, o)
            row == [fights[f] EXCEPT !.outcome = o, !.ratios = ratios,
                                     !.prevOutcome = fights[f].outcome,
                                     !.prevRatios = fights[f].ratios]
<1>1. fights[f] \in Fight
  BY DEF TypeOK, FightsTyped
<1>2. ratios \in Ratios
  BY <1>1, RatioTypes DEF Fight
<1>3. fights' = [fights EXCEPT ![f] = row]
  BY DEF CorrectFight
<1>4. row \in Fight
  <2>. HIDE DEF ratios
  <2>. QED BY <1>1, <1>2 DEF Fight, FightStatuses
<1>5. FightsTyped' /\ DOMAIN fights' = DOMAIN fights
  <2>. HIDE DEF row
  <2>. QED BY <1>3, <1>4, FightWritten DEF TypeOK
<1>6. \A b \in DOMAIN bets : bets'[b] \in Ticket /\ SameBet(bets'[b], bets[b])
  <2>. SUFFICES ASSUME NEW b \in DOMAIN bets
                PROVE  bets'[b] \in Ticket /\ SameBet(bets'[b], bets[b])
    OBVIOUS
  <2>1. bets[b] \in Ticket
    BY DEF TypeOK, TicketsTyped
  <2>2. bets'[b] = bets[b] \/ bets'[b] = CorrectedTicket(o, ratios, bets[b])
    BY DEF CorrectFight
  <2>. HIDE DEF ratios
  <2>. QED BY <1>2, <2>1, <2>2, TicketPlans DEF SameBet
<1>7. TicketsTyped'
  BY <1>5, <1>6, PlannedTickets DEF CorrectFight, TypeOK
<1>. QED BY <1>5, <1>7 DEF CorrectFight, TypeOK, RowsTyped, HistoryTyped, history

\* A revert keeps the types, of the fights it closes too.
LEMMA UnsettleType ==
  ASSUME TypeOK, NEW f \in DOMAIN fights, UnsettleFight(f)
  PROVE  TypeOK'
<1>. DEFINE undone == [fights[f] EXCEPT !.status = "CLOSED", !.outcome = None,
                         !.ratios = NoRatios, !.prevOutcome = None,
                         !.prevRatios = NoRatios]
<1>1. undone \in Fight
  <2>1. fights[f] \in Fight /\ "CLOSED" \in FightStatuses
    BY DEF TypeOK, FightsTyped, FightStatuses
  <2>. QED BY <2>1, NewRows DEF Fight
<1>2. \A g \in DOMAIN fights : [fights[g] EXCEPT !.status = "CLOSED"] \in Fight
  BY DEF TypeOK, FightsTyped, Fight, FightStatuses
<1>3. \A g \in DOMAIN fights : fights'[g] \in {undone, fights[g], [fights[g] EXCEPT !.status = "CLOSED"]}
  <2>. SUFFICES ASSUME NEW g \in DOMAIN fights
                PROVE  fights'[g] \in {undone, fights[g], [fights[g] EXCEPT !.status = "CLOSED"]}
    OBVIOUS
  <2>1. CASE g = f
    BY <2>1 DEF UnsettleFight
  <2>2. CASE g # f /\ g \in Live
    BY <2>2 DEF UnsettleFight
  <2>3. CASE g # f /\ g \notin Live
    BY <2>3 DEF UnsettleFight
  <2>. QED BY <2>1, <2>2, <2>3
<1>4. fights' = [g \in DOMAIN fights |-> fights'[g]]
  BY DEF UnsettleFight
<1>5. FightsTyped' /\ DOMAIN fights' = DOMAIN fights
  <2>. HIDE DEF undone
  <2>. QED BY <1>1, <1>2, <1>3, <1>4 DEF TypeOK, FightsTyped
<1>6. \A b \in DOMAIN bets : bets'[b] \in Ticket /\ SameBet(bets'[b], bets[b])
  <2>. SUFFICES ASSUME NEW b \in DOMAIN bets
                PROVE  bets'[b] \in Ticket /\ SameBet(bets'[b], bets[b])
    OBVIOUS
  <2>1. bets[b] \in Ticket
    BY DEF TypeOK, TicketsTyped
  <2>2. bets'[b] = bets[b] \/ bets'[b] = UnsettledTicket(bets[b])
    BY DEF UnsettleFight
  <2>. QED BY <2>1, <2>2, NewRows, TicketPlans DEF SameBet
<1>7. TicketsTyped'
  BY <1>5, <1>6, PlannedTickets DEF UnsettleFight, TypeOK
<1>. QED BY <1>5, <1>7 DEF UnsettleFight, TypeOK, RowsTyped, HistoryTyped, history

-----------------------------------------------------------------------------
\* The steps that write the ledger.

\* A row INSERTed into the ledger.
LEMMA PostedRow ==
  ASSUME RowsTyped, NEW r \in Row, ledger' = Posted({r}),
         DOMAIN bets \subseteq DOMAIN bets', r.bet # NoBet => r.bet \in DOMAIN bets'
  PROVE  RowsTyped'
<1>1. IsFiniteSet(DOMAIN ledger \cup {r})
  BY FS_AddElement DEF RowsTyped
<1>2. DOMAIN ledger' = DOMAIN ledger \cup {r} /\ ledger' \in [DOMAIN ledger' -> Nat \ {0}]
  BY AddedRows DEF Posted, RowsTyped
<1>. QED BY <1>1, <1>2 DEF RowsTyped

\* SUM(amount) over any rows of the ledger is a number.
LEMMA LedgerSums ==
  ASSUME RowsTyped, NEW rows \in SUBSET DOMAIN ledger
  PROVE  SumOf(ledger, rows) \in Int
<1>. DEFINE amounts == [r \in DOMAIN ledger |-> ledger[r] * r.amount]
<1>1. \A r \in DOMAIN ledger : ledger[r] \in Nat /\ r.amount \in Int
  BY DEF RowsTyped, Row
<1>2. \A r \in rows : amounts[r] \in Int
  BY <1>1
<1>3. IsFiniteSet(rows)
  BY FS_Subset DEF RowsTyped
<1>. HIDE DEF amounts
<1>4. SumFunctionOnSet(amounts, rows) \in Int
  BY <1>2, <1>3, SumInt
<1>. QED BY <1>4 DEF SumOf, amounts

\* Placing a bet keeps the types.
LEMMA PlaceType ==
  ASSUME TypeOK, NEW b \in BetIds, NEW f \in DOMAIN fights, NEW t \in Tellers,
         NEW side \in Sides, NEW amount \in Stakes, PlaceBet(b, f, t, side, amount)
  PROVE  TypeOK'
<1>0. amount \in Nat
  BY ConstantTypes
<1>1. FightsTyped' /\ DOMAIN fights' = DOMAIN fights
  <2>. DEFINE g == f
              pool == [fights[g].pool EXCEPT ![side] = @ + amount]
              row == [fights[g] EXCEPT !.pool = pool]
  <2>1. fights' = [fights EXCEPT ![g] = row]
    BY DEF PlaceBet
  <2>2. fights[g] \in Fight
    BY <1>0 DEF TypeOK, FightsTyped
  <2>3. pool \in Pools
    BY <1>0, <2>2 DEF Fight, Pools, Money
  <2>4. row \in Fight
    <3>. HIDE DEF pool
    <3>. QED BY <2>2, <2>3 DEF Fight
  <2>. HIDE DEF row
  <2>. QED BY <1>0, <2>1, <2>4, FightWritten DEF TypeOK
<1>2. TicketsTyped'
  <2>1. NewTicket(f, t, side, amount) \in Ticket /\ NewTicket(f, t, side, amount).fight = f
    BY <1>0, NewRows, ConstantTypes DEF TypeOK, FightsTyped, NewTicket
  <2>2. IsFiniteSet(DOMAIN bets \cup {b})
    BY FS_AddElement DEF TypeOK, TicketsTyped
  <2>. QED BY <1>1, <2>1, <2>2 DEF PlaceBet, TypeOK, TicketsTyped
<1>3. RowsTyped'
  <2>. DEFINE row == LedgerRow(t, "BET_PLACED", amount, b)
  <2>1. row \in Row /\ row.bet = b
    BY <1>0 DEF LedgerRow, Row, TicketTypes
  <2>2. ledger' = Posted({row}) /\ DOMAIN bets' = DOMAIN bets \cup {b}
    BY DEF PlaceBet
  <2>. HIDE DEF row
  <2>. QED BY <2>1, <2>2, PostedRow DEF TypeOK
<1>4. HistoryTyped'
  BY <1>0 DEF PlaceBet, TypeOK, HistoryTyped
<1>. QED BY <1>1, <1>2, <1>3, <1>4 DEF PlaceBet, TypeOK

\* Voiding a ticket keeps the types.
LEMMA VoidType ==
  ASSUME TypeOK, NEW b \in DOMAIN bets, VoidBet(b)
  PROVE  TypeOK'
<1>0. /\ bets[b] \in Ticket
      /\ bets[b].fight \in DOMAIN fights
      /\ bets[b].amount \in Int
      /\ bets[b].side \in Sides
      /\ bets[b].teller \in Tellers
  BY DEF TypeOK, TicketsTyped, Ticket, Money
<1>1. FightsTyped' /\ DOMAIN fights' = DOMAIN fights
  <2>. DEFINE g == bets[b].fight
              pool == [fights[g].pool EXCEPT ![bets[b].side] = @ - bets[b].amount]
              row == [fights[g] EXCEPT !.pool = pool]
  <2>1. fights' = [fights EXCEPT ![g] = row]
    BY DEF VoidBet
  <2>2. fights[g] \in Fight
    BY <1>0 DEF TypeOK, FightsTyped
  <2>3. pool \in Pools
    BY <1>0, <2>2 DEF Fight, Pools, Money
  <2>4. row \in Fight
    <3>. HIDE DEF pool
    <3>. QED BY <2>2, <2>3 DEF Fight
  <2>. HIDE DEF row
  <2>. QED BY <1>0, <2>1, <2>4, FightWritten DEF TypeOK
<1>2. TicketsTyped' /\ DOMAIN bets' = DOMAIN bets
  BY <1>0, <1>1 DEF VoidBet, TypeOK, TicketsTyped, Ticket, TicketStatuses
<1>3. RowsTyped'
  <2>. DEFINE row == LedgerRow(bets[b].teller, "BET_VOIDED", -bets[b].amount, b)
  <2>1. row \in Row /\ row.bet = b
    BY <1>0 DEF LedgerRow, Row, TicketTypes, Ticket, TypeOK, TicketsTyped
  <2>2. ledger' = Posted({row})
    BY DEF VoidBet
  <2>. HIDE DEF row
  <2>. QED BY <1>2, <2>1, <2>2, PostedRow DEF TypeOK
<1>4. HistoryTyped'
  BY <1>0 DEF VoidBet, TypeOK, HistoryTyped
<1>. QED BY <1>1, <1>2, <1>3, <1>4 DEF VoidBet, TypeOK

\* Redeeming a ticket keeps the types.
LEMMA PayType ==
  ASSUME TypeOK, NEW b \in DOMAIN bets, PayBet(b)
  PROVE  TypeOK'
<1>0. /\ bets[b] \in Ticket
      /\ bets[b].fight \in 1 .. MaxFights
      /\ bets[b].payout \in Int
      /\ bets[b].teller \in Tellers
  BY DEF TypeOK, TicketsTyped, FightsTyped, Ticket, Money
<1>1. TicketsTyped' /\ DOMAIN bets' = DOMAIN bets
  BY <1>0 DEF PayBet, TypeOK, TicketsTyped, Ticket, TicketStatuses
<1>2. RowsTyped'
  <2>. DEFINE type == IF bets[b].status = "PENDING_REFUND" THEN "BET_REFUNDED" ELSE "PAYOUT"
              row == LedgerRow(bets[b].teller, type, -bets[b].payout, b)
  <2>1. row \in Row /\ row.bet = b
    BY <1>0 DEF LedgerRow, Row, TicketTypes, TypeOK, TicketsTyped
  <2>2. ledger' = Posted({row})
    BY DEF PayBet
  <2>. HIDE DEF row
  <2>. QED BY <1>1, <2>1, <2>2, PostedRow DEF TypeOK
<1>3. HistoryTyped'
  BY <1>0 DEF PayBet, TypeOK, HistoryTyped, Money
<1>. QED BY <1>1, <1>2, <1>3 DEF PayBet, TypeOK, FightsTyped

\* The rows a purge inserts are of no ticket, and finitely many.
LEMMA AdjustmentsTyped ==
  ASSUME RowsTyped, NEW b
  PROVE  /\ PurgeAdjustments(b) \subseteq Row /\ IsFiniteSet(PurgeAdjustments(b))
         /\ \A r \in PurgeAdjustments(b) : r.bet = NoBet
<1>. DEFINE added == PurgeAdjustments(b)
            moved(t) == SumOf(ledger, {r \in RowsOf(b) : r.teller = t})
            moving == {u \in Tellers : moved(u) # 0}
            row(t) == LedgerRow(t, "ADJUSTMENT", moved(t), NoBet)
<1>1. \A t \in Tellers : moved(t) \in Int
  <2>. SUFFICES ASSUME NEW t \in Tellers PROVE moved(t) \in Int
    OBVIOUS
  <2>1. {r \in RowsOf(b) : r.teller = t} \in SUBSET DOMAIN ledger
    BY DEF RowsOf
  <2>. QED BY <2>1, LedgerSums
<1>2. added = {row(t) : t \in moving}
  BY DEF PurgeAdjustments
<1>3. IsFiniteSet(moving)
  BY ConstantTypes, FS_Subset
<1>4. IsFiniteSet(added)
  <2>. DEFINE post == [t \in moving |-> row(t)]
  <2>1. post \in Surjection(moving, added)
    <3>. HIDE DEF moving, row, added
    <3>. QED BY <1>2 DEF Surjection
  <2>. HIDE DEF moving, post
  <2>. QED BY <1>3, <2>1, FS_Surjection
<1>5. \A t \in moving : row(t) \in Row /\ row(t).bet = NoBet
  <2>. HIDE DEF moved
  <2>. QED BY <1>1 DEF LedgerRow, Row, CashTypes
<1>. QED BY <1>2, <1>4, <1>5

\* A purge keeps the types: no row of the deleted ticket stays behind.
LEMMA PurgeType ==
  ASSUME TypeOK, NEW b \in DOMAIN bets, PurgeBet(b)
  PROVE  TypeOK'
<1>. DEFINE kept == Restrict(ledger, DOMAIN ledger \ RowsOf(b))
            added == PurgeAdjustments(b)
<1>0. RowsTyped /\ bets[b].fight \in 1 .. MaxFights /\ bets[b] \in Ticket
  BY DEF TypeOK, TicketsTyped, FightsTyped
<1>1. TicketsTyped' /\ DOMAIN bets' = DOMAIN bets \ {b}
  <2>1. bets' = [x \in DOMAIN bets \ {b} |-> bets[x]]
    BY DEF PurgeBet, Restrict
  <2>2. IsFiniteSet(DOMAIN bets \ {b})
    BY FS_Subset DEF TypeOK, TicketsTyped
  <2>. QED BY <2>1, <2>2 DEF PurgeBet, TypeOK, TicketsTyped
<1>2. added \subseteq Row /\ IsFiniteSet(added) /\ \A r \in added : r.bet = NoBet
  BY <1>0, AdjustmentsTyped
<1>3. RowsTyped'
  <2>1. DOMAIN kept = DOMAIN ledger \ RowsOf(b) /\ kept \in [DOMAIN kept -> Nat \ {0}]
    BY <1>0 DEF Restrict, RowsTyped
  <2>2. ledger' = kept (+) SetToBag(added)
    BY DEF PurgeBet
  <2>3. \A r \in DOMAIN kept : r \in Row /\ (r.bet # NoBet => r.bet \in DOMAIN bets')
    BY <1>0, <1>1, <2>1 DEF RowsTyped, RowsOf
  <2>4. IsFiniteSet(DOMAIN kept)
    BY <1>0, <2>1, FS_Subset DEF RowsTyped
  <2>. HIDE DEF kept, added
  <2>5. DOMAIN ledger' = DOMAIN kept \cup added /\ ledger' \in [DOMAIN ledger' -> Nat \ {0}]
    BY <2>1, <2>2, AddedRows
  <2>6. IsFiniteSet(DOMAIN kept \cup added)
    BY <1>2, <2>4, FS_Union
  <2>. QED BY <1>2, <2>3, <2>5, <2>6 DEF RowsTyped
<1>4. HistoryTyped'
  <2>1. bets[b].side \in Sides /\ bets[b].amount \in Int
    BY <1>0 DEF Ticket, Money
  <2>2. purged' = [purged EXCEPT ![bets[b].fight][bets[b].side] = @ + bets[b].amount]
    BY DEF PurgeBet
  <2>3. [purged[bets[b].fight] EXCEPT ![bets[b].side] = @ + bets[b].amount] \in Pools
    BY <1>0, <2>1 DEF TypeOK, HistoryTyped, Pools, Money
  <2>. QED BY <1>0, <2>2, <2>3 DEF PurgeBet, TypeOK, HistoryTyped
<1>. QED BY <1>1, <1>3, <1>4 DEF PurgeBet, TypeOK, FightsTyped

\* Advances and remits keep the types.
LEMMA AdvanceType ==
  ASSUME TypeOK, NEW t \in Tellers, NEW amount \in CashAmounts,
         CashAdvance(t, amount) \/ CashRemit(t, amount)
  PROVE  TypeOK'
<1>0. amount \in Int /\ -amount \in Int
  BY ConstantTypes
<1>. DEFINE in == LedgerRow(t, "CASH_ADVANCE", amount, NoBet)
            out == LedgerRow(t, "REMIT", -amount, NoBet)
<1>1. in \in Row /\ out \in Row /\ in.bet = NoBet /\ out.bet = NoBet
  BY <1>0 DEF LedgerRow, Row, CashTypes
<1>2. RowsTyped'
  <2>1. ledger' = Posted({in}) \/ ledger' = Posted({out})
    BY DEF CashAdvance, CashRemit
  <2>2. bets' = bets
    BY DEF CashAdvance, CashRemit
  <2>. HIDE DEF in, out
  <2>. QED BY <1>1, <2>1, <2>2, PostedRow DEF TypeOK
<1>3. HistoryTyped'
  BY <1>0 DEF CashAdvance, CashRemit, TypeOK, HistoryTyped
<1>. QED BY <1>2, <1>3 DEF CashAdvance, CashRemit, TypeOK, FightsTyped, TicketsTyped

\* Deleting a remit keeps the types.
LEMMA DeleteType ==
  ASSUME TypeOK, NEW r \in DOMAIN ledger, DeleteRemit(r)
  PROVE  TypeOK'
<1>. DEFINE rest == ledger (-) SetToBag({r})
            row == LedgerRow(r.teller, "ADJUSTMENT", r.amount, NoBet)
<1>1. RowsTyped /\ r \in Row
  BY DEF TypeOK, RowsTyped
<1>2. row \in Row /\ row.bet = NoBet
  BY <1>1 DEF LedgerRow, Row, CashTypes
<1>3. DOMAIN rest \subseteq DOMAIN ledger /\ rest \in [DOMAIN rest -> Nat \ {0}]
  BY <1>1, TakenRow DEF RowsTyped
<1>4. ledger' = rest (+) SetToBag({row})
  BY DEF DeleteRemit
<1>5. RowsTyped'
  <2>. HIDE DEF rest, row
  <2>1. DOMAIN ledger' = DOMAIN rest \cup {row} /\ ledger' \in [DOMAIN ledger' -> Nat \ {0}]
    BY <1>3, <1>4, AddedRows
  <2>2. IsFiniteSet(DOMAIN rest)
    BY <1>1, <1>3, FS_Subset DEF RowsTyped
  <2>3. IsFiniteSet(DOMAIN rest \cup {row})
    BY <2>2, FS_AddElement
  <2>4. bets' = bets
    BY DEF DeleteRemit
  <2>. QED BY <1>1, <1>2, <1>3, <2>1, <2>3, <2>4 DEF RowsTyped
<1>. QED BY <1>5 DEF DeleteRemit, TypeOK, FightsTyped, TicketsTyped, HistoryTyped, history

\* A change of the commission rate keeps the types.
LEMMA SettingType ==
  ASSUME TypeOK, NEW r \in Rates, UpdateSetting(r)
  PROVE  TypeOK'
BY DEF UpdateSetting, TypeOK, FightsTyped, TicketsTyped, RowsTyped, HistoryTyped, history

\* Type correctness is inductive.
LEMMA NextType == TypeOK /\ [Next]_vars => TypeOK'
<1>. SUFFICES ASSUME TypeOK, [Next]_vars PROVE TypeOK'
  OBVIOUS
<1>1. CASE Tuning
  BY <1>1, SettingType DEF Tuning
<1>2. CASE Lifecycle
  <2>1. \A s \in {"OPEN", "LAST_CALL", "CLOSED"} : s \in FightStatuses
    BY DEF FightStatuses
  <2>. QED BY <1>2, <2>1, CreateType, MoveType
       DEF Lifecycle, CloseFight, ReopenFight, SetFightLastCall, ResumeFightOpen
<1>3. CASE Holding
  BY <1>3, ToggleType DEF Holding
<1>4. CASE Betting
  BY <1>4, PlaceType, VoidType DEF Betting
<1>5. CASE Declaring
  BY <1>5, CancelType, SettleType DEF Declaring
<1>6. CASE Paying
  BY <1>6, PayType DEF Paying
<1>7. CASE Correcting
  BY <1>7, CorrectType DEF Correcting
<1>8. CASE Reverting
  BY <1>8, UnsettleType DEF Reverting
<1>9. CASE Purging
  BY <1>9, PurgeType DEF Purging
<1>10. CASE Cash
  BY <1>10, AdvanceType, DeleteType DEF Cash
<1>11. CASE UNCHANGED vars
  BY <1>11 DEF vars, TypeOK, FightsTyped, TicketsTyped, RowsTyped, HistoryTyped
<1>. QED BY <1>1, <1>2, <1>3, <1>4, <1>5, <1>6, <1>7, <1>8, <1>9, <1>10, <1>11 DEF Next

(***************************************************************************)
(* Every table keeps rows of its type, and no ticket or ledger row ever    *)
(* refers to a fight or a ticket that is gone, whatever operations the     *)
(* services carry out.                                                     *)
(***************************************************************************)
THEOREM TypeCorrect == Spec => []TypeOK
<1>1. Init => TypeOK
  BY InitType
<1>2. TypeOK /\ [Next]_vars => TypeOK'
  BY NextType
<1>. QED BY <1>1, <1>2, PTL DEF Spec

-----------------------------------------------------------------------------

Unfinished == LiveStatuses \cup {"CLOSED"}

\* A step that turns no finished fight into an unfinished one.
LEMMA NothingReopened ==
  ASSUME OneUnfinishedFight, DOMAIN fights' = DOMAIN fights,
         \A f \in DOMAIN fights :
           fights'[f].status \in Unfinished => fights[f].status \in Unfinished
  PROVE  OneUnfinishedFight'
BY DEF OneUnfinishedFight, FightsIn, Unfinished, LiveStatuses

\* The strengthening is inductive as long as nothing is reverted.
LEMMA NextUnfinished ==
  TypeOK /\ OneUnfinishedFight /\ [NoRevertNext]_vars => OneUnfinishedFight'
<1>. SUFFICES ASSUME TypeOK, OneUnfinishedFight, [NoRevertNext]_vars
              PROVE  OneUnfinishedFight'
  OBVIOUS
<1>. DEFINE Same == fights' = fights
            Kept == /\ DOMAIN fights' = DOMAIN fights
                    /\ \A f \in DOMAIN fights :
                         fights'[f].status \in Unfinished => fights[f].status \in Unfinished
<1>0. /\ \A f \in DOMAIN fights : fights[f] \in Fight
      /\ DOMAIN fights \subseteq Nat
  BY ConstantTypes DEF TypeOK, FightsTyped
<1>1. CASE CreateFight
  <2>1. PICK n \in 1 .. MaxFights :
          /\ \A f \in DOMAIN fights : f < n
          /\ fights' = [f \in DOMAIN fights \cup {n} |->
                          IF f = n THEN NewFight(setting) ELSE fights[f]]
    BY <1>1 DEF CreateFight, IsNextNumber
  <2>2. \A f \in DOMAIN fights : fights'[f].status \notin Unfinished
    BY <1>1, <2>1, ConstantTypes DEF CreateFight, NoUnfinishedFight, FightsIn, Unfinished, LiveStatuses
  <2>. QED BY <1>0, <2>1, <2>2, ConstantTypes
       DEF OneUnfinishedFight, FightsIn, Unfinished, LiveStatuses
<1>2. ASSUME NEW f \in DOMAIN fights, NEW from, NEW to, MoveFight(f, from, to),
             from \subseteq Unfinished
      PROVE  Kept
  BY <1>2 DEF MoveFight
<1>3. CASE Lifecycle
  <2>1. LiveStatuses \subseteq Unfinished /\ \A s \in {"OPEN", "LAST_CALL", "CLOSED"} : s \in Unfinished
    BY DEF Unfinished, LiveStatuses
  <2>2. CreateFight \/ Kept
    BY <1>2, <1>3, <2>1 DEF Lifecycle, CloseFight, ReopenFight, SetFightLastCall, ResumeFightOpen
  <2>. QED BY <1>1, <2>2, NothingReopened
<1>4. CASE Holding
  <2>1. Kept
    BY <1>0, <1>4 DEF Holding, ToggleSide, Fight
  <2>. QED BY <2>1, NothingReopened
<1>5. CASE Betting
  <2>1. ASSUME NEW b, NEW f \in DOMAIN fights, NEW t, NEW s, NEW a, PlaceBet(b, f, t, s, a)
        PROVE  Kept
    BY <1>0, <2>1 DEF PlaceBet, Fight
  <2>2. ASSUME NEW b \in DOMAIN bets, VoidBet(b) PROVE Kept
    <3>1. bets[b].fight \in DOMAIN fights
      BY DEF TypeOK, TicketsTyped
    <3>. QED BY <1>0, <2>2, <3>1 DEF VoidBet, Fight
  <2>. QED BY <1>5, <2>1, <2>2, NothingReopened DEF Betting
<1>6. CASE Declaring
  <2>1. ASSUME NEW f \in DOMAIN fights, NEW o \in Outcomes, SettleFight(f, o) PROVE Kept
    BY <1>0, <2>1 DEF SettleFight, Fight, Unfinished, LiveStatuses
  <2>2. ASSUME NEW f \in DOMAIN fights, CancelFight(f) PROVE Kept
    BY <1>0, <2>2 DEF CancelFight, Fight, Unfinished, LiveStatuses
  <2>. QED BY <1>6, <2>1, <2>2, NothingReopened DEF Declaring
<1>7. CASE Correcting
  <2>1. Kept
    BY <1>0, <1>7 DEF Correcting, CorrectFight, Fight
  <2>. QED BY <2>1, NothingReopened
<1>8. CASE Tuning \/ Paying \/ Purging \/ Cash \/ UNCHANGED vars
  <2>1. fights' = fights
    BY <1>8 DEF Tuning, Paying, Purging, Cash, UpdateSetting, PayBet, PurgeBet,
                CashAdvance, CashRemit, DeleteRemit, vars
  <2>. QED BY <2>1, NothingReopened
<1>. QED BY <1>3, <1>4, <1>5, <1>6, <1>7, <1>8 DEF NoRevertNext

(***************************************************************************)
(* createFight under the advisory lock is enough to keep one unfinished    *)
(* fight, and it the latest, in every session in which no declaration is   *)
(* reverted: reopenFight, which checks nothing, then has only that one.    *)
(***************************************************************************)
THEOREM OneUnfinished == NoRevertSpec => []OneUnfinishedFight
<1>1. Init => TypeOK /\ OneUnfinishedFight
  BY InitType DEF Init, OneUnfinishedFight, FightsIn
<1>2. TypeOK /\ [NoRevertNext]_vars => TypeOK'
  BY NextType DEF NoRevertNext, Next
<1>3. TypeOK /\ OneUnfinishedFight /\ [NoRevertNext]_vars => OneUnfinishedFight'
  BY NextUnfinished
<1>. QED BY <1>1, <1>2, <1>3, PTL DEF NoRevertSpec

-----------------------------------------------------------------------------
(* Pools: the invariant is strengthened by one fact about the history.     *)
(* Nothing was ever purged from a fight that does not exist yet, so a new  *)
(* fight's empty pools match.                                              *)

\* The summands of StakesOn, and the tickets it sums over.
Amounts == [b \in DOMAIN bets |-> bets[b].amount]
StakedOn(f, s) == {b \in TicketsOf(f) : bets[b].side = s /\ bets[b].status # "VOIDED"}

\* No stake was purged from a fight that does not exist yet.
NothingPurgedEarly ==
  \A f \in 1 .. MaxFights : f \notin DOMAIN fights => \A s \in Sides : purged[f][s] = 0

\* The inductive invariant.
PoolInv == TypeOK /\ PoolsMatchStakes /\ NothingPurgedEarly

\* The stakes on a side, as a sum over the tickets that count.
LEMMA StakesAreSums ==
  \A f, s : StakesOn(f, s) = SumFunctionOnSet(Amounts, StakedOn(f, s))
BY DEF StakesOn, Amounts, StakedOn

\* The tickets that count are finitely many and their amounts are numbers.
LEMMA StakedFinite ==
  ASSUME TicketsTyped, NEW f, NEW s
  PROVE  /\ IsFiniteSet(StakedOn(f, s))
         /\ StakedOn(f, s) \subseteq DOMAIN bets
         /\ \A b \in DOMAIN bets : Amounts[b] = bets[b].amount /\ Amounts[b] \in Int
         /\ SumFunctionOnSet(Amounts, StakedOn(f, s)) \in Int
<1>1. StakedOn(f, s) \subseteq DOMAIN bets
  BY DEF StakedOn, TicketsOf
<1>2. \A b \in DOMAIN bets : Amounts[b] = bets[b].amount /\ Amounts[b] \in Int
  BY DEF TicketsTyped, Ticket, Money, Amounts
<1>3. IsFiniteSet(StakedOn(f, s))
  BY <1>1, FS_Subset DEF TicketsTyped
<1>4. \A b \in StakedOn(f, s) : Amounts[b] \in Int
  BY <1>1, <1>2
<1>. QED BY <1>1, <1>2, <1>3, <1>4, SumInt

\* A step that keeps what a stake counts for keeps every sum of stakes.
LEMMA SameStakes ==
  ASSUME TicketsTyped, DOMAIN bets' = DOMAIN bets,
         \A b \in DOMAIN bets : /\ SameBet(bets'[b], bets[b])
                                /\ bets'[b].status = "VOIDED" <=> bets[b].status = "VOIDED",
         NEW f, NEW s
  PROVE  StakesOn(f, s)' = StakesOn(f, s)
<1>1. StakedOn(f, s)' = StakedOn(f, s)
  BY DEF StakedOn, TicketsOf, SameBet
<1>2. \A b \in StakedOn(f, s) : Amounts'[b] = Amounts[b]
  BY DEF StakedOn, TicketsOf, SameBet, Amounts
<1>3. SumFunctionOnSet(Amounts', StakedOn(f, s)) = SumFunctionOnSet(Amounts, StakedOn(f, s))
  BY <1>2, StakedFinite, SumSame
<1>4. StakesOn(f, s)' = SumFunctionOnSet(Amounts', StakedOn(f, s)')
  BY DEF StakesOn, Amounts, StakedOn
<1>. QED BY <1>1, <1>3, <1>4, StakesAreSums

\* No plan of lib/fight-settlement.js voids a ticket or revives a void one.
LEMMA PlansKeepVoids ==
  ASSUME NEW bet, NEW o, NEW ratios,
         NEW p \in {SettledTicket(o, ratios, bet), CorrectedTicket(o, ratios, bet),
                    CancelledTicket(bet), UnsettledTicket(bet), bet},
         bet \in Ticket
  PROVE  p.status = "VOIDED" <=> bet.status = "VOIDED"
<1>1. CASE p = SettledTicket(o, ratios, bet)
  BY <1>1 DEF SettledTicket, TargetStatus, Ticket
<1>2. CASE p = CorrectedTicket(o, ratios, bet)
  BY <1>2 DEF CorrectedTicket, CorrectionSkips, TargetStatus, Ticket
<1>3. CASE p = CancelledTicket(bet)
  BY <1>3 DEF CancelledTicket, Ticket
<1>4. CASE p = UnsettledTicket(bet)
  BY <1>4 DEF UnsettledTicket, Ticket
<1>. QED BY <1>1, <1>2, <1>3, <1>4

\* One stake more on one side of one fight.
LEMMA StakeAdded ==
  ASSUME TicketsTyped, NEW b, b \notin DOMAIN bets, NEW ticket,
         ticket.amount \in Int, ticket.status # "VOIDED",
         bets' = [x \in DOMAIN bets \cup {b} |-> IF x = b THEN ticket ELSE bets[x]],
         NEW f, NEW s
  PROVE  StakesOn(f, s)' = IF ticket.fight = f /\ ticket.side = s
                           THEN ticket.amount + StakesOn(f, s) ELSE StakesOn(f, s)
<1>1. /\ \A x \in DOMAIN bets : Amounts'[x] = Amounts[x]
      /\ Amounts'[b] = ticket.amount
  BY DEF Amounts
<1>2. StakedOn(f, s)' = IF ticket.fight = f /\ ticket.side = s
                       THEN StakedOn(f, s) \cup {b} ELSE StakedOn(f, s)
  BY DEF StakedOn, TicketsOf
<1>3. StakesOn(f, s)' = SumFunctionOnSet(Amounts', StakedOn(f, s)')
  BY DEF StakesOn, Amounts, StakedOn
<1>4. SumFunctionOnSet(Amounts', StakedOn(f, s)) = SumFunctionOnSet(Amounts, StakedOn(f, s))
  BY <1>1, StakedFinite, SumSame
<1>5. SumFunctionOnSet(Amounts', StakedOn(f, s) \cup {b})
        = Amounts'[b] + SumFunctionOnSet(Amounts', StakedOn(f, s))
  <2>1. \A x \in StakedOn(f, s) : Amounts'[x] \in Int
    BY <1>1, StakedFinite
  <2>2. b \notin StakedOn(f, s) /\ Amounts'[b] \in Int /\ IsFiniteSet(StakedOn(f, s))
    BY <1>1, StakedFinite
  <2>. QED BY <2>1, <2>2, SumAdd
<1>. QED BY <1>1, <1>2, <1>3, <1>4, <1>5, StakesAreSums

\* One stake less: a ticket voided, or deleted.
LEMMA StakeTaken ==
  ASSUME TicketsTyped, NEW b \in DOMAIN bets, bets[b].status # "VOIDED",
         DOMAIN bets' \subseteq DOMAIN bets, DOMAIN bets \ {b} \subseteq DOMAIN bets',
         \A x \in DOMAIN bets \ {b} : bets'[x] = bets[x],
         b \in DOMAIN bets' => bets'[b].status = "VOIDED",
         NEW f, NEW s
  PROVE  StakesOn(f, s)' = IF bets[b].fight = f /\ bets[b].side = s
                           THEN StakesOn(f, s) - bets[b].amount ELSE StakesOn(f, s)
<1>1. StakedOn(f, s)' = StakedOn(f, s) \ {b}
  BY DEF StakedOn, TicketsOf
<1>2. \A x \in StakedOn(f, s) \ {b} : Amounts'[x] = Amounts[x]
  BY DEF StakedOn, TicketsOf, Amounts
<1>3. StakesOn(f, s)' = SumFunctionOnSet(Amounts', StakedOn(f, s)')
  BY DEF StakesOn, Amounts, StakedOn
<1>4. IsFiniteSet(StakedOn(f, s) \ {b})
  BY StakedFinite, FS_Subset
<1>5. StakesOn(f, s)' = SumFunctionOnSet(Amounts, StakedOn(f, s) \ {b})
  BY <1>1, <1>2, <1>3, <1>4, SumSame
<1>6. b \in StakedOn(f, s) <=> bets[b].fight = f /\ bets[b].side = s
  BY DEF StakedOn, TicketsOf
<1>7. CASE b \in StakedOn(f, s)
  <2>1. \A x \in StakedOn(f, s) : Amounts[x] \in Int
    BY StakedFinite
  <2>2. SumFunctionOnSet(Amounts, StakedOn(f, s))
          = Amounts[b] + SumFunctionOnSet(Amounts, StakedOn(f, s) \ {b})
    BY <1>7, <2>1, StakedFinite, SumRemove
  <2>3. SumFunctionOnSet(Amounts, StakedOn(f, s) \ {b}) \in Int
    BY <1>4, <2>1, SumInt
  <2>4. Amounts[b] = bets[b].amount /\ Amounts[b] \in Int
    BY StakedFinite
  <2>. QED BY <1>5, <1>6, <1>7, <2>2, <2>3, <2>4, StakesAreSums
<1>8. CASE b \notin StakedOn(f, s)
  <2>1. StakedOn(f, s) \ {b} = StakedOn(f, s)
    BY <1>8
  <2>. QED BY <1>5, <1>6, <1>8, <2>1, StakesAreSums
<1>. QED BY <1>7, <1>8

\* Nobody can have bet on a fight that is not there.
LEMMA NoStakesYet ==
  ASSUME TicketsTyped, NEW f, f \notin DOMAIN fights, NEW s
  PROVE  StakesOn(f, s) = 0
<1>1. StakedOn(f, s) = {}
  BY DEF StakedOn, TicketsOf, TicketsTyped
<1>. QED BY <1>1, StakesAreSums, SumEmpty

\* Stakes are a number.
LEMMA StakesInt ==
  ASSUME TicketsTyped, NEW f, NEW s PROVE StakesOn(f, s) \in Int
BY StakedFinite, StakesAreSums

-----------------------------------------------------------------------------

\* The steps that leave pools and stakes alone.
LEMMA PoolsKept ==
  ASSUME PoolInv, DOMAIN bets' = DOMAIN bets, DOMAIN fights' = DOMAIN fights,
         \A b \in DOMAIN bets : /\ SameBet(bets'[b], bets[b])
                                /\ bets'[b].status = "VOIDED" <=> bets[b].status = "VOIDED",
         \A f \in DOMAIN fights : fights'[f].pool = fights[f].pool,
         purged' = purged
  PROVE  PoolsMatchStakes' /\ NothingPurgedEarly'
<1>1. \A f, s : StakesOn(f, s)' = StakesOn(f, s)
  BY SameStakes DEF PoolInv, TypeOK
<1>. QED BY <1>1 DEF PoolInv, PoolsMatchStakes, NothingPurgedEarly

\* The steps that write no ticket at all.
LEMMA PoolsKeptIdle ==
  ASSUME PoolInv, bets' = bets, DOMAIN fights' = DOMAIN fights,
         \A f \in DOMAIN fights : fights'[f].pool = fights[f].pool,
         purged' = purged
  PROVE  PoolsMatchStakes' /\ NothingPurgedEarly'
BY PoolsKept DEF SameBet

\* A new fight starts with empty pools and no stakes.
LEMMA CreatePools ==
  ASSUME PoolInv, CreateFight
  PROVE  PoolsMatchStakes' /\ NothingPurgedEarly'
<1>1. PICK n \in 1 .. MaxFights :
        /\ n \notin DOMAIN fights
        /\ fights' = [f \in DOMAIN fights \cup {n} |->
                        IF f = n THEN NewFight(setting) ELSE fights[f]]
  BY ConstantTypes DEF CreateFight, IsNextNumber
<1>2. bets' = bets /\ purged' = purged
  BY DEF CreateFight, history
<1>3. \A f, s : StakesOn(f, s)' = StakesOn(f, s)
  BY <1>2, SameStakes DEF PoolInv, TypeOK, SameBet
<1>4. \A s \in Sides : StakesOn(n, s) = 0 /\ purged[n][s] = 0 /\ fights'[n].pool[s] = 0
  BY <1>1, NoStakesYet DEF PoolInv, TypeOK, NothingPurgedEarly, NewFight
<1>5. PoolsMatchStakes'
  BY <1>1, <1>2, <1>3, <1>4 DEF PoolInv, PoolsMatchStakes
<1>6. NothingPurgedEarly'
  BY <1>1, <1>2 DEF PoolInv, NothingPurgedEarly
<1>. QED BY <1>5, <1>6

\* Placing a bet adds the stake on both sides of the equation.
LEMMA PlacePools ==
  ASSUME PoolInv, NEW b \in BetIds, NEW f \in DOMAIN fights, NEW t \in Tellers,
         NEW side \in Sides, NEW amount \in Stakes, PlaceBet(b, f, t, side, amount)
  PROVE  PoolsMatchStakes' /\ NothingPurgedEarly'
<1>. DEFINE ticket == NewTicket(f, t, side, amount)
<1>1. TicketsTyped /\ fights[f] \in Fight /\ DOMAIN fights' = DOMAIN fights
  BY DEF PoolInv, TypeOK, FightsTyped, PlaceBet
<1>2. ticket.amount = amount /\ ticket.fight = f /\ ticket.side = side
      /\ ticket.status # "VOIDED" /\ amount \in Int
  BY ConstantTypes DEF NewTicket
<1>3. b \notin DOMAIN bets /\ purged' = purged
      /\ bets' = [x \in DOMAIN bets \cup {b} |-> IF x = b THEN ticket ELSE bets[x]]
  BY DEF PlaceBet
<1>4. \A g, s : StakesOn(g, s)' = IF f = g /\ side = s
                                  THEN amount + StakesOn(g, s) ELSE StakesOn(g, s)
  <2>. HIDE DEF ticket
  <2>. QED BY <1>1, <1>2, <1>3, StakeAdded
<1>5. \A g \in DOMAIN fights, s \in Sides :
        fights'[g].pool[s] = IF f = g /\ side = s
                             THEN fights[g].pool[s] + amount ELSE fights[g].pool[s]
  <2>1. fights' = [fights EXCEPT ![f].pool[side] = @ + amount]
    BY DEF PlaceBet
  <2>2. \A g \in DOMAIN fights : fights[g].pool \in Pools /\ fights[g] \in Fight
    BY DEF PoolInv, TypeOK, FightsTyped, Fight
  <2>. QED BY <2>1, <2>2 DEF Fight, Pools
<1>6. \A g \in DOMAIN fights, s \in Sides :
        fights[g].pool[s] \in Int /\ purged[g][s] \in Int /\ StakesOn(g, s) \in Int
  BY <1>1, StakesInt DEF PoolInv, TypeOK, FightsTyped, HistoryTyped, Fight, Pools, Money
<1>7. PoolsMatchStakes'
  <2>. SUFFICES ASSUME NEW g \in DOMAIN fights, NEW s \in Sides
                PROVE  fights'[g].pool[s] = StakesOn(g, s)' + purged'[g][s]
    BY <1>1 DEF PoolsMatchStakes
  <2>1. fights[g].pool[s] = StakesOn(g, s) + purged[g][s] /\ purged' = purged
    BY <1>3 DEF PoolInv, PoolsMatchStakes
  <2>. QED BY <1>2, <1>4, <1>5, <1>6, <2>1
<1>. QED BY <1>1, <1>3, <1>7 DEF PoolInv, NothingPurgedEarly

\* Voiding it takes the stake from both.
LEMMA VoidPools ==
  ASSUME PoolInv, NEW b \in DOMAIN bets, VoidBet(b)
  PROVE  PoolsMatchStakes' /\ NothingPurgedEarly'
<1>. DEFINE f == bets[b].fight  side == bets[b].side  amount == bets[b].amount
<1>1. /\ TicketsTyped /\ f \in DOMAIN fights /\ side \in Sides /\ amount \in Int
      /\ fights[f] \in Fight /\ DOMAIN fights' = DOMAIN fights
  BY DEF PoolInv, TypeOK, FightsTyped, TicketsTyped, Ticket, Money, VoidBet
<1>2. /\ DOMAIN bets' = DOMAIN bets /\ bets'[b].status = "VOIDED"
      /\ bets[b].status # "VOIDED" /\ purged' = purged
      /\ \A x \in DOMAIN bets \ {b} : bets'[x] = bets[x]
  BY DEF VoidBet, PoolInv, TypeOK, TicketsTyped, Ticket
<1>4. \A g, s : StakesOn(g, s)' = IF f = g /\ side = s
                                  THEN StakesOn(g, s) - amount ELSE StakesOn(g, s)
  BY <1>1, <1>2, StakeTaken
<1>5. \A g \in DOMAIN fights, s \in Sides :
        fights'[g].pool[s] = IF f = g /\ side = s
                             THEN fights[g].pool[s] - amount ELSE fights[g].pool[s]
  BY <1>1 DEF VoidBet, PoolInv, TypeOK, FightsTyped, Fight, Pools
<1>6. \A g \in DOMAIN fights, s \in Sides :
        fights[g].pool[s] \in Int /\ purged[g][s] \in Int /\ StakesOn(g, s) \in Int
  BY <1>1, StakesInt DEF PoolInv, TypeOK, FightsTyped, HistoryTyped, Fight, Pools, Money
<1>7. PoolsMatchStakes'
  <2>. HIDE DEF f, side, amount
  <2>. SUFFICES ASSUME NEW g \in DOMAIN fights, NEW s \in Sides
                PROVE  fights'[g].pool[s] = StakesOn(g, s)' + purged'[g][s]
    BY <1>1 DEF PoolsMatchStakes
  <2>1. fights[g].pool[s] = StakesOn(g, s) + purged[g][s] /\ purged' = purged
    BY <1>2 DEF PoolInv, PoolsMatchStakes
  <2>. QED BY <1>1, <1>4, <1>5, <1>6, <2>1
<1>. QED BY <1>1, <1>2, <1>7 DEF PoolInv, NothingPurgedEarly

\* A purge takes it from the tickets and adds it to the purged stakes.
LEMMA PurgePools ==
  ASSUME PoolInv, NEW b \in DOMAIN bets, PurgeBet(b)
  PROVE  PoolsMatchStakes' /\ NothingPurgedEarly'
<1>. DEFINE f == bets[b].fight  side == bets[b].side  amount == bets[b].amount
<1>1. /\ TicketsTyped /\ f \in DOMAIN fights /\ side \in Sides /\ amount \in Int
      /\ fights' = fights /\ DOMAIN fights \subseteq 1 .. MaxFights
  BY DEF PoolInv, TypeOK, FightsTyped, TicketsTyped, Ticket, Money, PurgeBet
<1>2. /\ DOMAIN bets' = DOMAIN bets \ {b}
      /\ bets[b].status # "VOIDED"
      /\ \A x \in DOMAIN bets \ {b} : bets'[x] = bets[x]
  BY DEF PurgeBet, Restrict
<1>4. \A g, s : StakesOn(g, s)' = IF f = g /\ side = s
                                  THEN StakesOn(g, s) - amount ELSE StakesOn(g, s)
  BY <1>1, <1>2, StakeTaken
<1>5. \A g \in DOMAIN fights, s \in Sides :
        purged'[g][s] = IF f = g /\ side = s
                        THEN purged[g][s] + amount ELSE purged[g][s]
  BY <1>1 DEF PurgeBet, PoolInv, TypeOK, HistoryTyped, Pools
<1>6. \A g \in DOMAIN fights, s \in Sides :
        purged[g][s] \in Int /\ StakesOn(g, s) \in Int
  BY <1>1, StakesInt DEF PoolInv, TypeOK, HistoryTyped, Pools, Money
<1>7. PoolsMatchStakes'
  <2>. HIDE DEF f, side, amount
  <2>. QED BY <1>1, <1>4, <1>5, <1>6 DEF PoolInv, PoolsMatchStakes
<1>8. \A g \in 1 .. MaxFights : g \notin DOMAIN fights => purged'[g] = purged[g]
  BY <1>1 DEF PurgeBet, PoolInv, TypeOK, HistoryTyped
<1>. QED BY <1>1, <1>7, <1>8 DEF PoolInv, NothingPurgedEarly

\* The steps that rewrite the tickets of one fight by a plan.
LEMMA PlanPools ==
  ASSUME PoolInv, NEW f \in DOMAIN fights,
         \/ \E o \in Outcomes : SettleFight(f, o) \/ CorrectFight(f, o)
         \/ CancelFight(f)
         \/ UnsettleFight(f)
  PROVE  PoolsMatchStakes' /\ NothingPurgedEarly'
<1>1. /\ \A b \in DOMAIN bets : bets[b] \in Ticket
      /\ \A g \in DOMAIN fights : fights[g] \in Fight
  BY DEF PoolInv, TypeOK, TicketsTyped, FightsTyped
<1>2. /\ DOMAIN bets' = DOMAIN bets /\ DOMAIN fights' = DOMAIN fights
      /\ purged' = purged
  BY DEF SettleFight, CorrectFight, CancelFight, UnsettleFight, history
<1>3. \A g \in DOMAIN fights : fights'[g].pool = fights[g].pool
  <2>1. CASE \E o \in Outcomes : SettleFight(f, o)
    <3>1. PICK o \in Outcomes : SettleFight(f, o)
      BY <2>1
    <3>. DEFINE ratios == PayoutRatios(fights[f].pool, fights[f].rate, o)
                row == [fights[f] EXCEPT !.status = "SETTLED", !.outcome = o, !.ratios = ratios]
    <3>2. fights' = [fights EXCEPT ![f] = row]
      BY <3>1 DEF SettleFight
    <3>3. row.pool = fights[f].pool
      <4>. HIDE DEF ratios
      <4>. QED BY <1>1 DEF Fight
    <3>. HIDE DEF row
    <3>. QED BY <3>2, <3>3
  <2>2. CASE \E o \in Outcomes : CorrectFight(f, o)
    <3>1. PICK o \in Outcomes : CorrectFight(f, o)
      BY <2>2
    <3>. DEFINE ratios == PayoutRatios(fights[f].pool, fights[f].rate, o)
                row == [fights[f] EXCEPT !.outcome = o, !.ratios = ratios,
                                               !.prevOutcome = fights[f].outcome,
                                               !.prevRatios = fights[f].ratios]
    <3>2. fights' = [fights EXCEPT ![f] = row]
      BY <3>1 DEF CorrectFight
    <3>3. row.pool = fights[f].pool
      <4>. HIDE DEF ratios
      <4>. QED BY <1>1 DEF Fight
    <3>. HIDE DEF row
    <3>. QED BY <3>2, <3>3
  <2>3. CASE CancelFight(f)
    BY <1>1, <2>3 DEF CancelFight, Fight
  <2>4. CASE UnsettleFight(f)
    BY <1>1, <2>4 DEF UnsettleFight, Fight
  <2>. QED BY <2>1, <2>2, <2>3, <2>4
<1>4. ASSUME NEW b \in DOMAIN bets
      PROVE  /\ SameBet(bets'[b], bets[b])
             /\ bets'[b].status = "VOIDED" <=> bets[b].status = "VOIDED"
  <2>1. ASSUME NEW o, NEW ratios \in Ratios,
               bets'[b] \in {SettledTicket(o, ratios, bets[b]),
                             CorrectedTicket(o, ratios, bets[b]),
                             CancelledTicket(bets[b]), UnsettledTicket(bets[b]), bets[b]}
        PROVE  /\ SameBet(bets'[b], bets[b])
               /\ bets'[b].status = "VOIDED" <=> bets[b].status = "VOIDED"
    BY <1>1, <2>1, TicketPlans, PlansKeepVoids DEF SameBet
  <2>2. ASSUME NEW o \in Outcomes PROVE PayoutRatios(fights[f].pool, fights[f].rate, o) \in Ratios
    BY <1>1, RatioTypes DEF Fight
  <2>3. CASE \E o \in Outcomes : SettleFight(f, o)
    <3>1. PICK o \in Outcomes : SettleFight(f, o)
      BY <2>3
    <3>. DEFINE ratios == PayoutRatios(fights[f].pool, fights[f].rate, o)
    <3>2. bets'[b] \in {SettledTicket(o, ratios, bets[b]), bets[b]}
      BY <3>1 DEF SettleFight
    <3>3. ratios \in Ratios
      BY <2>2
    <3>. HIDE DEF ratios
    <3>. QED BY <2>1, <3>2, <3>3
  <2>4. CASE \E o \in Outcomes : CorrectFight(f, o)
    <3>1. PICK o \in Outcomes : CorrectFight(f, o)
      BY <2>4
    <3>. DEFINE ratios == PayoutRatios(fights[f].pool, fights[f].rate, o)
    <3>2. bets'[b] \in {CorrectedTicket(o, ratios, bets[b]), bets[b]}
      BY <3>1 DEF CorrectFight
    <3>3. ratios \in Ratios
      BY <2>2
    <3>. HIDE DEF ratios
    <3>. QED BY <2>1, <3>2, <3>3
  <2>5. CASE CancelFight(f)
    <3>1. bets'[b] \in {CancelledTicket(bets[b]), bets[b]}
      BY <2>5 DEF CancelFight
    <3>. QED BY <2>1, <3>1, NewRows
  <2>6. CASE UnsettleFight(f)
    <3>1. bets'[b] \in {UnsettledTicket(bets[b]), bets[b]}
      BY <2>6 DEF UnsettleFight
    <3>. QED BY <2>1, <3>1, NewRows
  <2>. QED BY <2>3, <2>4, <2>5, <2>6
<1>. QED BY <1>2, <1>3, <1>4, PoolsKept

\* The pool invariant is inductive.
LEMMA NextPools == PoolInv /\ [Next]_vars => PoolInv'
<1>. SUFFICES ASSUME PoolInv, [Next]_vars
              PROVE  PoolsMatchStakes' /\ NothingPurgedEarly'
  BY NextType DEF PoolInv
<1>0. /\ \A b \in DOMAIN bets : bets[b] \in Ticket
      /\ \A g \in DOMAIN fights : fights[g] \in Fight
  BY DEF PoolInv, TypeOK, TicketsTyped, FightsTyped
<1>1. CASE Tuning \/ Cash \/ UNCHANGED vars
  <2>1. fights' = fights /\ bets' = bets /\ purged' = purged
    BY <1>1 DEF Tuning, Cash, UpdateSetting, CashAdvance, CashRemit, DeleteRemit, vars, history
  <2>. QED BY <2>1, PoolsKeptIdle
<1>2. ASSUME NEW f \in DOMAIN fights, NEW from, NEW to, MoveFight(f, from, to)
      PROVE  PoolsMatchStakes' /\ NothingPurgedEarly'
  <2>1. /\ bets' = bets /\ purged' = purged /\ DOMAIN fights' = DOMAIN fights
        /\ \A g \in DOMAIN fights : fights'[g].pool = fights[g].pool
    BY <1>0, <1>2 DEF MoveFight, history, Fight
  <2>. QED BY <2>1, PoolsKeptIdle
<1>3. CASE Lifecycle
  BY <1>2, <1>3, CreatePools
     DEF Lifecycle, CloseFight, ReopenFight, SetFightLastCall, ResumeFightOpen
<1>4. CASE Holding
  <2>1. PICK f \in DOMAIN fights, side \in Sides, a \in BOOLEAN : ToggleSide(f, side, a)
    BY <1>4 DEF Holding
  <2>2. /\ bets' = bets /\ purged' = purged /\ DOMAIN fights' = DOMAIN fights
        /\ \A g \in DOMAIN fights : fights'[g].pool = fights[g].pool
    BY <1>0, <2>1 DEF ToggleSide, history, Fight
  <2>. QED BY <2>2, PoolsKeptIdle
<1>5. CASE Betting
  BY <1>5, PlacePools, VoidPools DEF Betting
<1>6. CASE Declaring \/ Correcting \/ Reverting
  BY <1>6, PlanPools DEF Declaring, Correcting, Reverting
<1>7. CASE Paying
  <2>1. PICK b \in DOMAIN bets : PayBet(b)
    BY <1>7 DEF Paying
  <2>2. /\ fights' = fights /\ purged' = purged /\ DOMAIN bets' = DOMAIN bets
        /\ \A x \in DOMAIN bets : /\ SameBet(bets'[x], bets[x])
                                  /\ bets'[x].status = "VOIDED" <=> bets[x].status = "VOIDED"
    BY <1>0, <2>1 DEF PayBet, SameBet, Ticket
  <2>. QED BY <2>2, PoolsKept
<1>8. CASE Purging
  BY <1>8, PurgePools DEF Purging
<1>. QED BY <1>1, <1>3, <1>4, <1>5, <1>6, <1>7, <1>8 DEF Next

(***************************************************************************)
(* Whatever is placed, voided, purged, settled, corrected and reverted, on *)
(* however many fights, the running totals settlement reads from the fight *)
(* row are the sums of the stakes they stand for.                          *)
(***************************************************************************)
THEOREM PoolsAreSums == Spec => []PoolsMatchStakes
<1>1. Init => PoolInv
  BY InitType DEF Init, PoolInv, PoolsMatchStakes, NothingPurgedEarly
<1>2. PoolInv /\ [Next]_vars => PoolInv'
  BY NextPools
<1>3. PoolInv => PoolsMatchStakes
  BY DEF PoolInv
<1>. QED BY <1>1, <1>2, <1>3, PTL DEF Spec

-----------------------------------------------------------------------------
(* Tickets                                                                 *)


\* A settled fight has a result.
SettledHasOutcome ==
  \A f \in DOMAIN fights : fights[f].status = "SETTLED" => fights[f].outcome \in Outcomes

TicketInv == TypeOK /\ SettledHasOutcome /\ TicketsFollowFight

-----------------------------------------------------------------------------
(* One ticket and its fight, before and after                              *)

\* A void ticket is out of the game.
LEMMA FitsVoid ==
  ASSUME NEW p, NEW row, p.status = "VOIDED" PROVE TicketFitsFight(p, row)
BY DEF TicketFitsFight

\* While no result is declared, nothing on the fight row matters to a ticket.
LEMMA FitsUnfinished ==
  ASSUME NEW bet, NEW row, NEW new, row.status \in Unfinished, new.status \in Unfinished,
         TicketFitsFight(bet, row)
  PROVE  TicketFitsFight(bet, new)
BY DEF TicketFitsFight, Unfinished, LiveStatuses

LEMMA FitsSettled ==
  ASSUME NEW bet \in Ticket, NEW o \in Outcomes, NEW ratios, NEW row, NEW new,
         row.status = "CLOSED", TicketFitsFight(bet, row),
         new.status = "SETTLED", new.outcome = o, new.ratios = ratios
  PROVE  TicketFitsFight(SettledTicket(o, ratios, bet), new)
<1>. DEFINE p == SettledTicket(o, ratios, bet)
<1>. SUFFICES TicketFitsFight(p, new)
  OBVIOUS
<1>1. CASE bet.status = "VOIDED"
  BY <1>1 DEF TicketFitsFight, SettledTicket
<1>2. CASE bet.status # "VOIDED"
  <2>1. /\ p.status = TargetStatus(o, bet) /\ p.payout = TargetPayout(o, ratios, bet)
        /\ p.side = bet.side /\ p.amount = bet.amount
    BY <1>2 DEF SettledTicket, Ticket
  <2>2. p.status \in {"WON", "LOST", "PENDING_REFUND"}
    BY <2>1 DEF TargetStatus
  <2>3. TargetStatus(o, p) = TargetStatus(o, bet)
        /\ TargetPayout(o, ratios, p) = TargetPayout(o, ratios, bet)
    BY <2>1 DEF TargetStatus, TargetPayout
  <2>. HIDE DEF p
  <2>. QED BY <2>1, <2>2, <2>3 DEF TicketFitsFight, LiveStatuses
<1>. QED BY <1>1, <1>2

LEMMA FitsCancelled ==
  ASSUME NEW bet \in Ticket, NEW row, NEW new,
         row.status \in Unfinished, TicketFitsFight(bet, row), new.status = "CANCELLED"
  PROVE  TicketFitsFight(CancelledTicket(bet), new)
<1>. DEFINE p == CancelledTicket(bet)
<1>. SUFFICES TicketFitsFight(p, new)
  OBVIOUS
<1>1. CASE bet.status = "VOIDED"
  <2>1. p = bet
    BY <1>1 DEF CancelledTicket
  <2>2. p.status = "VOIDED"
    BY <1>1, <2>1
  <2>. HIDE DEF p
  <2>. QED BY <2>2, FitsVoid
<1>2. CASE bet.status # "VOIDED"
  <2>1. p = [bet EXCEPT !.status = "PENDING_REFUND", !.payout = bet.amount]
    BY <1>2 DEF CancelledTicket
  <2>2. p.status = "PENDING_REFUND" /\ p.payout = bet.amount /\ p.amount = bet.amount
    BY <2>1 DEF Ticket
  <2>. HIDE DEF p
  <2>. QED BY <2>2 DEF TicketFitsFight, LiveStatuses
<1>. QED BY <1>1, <1>2

\* Corrected tickets follow the new outcome, paid ones with their payout only.
LEMMA FitsCorrected ==
  ASSUME NEW bet \in Ticket, NEW o \in Outcomes, NEW ratios, NEW row, NEW new,
         row.status = "SETTLED", row.outcome \in Outcomes, TicketFitsFight(bet, row),
         new.status = "SETTLED", new.outcome = o, new.ratios = ratios,
         new.prevOutcome = row.outcome
  PROVE  TicketFitsFight(CorrectedTicket(o, ratios, bet), new)
<1>. DEFINE p == CorrectedTicket(o, ratios, bet)
<1>. SUFFICES TicketFitsFight(p, new)
  OBVIOUS
<1>0. new.prevOutcome # None
  BY DEF Outcomes, Sides, None
<1>1. CASE bet.status = "VOIDED"
  BY <1>1 DEF TicketFitsFight, CorrectedTicket, CorrectionSkips
<1>2. CASE bet.status = "REFUNDED"
  <2>1. p = bet
    BY <1>2 DEF CorrectedTicket, CorrectionSkips
  <2>2. bet.payout = bet.amount
    BY <1>2 DEF TicketFitsFight, TargetStatus, LiveStatuses
  <2>. HIDE DEF p
  <2>. QED BY <1>0, <1>2, <2>1, <2>2 DEF TicketFitsFight, LiveStatuses
<1>3. CASE bet.status \notin {"VOIDED", "REFUNDED"}
  <2>1. bet.status \in {"PAID", "WON", "LOST", "PENDING_REFUND"}
    BY <1>3 DEF TicketFitsFight, TargetStatus, LiveStatuses
  <2>2. /\ p.status = IF bet.status = "PAID" THEN "PAID" ELSE TargetStatus(o, bet)
        /\ p.payout = TargetPayout(o, ratios, bet)
        /\ p.side = bet.side /\ p.amount = bet.amount
    <3>1. CASE CorrectionSkips(o, ratios, bet)
      BY <1>3, <3>1 DEF CorrectedTicket, CorrectionSkips, TargetStatus
    <3>2. CASE ~CorrectionSkips(o, ratios, bet)
      BY <3>2 DEF CorrectedTicket, Ticket
    <3>. QED BY <3>1, <3>2
  <2>3. TargetStatus(o, p) = TargetStatus(o, bet)
        /\ TargetPayout(o, ratios, p) = TargetPayout(o, ratios, bet)
    BY <2>2 DEF TargetStatus, TargetPayout
  <2>4. p.status \in {"PAID", "WON", "LOST", "PENDING_REFUND"}
    BY <2>2 DEF TargetStatus
  <2>. HIDE DEF p
  <2>. QED BY <1>0, <2>2, <2>3, <2>4 DEF TicketFitsFight, LiveStatuses
<1>. QED BY <1>1, <1>2, <1>3

\* A revert leaves no trace of the declaration on a ticket nobody cashed.
LEMMA FitsUnsettled ==
  ASSUME NEW bet \in Ticket, NEW row, NEW new, row.status = "SETTLED",
         TicketFitsFight(bet, row), ~BlocksUnsettle(bet), new.status = "CLOSED"
  PROVE  TicketFitsFight(UnsettledTicket(bet), new)
<1>. DEFINE p == UnsettledTicket(bet)
<1>. SUFFICES TicketFitsFight(p, new)
  OBVIOUS
<1>1. CASE bet.status = "VOIDED"
  <2>1. p = bet
    BY <1>1 DEF UnsettledTicket
  <2>2. p.status = "VOIDED"
    BY <1>1, <2>1
  <2>. HIDE DEF p
  <2>. QED BY <2>2, FitsVoid
<1>2. CASE bet.status # "VOIDED"
  <2>1. bet.status \in {"WON", "LOST", "PENDING_REFUND"}
    BY <1>2 DEF TicketFitsFight, TargetStatus, LiveStatuses, BlocksUnsettle
  <2>2. p = [bet EXCEPT !.status = "PENDING", !.payout = Null,
                        !.prevStatus = None, !.prevPayout = Null]
    BY <2>1 DEF UnsettledTicket
  <2>3. p.status = "PENDING" /\ p.payout = Null /\ p.prevStatus = None
    BY <2>2 DEF Ticket
  <2>. HIDE DEF p
  <2>. QED BY <2>3 DEF TicketFitsFight
<1>. QED BY <1>1, <1>2

LEMMA FitsPaid ==
  ASSUME NEW bet \in Ticket, NEW row \in Fight, TicketFitsFight(bet, row),
         bet.status \in {"WON", "PENDING_REFUND"},
         bet.status = "PENDING_REFUND" =>
           row.status = "CANCELLED" \/ (row.status = "SETTLED" /\ row.outcome = "DRAW"),
         NEW p, p = [bet EXCEPT !.status = IF bet.status = "PENDING_REFUND"
                                           THEN "REFUNDED" ELSE "PAID"]
  PROVE  TicketFitsFight(p, row)
<1>1. /\ p.status = IF bet.status = "PENDING_REFUND" THEN "REFUNDED" ELSE "PAID"
      /\ p.payout = bet.payout /\ p.side = bet.side /\ p.amount = bet.amount
  BY DEF Ticket
<1>2. CASE row.status = "CANCELLED"
  BY <1>1, <1>2 DEF TicketFitsFight, LiveStatuses
<1>3. CASE row.status = "SETTLED" /\ bet.status = "PENDING_REFUND"
  BY <1>1, <1>3 DEF TicketFitsFight, LiveStatuses, TargetStatus, TargetPayout
<1>4. CASE row.status = "SETTLED" /\ bet.status = "WON"
  <2>1. bet.payout = TargetPayout(row.outcome, row.ratios, bet) /\ row.outcome = bet.side
    BY <1>4 DEF TicketFitsFight, LiveStatuses, TargetStatus
  <2>2. TargetPayout(row.outcome, row.ratios, p) = TargetPayout(row.outcome, row.ratios, bet)
    BY <1>1 DEF TargetPayout
  <2>. QED BY <1>1, <1>4, <2>1, <2>2 DEF TicketFitsFight, LiveStatuses
<1>. QED BY <1>2, <1>3, <1>4 DEF TicketFitsFight, LiveStatuses, Fight, FightStatuses
\* A ticket stays on its fight.
LEMMA PlansKeepFight ==
  ASSUME NEW bet \in Ticket, NEW o, NEW ratios,
         NEW p \in {SettledTicket(o, ratios, bet), CorrectedTicket(o, ratios, bet),
                    CancelledTicket(bet), UnsettledTicket(bet)}
  PROVE  p.fight = bet.fight
<1>1. CASE p = SettledTicket(o, ratios, bet)
  BY <1>1 DEF SettledTicket, Ticket
<1>2. CASE p = CorrectedTicket(o, ratios, bet)
  BY <1>2 DEF CorrectedTicket, Ticket
<1>3. CASE p = CancelledTicket(bet)
  BY <1>3 DEF CancelledTicket, Ticket
<1>4. CASE p = UnsettledTicket(bet)
  BY <1>4 DEF UnsettledTicket, Ticket
<1>. QED BY <1>1, <1>2, <1>3, <1>4

-----------------------------------------------------------------------------
(* The steps of the book                                                   *)

\* A step that concerns the tickets of one fight.
LEMMA OneFightWritten ==
  ASSUME TicketInv, NEW f \in DOMAIN fights,
         DOMAIN bets' = DOMAIN bets, DOMAIN fights' = DOMAIN fights,
         \A b \in DOMAIN bets : bets'[b].fight = bets[b].fight,
         \A b \in DOMAIN bets : b \notin TicketsOf(f) => bets'[b] = bets[b],
         \A b \in TicketsOf(f) : TicketFitsFight(bets'[b], fights'[f]),
         \A g \in DOMAIN fights \ {f} :
           \/ fights'[g] = fights[g]
           \/ fights[g].status \in Unfinished /\ fights'[g].status \in Unfinished
  PROVE  TicketsFollowFight'
<1>. SUFFICES ASSUME NEW b \in DOMAIN bets
              PROVE  TicketFitsFight(bets'[b], fights'[bets[b].fight])
  BY DEF TicketsFollowFight
<1>. DEFINE g == bets[b].fight
<1>1. g \in DOMAIN fights /\ TicketFitsFight(bets[b], fights[g])
  BY DEF TicketInv, TypeOK, TicketsTyped, TicketsFollowFight
<1>2. CASE g = f
  BY <1>2 DEF TicketsOf
<1>3. CASE g # f
  <2>1. bets'[b] = bets[b]
    BY <1>3 DEF TicketsOf
  <2>2. CASE fights'[g] = fights[g]
    BY <1>1, <2>1, <2>2
  <2>3. CASE fights[g].status \in Unfinished /\ fights'[g].status \in Unfinished
    BY <1>1, <2>1, <2>3, FitsUnfinished
  <2>. QED BY <1>1, <1>3, <2>2, <2>3
<1>. QED BY <1>2, <1>3

\* The rows in hand.
LEMMA RowsInHand ==
  ASSUME TypeOK
  PROVE  /\ \A b \in DOMAIN bets : bets[b] \in Ticket /\ bets[b].fight \in DOMAIN fights
         /\ \A f \in DOMAIN fights : fights[f] \in Fight
BY DEF TypeOK, TicketsTyped, FightsTyped

\* Tickets follow a declaration ...
LEMMA SettleFits ==
  ASSUME TicketInv, NEW f \in DOMAIN fights, NEW o \in Outcomes, SettleFight(f, o)
  PROVE  SettledHasOutcome' /\ TicketsFollowFight'
<1>. DEFINE ratios == PayoutRatios(fights[f].pool, fights[f].rate, o)
            row == [fights[f] EXCEPT !.status = "SETTLED", !.outcome = o, !.ratios = ratios]
<1>1. fights[f].status = "CLOSED" /\ fights' = [fights EXCEPT ![f] = row]
  BY DEF SettleFight
<1>2. row.status = "SETTLED" /\ row.outcome = o /\ row.ratios = ratios
  <2>1. fights[f] \in Fight
    BY RowsInHand DEF TicketInv
  <2>. HIDE DEF ratios
  <2>. QED BY <2>1 DEF Fight
<1>3. /\ DOMAIN bets' = DOMAIN bets
      /\ \A b \in DOMAIN bets : b \notin TicketsOf(f) => bets'[b] = bets[b]
      /\ \A b \in TicketsOf(f) : bets'[b] = SettledTicket(o, ratios, bets[b])
  BY DEF SettleFight, TicketsOf
<1>. HIDE DEF row, ratios
<1>4. DOMAIN fights' = DOMAIN fights /\ fights'[f] = row
      /\ \A g \in DOMAIN fights \ {f} : fights'[g] = fights[g]
  BY <1>1
<1>5. ASSUME NEW b \in TicketsOf(f) PROVE TicketFitsFight(bets'[b], fights'[f])
  <2>1. b \in DOMAIN bets /\ bets[b] \in Ticket /\ TicketFitsFight(bets[b], fights[f])
    BY RowsInHand DEF TicketsOf, TicketInv, TicketsFollowFight
  <2>. QED BY <1>1, <1>2, <1>3, <1>4, <2>1, FitsSettled
<1>6. \A b \in DOMAIN bets : bets'[b].fight = bets[b].fight
  <2>1. \A b \in DOMAIN bets : bets[b] \in Ticket
    BY RowsInHand DEF TicketInv
  <2>2. \A b \in TicketsOf(f) : b \in DOMAIN bets
    BY DEF TicketsOf
  <2>. QED BY <1>3, <2>1, <2>2, PlansKeepFight
<1>7. TicketsFollowFight'
  BY <1>3, <1>4, <1>5, <1>6, OneFightWritten
<1>8. SettledHasOutcome'
  BY <1>2, <1>4 DEF TicketInv, SettledHasOutcome
<1>. QED BY <1>7, <1>8

\* ... a correction ...
LEMMA CorrectFits ==
  ASSUME TicketInv, NEW f \in DOMAIN fights, NEW o \in Outcomes, CorrectFight(f, o)
  PROVE  SettledHasOutcome' /\ TicketsFollowFight'
<1>. DEFINE ratios == PayoutRatios(fights[f].pool, fights[f].rate, o)
            row == [fights[f] EXCEPT !.outcome = o, !.ratios = ratios,
                                     !.prevOutcome = fights[f].outcome,
                                     !.prevRatios = fights[f].ratios]
<1>1. /\ fights[f].status = "SETTLED" /\ fights[f].outcome \in Outcomes
      /\ fights' = [fights EXCEPT ![f] = row]
  BY DEF CorrectFight, TicketInv, SettledHasOutcome
<1>2. /\ row.status = "SETTLED" /\ row.outcome = o /\ row.ratios = ratios
      /\ row.prevOutcome = fights[f].outcome
  <2>1. fights[f] \in Fight
    BY RowsInHand DEF TicketInv
  <2>. HIDE DEF ratios
  <2>. QED BY <1>1, <2>1 DEF Fight
<1>3. /\ DOMAIN bets' = DOMAIN bets
      /\ \A b \in DOMAIN bets : b \notin TicketsOf(f) => bets'[b] = bets[b]
      /\ \A b \in TicketsOf(f) : bets'[b] = CorrectedTicket(o, ratios, bets[b])
  BY DEF CorrectFight, TicketsOf
<1>. HIDE DEF row, ratios
<1>4. DOMAIN fights' = DOMAIN fights /\ fights'[f] = row
      /\ \A g \in DOMAIN fights \ {f} : fights'[g] = fights[g]
  BY <1>1
<1>5. ASSUME NEW b \in TicketsOf(f) PROVE TicketFitsFight(bets'[b], fights'[f])
  <2>1. b \in DOMAIN bets /\ bets[b] \in Ticket /\ TicketFitsFight(bets[b], fights[f])
    BY RowsInHand DEF TicketsOf, TicketInv, TicketsFollowFight
  <2>. QED BY <1>1, <1>2, <1>3, <1>4, <2>1, FitsCorrected
<1>6. \A b \in DOMAIN bets : bets'[b].fight = bets[b].fight
  <2>1. \A b \in DOMAIN bets : bets[b] \in Ticket
    BY RowsInHand DEF TicketInv
  <2>2. \A b \in TicketsOf(f) : b \in DOMAIN bets
    BY DEF TicketsOf
  <2>. QED BY <1>3, <2>1, <2>2, PlansKeepFight
<1>7. TicketsFollowFight'
  BY <1>3, <1>4, <1>5, <1>6, OneFightWritten
<1>8. SettledHasOutcome'
  BY <1>2, <1>4 DEF TicketInv, SettledHasOutcome
<1>. QED BY <1>7, <1>8

\* ... a cancellation ...
LEMMA CancelFits ==
  ASSUME TicketInv, NEW f \in DOMAIN fights, CancelFight(f)
  PROVE  SettledHasOutcome' /\ TicketsFollowFight'
<1>1. /\ fights[f].status \in Unfinished
      /\ DOMAIN fights' = DOMAIN fights /\ fights'[f].status = "CANCELLED"
      /\ \A g \in DOMAIN fights \ {f} : fights'[g] = fights[g]
  BY RowsInHand DEF CancelFight, Unfinished, TicketInv, Fight
<1>2. /\ DOMAIN bets' = DOMAIN bets
      /\ \A b \in DOMAIN bets : b \notin TicketsOf(f) => bets'[b] = bets[b]
      /\ \A b \in TicketsOf(f) : bets'[b] = CancelledTicket(bets[b])
  BY DEF CancelFight, TicketsOf
<1>3. ASSUME NEW b \in TicketsOf(f) PROVE TicketFitsFight(bets'[b], fights'[f])
  <2>1. b \in DOMAIN bets /\ bets[b] \in Ticket /\ TicketFitsFight(bets[b], fights[f])
    BY RowsInHand DEF TicketsOf, TicketInv, TicketsFollowFight
  <2>. QED BY <1>1, <1>2, <2>1, FitsCancelled
<1>4. \A b \in DOMAIN bets : bets'[b].fight = bets[b].fight
  <2>1. \A b \in DOMAIN bets : bets[b] \in Ticket
    BY RowsInHand DEF TicketInv
  <2>2. \A b \in TicketsOf(f) : b \in DOMAIN bets
    BY DEF TicketsOf
  <2>. QED BY <1>2, <2>1, <2>2, PlansKeepFight
<1>5. TicketsFollowFight'
  BY <1>1, <1>2, <1>3, <1>4, OneFightWritten
<1>6. SettledHasOutcome'
  BY <1>1 DEF TicketInv, SettledHasOutcome
<1>. QED BY <1>5, <1>6

\* ... and a revert, which closes the live fights on its way.
LEMMA UnsettleFits ==
  ASSUME TicketInv, NEW f \in DOMAIN fights, UnsettleFight(f)
  PROVE  SettledHasOutcome' /\ TicketsFollowFight'
<1>1. /\ fights[f].status = "SETTLED"
      /\ DOMAIN fights' = DOMAIN fights /\ fights'[f].status = "CLOSED"
      /\ \A g \in DOMAIN fights \ {f} :
           \/ fights'[g] = fights[g]
           \/ g \in Live /\ fights'[g].status = "CLOSED"
  BY RowsInHand DEF UnsettleFight, TicketInv, Fight
<1>2. /\ DOMAIN bets' = DOMAIN bets
      /\ \A b \in DOMAIN bets : b \notin TicketsOf(f) => bets'[b] = bets[b]
      /\ \A b \in TicketsOf(f) : bets'[b] = UnsettledTicket(bets[b]) /\ ~BlocksUnsettle(bets[b])
  BY DEF UnsettleFight, TicketsOf
<1>3. ASSUME NEW b \in TicketsOf(f) PROVE TicketFitsFight(bets'[b], fights'[f])
  <2>1. b \in DOMAIN bets /\ bets[b] \in Ticket /\ TicketFitsFight(bets[b], fights[f])
    BY RowsInHand DEF TicketsOf, TicketInv, TicketsFollowFight
  <2>. QED BY <1>1, <1>2, <2>1, FitsUnsettled
<1>4. \A b \in DOMAIN bets : bets'[b].fight = bets[b].fight
  <2>1. \A b \in DOMAIN bets : bets[b] \in Ticket
    BY RowsInHand DEF TicketInv
  <2>2. \A b \in TicketsOf(f) : b \in DOMAIN bets
    BY DEF TicketsOf
  <2>. QED BY <1>2, <2>1, <2>2, PlansKeepFight
<1>5. \A g \in DOMAIN fights \ {f} :
        \/ fights'[g] = fights[g]
        \/ fights[g].status \in Unfinished /\ fights'[g].status \in Unfinished
  BY <1>1 DEF Live, FightsIn, Unfinished
<1>6. TicketsFollowFight'
  BY <1>1, <1>2, <1>3, <1>4, <1>5, OneFightWritten
<1>7. SettledHasOutcome'
  BY <1>1, <1>5 DEF TicketInv, SettledHasOutcome, Unfinished, LiveStatuses
<1>. QED BY <1>6, <1>7

\* While betting lasts a fight's row may change, its tickets do not care.
LEMMA LiveRowFits ==
  ASSUME TicketInv, bets' = bets, NEW f \in DOMAIN fights, DOMAIN fights' = DOMAIN fights,
         fights[f].status \in Unfinished, fights'[f].status \in Unfinished,
         \A g \in DOMAIN fights \ {f} : fights'[g] = fights[g]
  PROVE  SettledHasOutcome' /\ TicketsFollowFight'
<1>1. \A b \in DOMAIN bets : TicketFitsFight(bets[b], fights[bets[b].fight])
  BY DEF TicketInv, TicketsFollowFight
<1>2. \A b \in TicketsOf(f) : TicketFitsFight(bets[b], fights'[f])
  BY <1>1, FitsUnfinished DEF TicketsOf
<1>3. TicketsFollowFight'
  BY <1>2, OneFightWritten
<1>4. SettledHasOutcome'
  BY DEF TicketInv, SettledHasOutcome, Unfinished, LiveStatuses
<1>. QED BY <1>3, <1>4

\* A new ticket waits for the result of a live fight.
LEMMA PlaceFits ==
  ASSUME TicketInv, NEW b \in BetIds, NEW f \in DOMAIN fights, NEW t \in Tellers,
         NEW side \in Sides, NEW amount \in Stakes, PlaceBet(b, f, t, side, amount)
  PROVE  SettledHasOutcome' /\ TicketsFollowFight'
<1>. DEFINE ticket == NewTicket(f, t, side, amount)
<1>1. /\ fights[f].status \in Unfinished /\ fights'[f].status \in Unfinished
      /\ DOMAIN fights' = DOMAIN fights
      /\ \A g \in DOMAIN fights \ {f} : fights'[g] = fights[g]
  BY RowsInHand DEF PlaceBet, AcceptsBets, Live, FightsIn, Unfinished, TicketInv, Fight
<1>2. /\ b \notin DOMAIN bets
      /\ bets' = [x \in DOMAIN bets \cup {b} |-> IF x = b THEN ticket ELSE bets[x]]
  BY DEF PlaceBet
<1>3. ticket.fight = f /\ TicketFitsFight(ticket, fights'[f])
  BY <1>1 DEF NewTicket, TicketFitsFight, Unfinished
<1>4. ASSUME NEW x \in DOMAIN bets PROVE TicketFitsFight(bets[x], fights'[bets[x].fight])
  <2>1. bets[x].fight \in DOMAIN fights /\ TicketFitsFight(bets[x], fights[bets[x].fight])
    BY RowsInHand DEF TicketInv, TicketsFollowFight
  <2>2. CASE bets[x].fight = f
    BY <1>1, <2>1, <2>2, FitsUnfinished
  <2>3. CASE bets[x].fight # f
    BY <1>1, <2>1, <2>3
  <2>. QED BY <2>2, <2>3
<1>. HIDE DEF ticket
<1>5. TicketsFollowFight'
  BY <1>2, <1>3, <1>4 DEF TicketsFollowFight
<1>6. SettledHasOutcome'
  BY <1>1 DEF TicketInv, SettledHasOutcome, Unfinished, LiveStatuses
<1>. QED BY <1>5, <1>6

\* A void ticket fits any fight.
LEMMA VoidFits ==
  ASSUME TicketInv, NEW b \in DOMAIN bets, VoidBet(b)
  PROVE  SettledHasOutcome' /\ TicketsFollowFight'
<1>. DEFINE f == bets[b].fight
<1>0. /\ f \in DOMAIN fights /\ bets[b] \in Ticket /\ fights[f] \in Fight
      /\ bets[b].side \in Sides
  BY RowsInHand DEF TicketInv, Ticket
<1>1. /\ fights[f].status \in Unfinished /\ fights'[f].status \in Unfinished
      /\ DOMAIN fights' = DOMAIN fights
      /\ \A g \in DOMAIN fights \ {f} : fights'[g] = fights[g]
  BY <1>0 DEF VoidBet, Live, FightsIn, Unfinished, Fight
<1>2. /\ DOMAIN bets' = DOMAIN bets
      /\ bets'[b].status = "VOIDED" /\ bets'[b].fight = f
      /\ \A x \in DOMAIN bets \ {b} : bets'[x] = bets[x]
  BY <1>0 DEF VoidBet, Ticket
<1>3. ASSUME NEW x \in TicketsOf(f) PROVE TicketFitsFight(bets'[x], fights'[f])
  <2>1. CASE x = b
    BY <1>2, <2>1, FitsVoid
  <2>2. CASE x # b
    <3>1. x \in DOMAIN bets \ {b} /\ TicketFitsFight(bets[x], fights[f])
      BY <2>2 DEF TicketsOf, TicketInv, TicketsFollowFight
    <3>. QED BY <1>1, <1>2, <3>1, FitsUnfinished
  <2>. QED BY <2>1, <2>2
<1>4. b \in TicketsOf(f)
  BY DEF TicketsOf
<1>5. TicketsFollowFight'
  BY <1>0, <1>1, <1>2, <1>3, <1>4, OneFightWritten
<1>6. SettledHasOutcome'
  BY <1>0, <1>1 DEF TicketInv, SettledHasOutcome, Unfinished, LiveStatuses
<1>. QED BY <1>5, <1>6

\* Cashing a ticket leaves it with the result it had.
LEMMA PayFits ==
  ASSUME TicketInv, NEW b \in DOMAIN bets, PayBet(b)
  PROVE  SettledHasOutcome' /\ TicketsFollowFight'
<1>. DEFINE f == bets[b].fight
<1>0. f \in DOMAIN fights /\ bets[b] \in Ticket /\ fights[f] \in Fight
  BY RowsInHand DEF TicketInv
<1>1. /\ bets[b].status \in {"WON", "PENDING_REFUND"}
      /\ bets[b].status = "PENDING_REFUND" =>
           \/ fights[f].status = "CANCELLED"
           \/ fights[f].status = "SETTLED" /\ fights[f].outcome = "DRAW"
      /\ fights' = fights
  BY DEF PayBet, RefundEligible
<1>. DEFINE p == [bets[b] EXCEPT !.status = IF bets[b].status = "PENDING_REFUND"
                                            THEN "REFUNDED" ELSE "PAID"]
<1>2. bets' = [bets EXCEPT ![b] = p]
  BY DEF PayBet
<1>3. p.fight = f
  BY <1>0 DEF Ticket
<1>4. TicketFitsFight(bets[b], fights[f])
  BY DEF TicketInv, TicketsFollowFight
<1>5. TicketFitsFight(p, fights[f])
  BY <1>0, <1>1, <1>4, FitsPaid
<1>. HIDE DEF p
<1>6. TicketsFollowFight'
  BY <1>1, <1>2, <1>3, <1>5 DEF TicketInv, TicketsFollowFight
<1>7. SettledHasOutcome'
  BY <1>1 DEF TicketInv, SettledHasOutcome
<1>. QED BY <1>6, <1>7

\* The next fight has no tickets yet.
LEMMA CreateFits ==
  ASSUME TicketInv, CreateFight
  PROVE  SettledHasOutcome' /\ TicketsFollowFight'
<1>1. PICK n \in 1 .. MaxFights :
        /\ n \notin DOMAIN fights
        /\ fights' = [f \in DOMAIN fights \cup {n} |->
                        IF f = n THEN NewFight(setting) ELSE fights[f]]
  BY ConstantTypes DEF CreateFight, IsNextNumber
<1>2. bets' = bets
  BY DEF CreateFight
<1>3. TicketsFollowFight'
  BY <1>1, <1>2, RowsInHand DEF TicketInv, TicketsFollowFight
<1>4. SettledHasOutcome'
  BY <1>1 DEF TicketInv, SettledHasOutcome, NewFight
<1>. QED BY <1>3, <1>4

\* The ticket invariant is inductive.
LEMMA NextFits == TicketInv /\ [Next]_vars => TicketInv'
<1>. SUFFICES ASSUME TicketInv, [Next]_vars
              PROVE  SettledHasOutcome' /\ TicketsFollowFight'
  BY NextType DEF TicketInv
<1>1. CASE Tuning \/ Cash \/ UNCHANGED vars
  <2>1. fights' = fights /\ bets' = bets
    BY <1>1 DEF Tuning, Cash, UpdateSetting, CashAdvance, CashRemit, DeleteRemit, vars
  <2>. QED BY <2>1 DEF TicketInv, SettledHasOutcome, TicketsFollowFight
<1>2. CASE Lifecycle
  <2>1. ASSUME NEW f \in DOMAIN fights, NEW from, from \subseteq Unfinished,
               NEW to \in Unfinished, MoveFight(f, from, to)
        PROVE  SettledHasOutcome' /\ TicketsFollowFight'
    <3>1. /\ bets' = bets /\ DOMAIN fights' = DOMAIN fights
          /\ fights[f].status \in Unfinished /\ fights'[f].status \in Unfinished
          /\ \A g \in DOMAIN fights \ {f} : fights'[g] = fights[g]
      BY <2>1, RowsInHand DEF MoveFight, TicketInv, Fight
    <3>. QED BY <3>1, LiveRowFits
  <2>2. /\ LiveStatuses \subseteq Unfinished /\ {"OPEN"} \subseteq Unfinished
        /\ {"LAST_CALL"} \subseteq Unfinished /\ {"CLOSED"} \subseteq Unfinished
        /\ "OPEN" \in Unfinished /\ "LAST_CALL" \in Unfinished /\ "CLOSED" \in Unfinished
    BY DEF Unfinished, LiveStatuses
  <2>3. CASE CreateFight
    BY <2>3, CreateFits
  <2>4. CASE \E f \in DOMAIN fights :
               CloseFight(f) \/ ReopenFight(f) \/ SetFightLastCall(f) \/ ResumeFightOpen(f)
    BY <2>1, <2>2, <2>4 DEF CloseFight, ReopenFight, SetFightLastCall, ResumeFightOpen
  <2>. QED BY <1>2, <2>3, <2>4 DEF Lifecycle
<1>3. CASE Holding
  <2>1. PICK f \in DOMAIN fights, side \in Sides, a \in BOOLEAN : ToggleSide(f, side, a)
    BY <1>3 DEF Holding
  <2>2. /\ bets' = bets /\ DOMAIN fights' = DOMAIN fights
        /\ fights[f].status \in Unfinished /\ fights'[f].status \in Unfinished
        /\ \A g \in DOMAIN fights \ {f} : fights'[g] = fights[g]
    BY <2>1, RowsInHand DEF ToggleSide, Live, FightsIn, Unfinished, TicketInv, Fight
  <2>. QED BY <2>2, LiveRowFits
<1>4. CASE Betting
  BY <1>4, PlaceFits, VoidFits DEF Betting
<1>5. CASE Declaring \/ Correcting \/ Reverting
  BY <1>5, SettleFits, CancelFits, CorrectFits, UnsettleFits DEF Declaring, Correcting, Reverting
<1>6. CASE Paying
  BY <1>6, PayFits DEF Paying
<1>7. CASE Purging
  BY <1>7 DEF Purging, PurgeBet, Restrict, TicketInv, SettledHasOutcome, TicketsFollowFight
<1>. QED BY <1>1, <1>2, <1>3, <1>4, <1>5, <1>6, <1>7 DEF Next

(***************************************************************************)
(* Tickets and their fight never disagree: whatever order of settlements,  *)
(* corrections, cancellations, reverts and payments an evening takes, every *)
(* ticket has the result and payout the fight row calls for.               *)
(***************************************************************************)
THEOREM TicketsFit == Spec => []TicketsFollowFight
<1>1. Init => TicketInv
  BY InitType DEF Init, TicketInv, SettledHasOutcome, TicketsFollowFight
<1>2. TicketInv /\ [Next]_vars => TicketInv'
  BY NextFits
<1>3. TicketInv => TicketsFollowFight
  BY DEF TicketInv
<1>. QED BY <1>1, <1>2, <1>3, PTL DEF Spec
-----------------------------------------------------------------------------
(* What was cashed                                                         *)

\* A plan that may be applied to a cashed ticket leaves it where it is.
LEMMA PlansKeepCashed ==
  ASSUME NEW bet \in Ticket, bet.status \in Cashed, NEW o, NEW ratios, NEW p,
         \/ CanSettle(o, ratios, bet) /\ p = SettledTicket(o, ratios, bet)
         \/ p = CorrectedTicket(o, ratios, bet)
         \/ CanCancel(bet) /\ p = CancelledTicket(bet)
         \/ p = UnsettledTicket(bet)
         \/ p = bet
  PROVE  p.status = bet.status
<1>1. CASE CanSettle(o, ratios, bet) /\ p = SettledTicket(o, ratios, bet)
  BY <1>1 DEF CanSettle, SettledTicket, Cashed
<1>2. CASE p = CorrectedTicket(o, ratios, bet)
  BY <1>2 DEF CorrectedTicket, CorrectionSkips, Cashed, Ticket
<1>3. CASE CanCancel(bet) /\ p = CancelledTicket(bet)
  BY <1>3 DEF CanCancel, CancelledTicket, Cashed
<1>4. CASE p = UnsettledTicket(bet)
  BY <1>4 DEF UnsettledTicket, Cashed
<1>5. CASE p = bet
  BY <1>5
<1>. QED BY <1>1, <1>2, <1>3, <1>4, <1>5

\* No declaration, of any kind, rewrites a bet or moves a cashed ticket.
LEMMA DeclaredKeep ==
  ASSUME TypeOK, NEW f \in DOMAIN fights,
         \/ \E o \in Outcomes : SettleFight(f, o) \/ CorrectFight(f, o)
         \/ CancelFight(f)
         \/ UnsettleFight(f)
  PROVE  /\ DOMAIN bets' = DOMAIN bets
         /\ \A b \in DOMAIN bets : /\ SameBet(bets'[b], bets[b])
                                   /\ bets[b].status \in Cashed => bets'[b].status = bets[b].status
<1>1. DOMAIN bets' = DOMAIN bets
  BY DEF SettleFight, CorrectFight, CancelFight, UnsettleFight
<1>2. ASSUME NEW o, NEW ratios \in Ratios, NEW b \in DOMAIN bets,
             \/ CanSettle(o, ratios, bets[b]) /\ bets'[b] = SettledTicket(o, ratios, bets[b])
             \/ bets'[b] = CorrectedTicket(o, ratios, bets[b])
             \/ CanCancel(bets[b]) /\ bets'[b] = CancelledTicket(bets[b])
             \/ bets'[b] = UnsettledTicket(bets[b])
             \/ bets'[b] = bets[b]
      PROVE  /\ SameBet(bets'[b], bets[b])
             /\ bets[b].status \in Cashed => bets'[b].status = bets[b].status
  <2>1. bets[b] \in Ticket
    BY RowsInHand
  <2>2. bets[b].status \in Cashed => bets'[b].status = bets[b].status
    BY <1>2, <2>1, PlansKeepCashed
  <2>3. bets'[b] \in {SettledTicket(o, ratios, bets[b]), CorrectedTicket(o, ratios, bets[b]),
                      CancelledTicket(bets[b]), UnsettledTicket(bets[b]), bets[b]}
    BY <1>2
  <2>4. SameBet(bets'[b], bets[b])
    BY <2>1, <2>3, TicketPlans DEF SameBet
  <2>. QED BY <2>2, <2>4
<1>3. ASSUME NEW o \in Outcomes PROVE PayoutRatios(fights[f].pool, fights[f].rate, o) \in Ratios
  BY RowsInHand, RatioTypes DEF Fight
<1>. SUFFICES ASSUME NEW b \in DOMAIN bets
              PROVE  /\ SameBet(bets'[b], bets[b])
                     /\ bets[b].status \in Cashed => bets'[b].status = bets[b].status
  BY <1>1
<1>4. CASE \E o \in Outcomes : SettleFight(f, o)
  <2>1. PICK o \in Outcomes : SettleFight(f, o)
    BY <1>4
  <2>. DEFINE ratios == PayoutRatios(fights[f].pool, fights[f].rate, o)
  <2>2. \/ CanSettle(o, ratios, bets[b]) /\ bets'[b] = SettledTicket(o, ratios, bets[b])
        \/ bets'[b] = bets[b]
    BY <2>1 DEF SettleFight
  <2>3. ratios \in Ratios
    BY <1>3
  <2>. HIDE DEF ratios
  <2>. QED BY <1>2, <2>2, <2>3
<1>5. CASE \E o \in Outcomes : CorrectFight(f, o)
  <2>1. PICK o \in Outcomes : CorrectFight(f, o)
    BY <1>5
  <2>. DEFINE ratios == PayoutRatios(fights[f].pool, fights[f].rate, o)
  <2>2. bets'[b] \in {CorrectedTicket(o, ratios, bets[b]), bets[b]}
    BY <2>1 DEF CorrectFight
  <2>3. ratios \in Ratios
    BY <1>3
  <2>. HIDE DEF ratios
  <2>. QED BY <1>2, <2>2, <2>3
<1>6. CASE CancelFight(f)
  BY <1>2, <1>6, NewRows DEF CancelFight
<1>7. CASE UnsettleFight(f)
  BY <1>2, <1>7, NewRows DEF UnsettleFight
<1>. QED BY <1>4, <1>5, <1>6, <1>7

\* A step rewrites no bet, moves no cashed ticket, and deletes none but a paid
\* one; new bets have positive amounts.
LEMMA NextKeeps ==
  ASSUME TypeOK, Next
  PROVE  /\ CashedKept
         /\ \A b \in DOMAIN bets \cap DOMAIN bets' : SameBet(bets'[b], bets[b])
         /\ \A b \in DOMAIN bets' \ DOMAIN bets : bets'[b].amount > 0
<1>. DEFINE Kept == /\ \A b \in DOMAIN bets \cap DOMAIN bets' : SameBet(bets'[b], bets[b])
                    /\ \A b \in DOMAIN bets' \ DOMAIN bets : bets'[b].amount > 0
<1>. SUFFICES CashedKept /\ Kept
  OBVIOUS
<1>0. bets' = bets => CashedKept /\ Kept
  BY DEF CashedKept, SameBet
<1>1. CASE Tuning \/ Lifecycle \/ Holding \/ Cash
  <2>. SUFFICES bets' = bets
    BY <1>0
  <2>1. CASE Tuning \/ Cash
    BY <2>1 DEF Tuning, Cash, UpdateSetting, CashAdvance, CashRemit, DeleteRemit
  <2>2. CASE Lifecycle
    BY <2>2 DEF Lifecycle, CreateFight, CloseFight, ReopenFight, SetFightLastCall,
      ResumeFightOpen, MoveFight
  <2>3. CASE Holding
    BY <2>3 DEF Holding, ToggleSide
  <2>. QED BY <1>1, <2>1, <2>2, <2>3
<1>2. CASE Betting
  <2>1. ASSUME NEW b \in BetIds, NEW f, NEW t, NEW s, NEW a \in Stakes, PlaceBet(b, f, t, s, a)
        PROVE  CashedKept /\ Kept
    <3>1. b \notin DOMAIN bets
          /\ bets' = [x \in DOMAIN bets \cup {b} |->
                        IF x = b THEN NewTicket(f, t, s, a) ELSE bets[x]]
      BY <2>1 DEF PlaceBet
    <3>2. NewTicket(f, t, s, a).amount > 0
      BY ConstantTypes DEF NewTicket
    <3>. QED BY <3>1, <3>2 DEF CashedKept, SameBet
  <2>2. ASSUME NEW b \in DOMAIN bets, VoidBet(b) PROVE CashedKept /\ Kept
    <3>1. /\ bets[b].status = "PENDING" /\ DOMAIN bets' = DOMAIN bets
          /\ \A x \in DOMAIN bets \ {b} : bets'[x] = bets[x]
          /\ bets' = [bets EXCEPT ![b].status = "VOIDED"]
      BY <2>2 DEF VoidBet
    <3>2. SameBet(bets'[b], bets[b])
      BY <3>1, RowsInHand DEF SameBet, Ticket
    <3>. QED BY <3>1, <3>2 DEF CashedKept, SameBet, Cashed
  <2>. QED BY <1>2, <2>1, <2>2 DEF Betting
<1>3. CASE Declaring \/ Correcting \/ Reverting
  <2>1. /\ DOMAIN bets' = DOMAIN bets
        /\ \A b \in DOMAIN bets : /\ SameBet(bets'[b], bets[b])
                                  /\ bets[b].status \in Cashed => bets'[b].status = bets[b].status
    BY <1>3, DeclaredKeep DEF Declaring, Correcting, Reverting
  <2>2. CashedKept
    BY <2>1 DEF CashedKept
  <2>3. Kept
    BY <2>1
  <2>. QED BY <2>2, <2>3
<1>4. CASE Paying
  <2>1. PICK b \in DOMAIN bets : PayBet(b)
    BY <1>4 DEF Paying
  <2>2. bets[b].status \notin Cashed /\ DOMAIN bets' = DOMAIN bets
        /\ \A x \in DOMAIN bets \ {b} : bets'[x] = bets[x]
    BY <2>1 DEF PayBet, Cashed
  <2>3. SameBet(bets'[b], bets[b])
    BY <2>1, RowsInHand DEF PayBet, SameBet, Ticket
  <2>. QED BY <2>2, <2>3 DEF CashedKept, SameBet
<1>5. CASE Purging
  <2>1. PICK b \in DOMAIN bets : PurgeBet(b)
    BY <1>5 DEF Purging
  <2>2. /\ bets[b].status = "PAID" /\ fights[bets[b].fight].status = "SETTLED"
        /\ DOMAIN bets' = DOMAIN bets \ {b}
        /\ \A x \in DOMAIN bets \ {b} : bets'[x] = bets[x]
    BY <2>1 DEF PurgeBet, Restrict
  <2>. QED BY <2>2 DEF CashedKept, SameBet
<1>. QED BY <1>1, <1>2, <1>3, <1>4, <1>5 DEF Next

(***************************************************************************)
(* Cash that changed hands is history, for any number of fights, tickets,  *)
(* corrections and reverts.                                                *)
(***************************************************************************)
THEOREM CashedStays == Spec => CashedIsFinal
<1>1. TypeOK /\ [Next]_vars => [CashedKept]_vars
  BY NextKeeps
<1>. QED BY <1>1, InitType, NextType, PTL DEF Spec, CashedIsFinal
-----------------------------------------------------------------------------
(* Declaring never fails                                                   *)

\* No stake is or was nothing.
StakesPositive ==
  /\ \A b \in DOMAIN bets : bets[b].amount > 0
  /\ \A f \in 1 .. MaxFights, s \in Sides : purged[f][s] >= 0

DeclarableInv == PoolInv /\ TicketInv /\ StakesPositive

\* Stakes stay positive.
LEMMA NextPositive ==
  ASSUME TypeOK, StakesPositive, [Next]_vars
  PROVE  StakesPositive'
<1>1. CASE UNCHANGED vars
  BY <1>1 DEF vars, StakesPositive
<1>2. CASE Next
  <2>1. \A b \in DOMAIN bets' : bets'[b].amount > 0
    BY <1>2, NextKeeps DEF StakesPositive, SameBet
  <2>2. \A f \in 1 .. MaxFights, s \in Sides : purged'[f][s] >= 0
    <3>1. CASE Purging
      <4>1. PICK b \in DOMAIN bets : PurgeBet(b)
        BY <3>1 DEF Purging
      <4>2. bets[b].amount > 0 /\ bets[b].amount \in Int
        BY RowsInHand DEF StakesPositive, Ticket, Money
      <4>3. purged' = [purged EXCEPT ![bets[b].fight][bets[b].side] = @ + bets[b].amount]
        BY <4>1 DEF PurgeBet
      <4>4. \A f \in 1 .. MaxFights, s \in Sides : purged[f][s] \in Int /\ purged[f][s] >= 0
        BY DEF StakesPositive, TypeOK, HistoryTyped, Pools, Money
      <4>5. \A f \in 1 .. MaxFights, s \in Sides :
              purged'[f][s] \in {purged[f][s], purged[f][s] + bets[b].amount}
        BY <4>3 DEF TypeOK, HistoryTyped, Pools
      <4>. QED BY <4>2, <4>4, <4>5
    <3>2. CASE Tuning \/ Cash
      BY <3>2 DEF Tuning, Cash, UpdateSetting, CashAdvance, CashRemit, DeleteRemit, history,
        StakesPositive
    <3>3. CASE Lifecycle
      BY <3>3 DEF Lifecycle, CreateFight, CloseFight, ReopenFight, SetFightLastCall,
        ResumeFightOpen, MoveFight, history, StakesPositive
    <3>4. CASE Holding
      BY <3>4 DEF Holding, ToggleSide, history, StakesPositive
    <3>5. CASE Betting \/ Paying
      BY <3>5 DEF Betting, Paying, PlaceBet, VoidBet, PayBet, StakesPositive
    <3>6. CASE Declaring \/ Correcting \/ Reverting
      BY <3>6 DEF Declaring, Correcting, Reverting, SettleFight, CancelFight, CorrectFight,
        UnsettleFight, history, StakesPositive
    <3>. QED BY <1>2, <3>1, <3>2, <3>3, <3>4, <3>5, <3>6 DEF Next
  <2>. QED BY <2>1, <2>2 DEF StakesPositive
<1>. QED BY <1>1, <1>2

\* A pool is never negative, and positive as soon as a bet on it counts.
LEMMA PoolsCover ==
  ASSUME DeclarableInv, NEW f \in DOMAIN fights, NEW s \in Sides
  PROVE  /\ fights[f].pool[s] \in Int /\ fights[f].pool[s] >= 0
         /\ \A b \in StakedOn(f, s) : fights[f].pool[s] > 0
<1>. DEFINE total == SumFunctionOnSet(Amounts, StakedOn(f, s))
<1>1. fights[f].pool[s] = total + purged[f][s]
  BY StakesAreSums DEF DeclarableInv, PoolInv, PoolsMatchStakes
<1>2. purged[f][s] \in Int /\ purged[f][s] >= 0
  BY DEF DeclarableInv, PoolInv, TypeOK, FightsTyped, HistoryTyped, Pools, Money, StakesPositive
<1>3. /\ IsFiniteSet(StakedOn(f, s)) /\ total \in Int
      /\ \A b \in StakedOn(f, s) : Amounts[b] \in Int /\ Amounts[b] > 0
  BY StakedFinite DEF DeclarableInv, PoolInv, TypeOK, StakesPositive
<1>4. total >= 0 /\ \A b \in StakedOn(f, s) : Amounts[b] <= total
  <2>1. \A b \in StakedOn(f, s) : Amounts[b] \in Int /\ Amounts[b] >= 0
    BY <1>3
  <2>. QED BY <1>3, <2>1, SumAtLeast
<1>. HIDE DEF total
<1>. QED BY <1>1, <1>2, <1>3, <1>4

\* A side somebody bet on has a multiplier.
LEMMA SideHasRatio ==
  ASSUME NEW pool \in Pools, NEW rate \in 0 .. MaxRate, NEW o \in Sides,
         \A s \in Sides : pool[s] >= 0, pool[o] > 0
  PROVE  PayoutRatios(pool, rate, o)[o] # Null
<1>1. Handle(pool) \in Int /\ Handle(pool) >= 0 /\ pool[o] \in Int
  BY DEF Handle, Pools, Money, Sides
<1>2. rate \in Int /\ 20000 - rate > 0
  BY SMT DEF MaxRate
<1>. DEFINE d == PoolDistributable(pool, rate)  p == 2 * pool[o]
<1>3. d \in Int /\ d >= 0
  BY <1>1, <1>2, SMT DEF PoolDistributable
<1>4. p \in Int /\ p > 0
  BY <1>1
<1>5. PayoutRatios(pool, rate, o)[o] = d \div p
  BY DEF PayoutRatios, PayoutMultiplier
<1>. HIDE DEF d, p
<1>6. d \div p >= 0
  BY <1>3, <1>4, SMTT(30)
<1>. QED BY <1>5, <1>6 DEF Null

\* What the invariant says of one ticket and one outcome.
LEMMA InvDeclarable == DeclarableInv => ResultCanBeDeclared
<1>. SUFFICES ASSUME DeclarableInv, NEW f \in DOMAIN fights, NEW o \in Outcomes,
                     NEW b \in TicketsOf(f)
              PROVE  LET ratios == PayoutRatios(fights[f].pool, fights[f].rate, o) IN
                     /\ fights[f].status = "CLOSED" =>
                          CanSettle(o, ratios, bets[b]) /\ CanCancel(bets[b])
                     /\ fights[f].status = "SETTLED" => CanCorrect(o, ratios, bets[b])
  BY DEF ResultCanBeDeclared
<1>. DEFINE ratios == PayoutRatios(fights[f].pool, fights[f].rate, o)
<1>1. /\ b \in DOMAIN bets /\ bets[b].fight = f /\ bets[b] \in Ticket /\ fights[f] \in Fight
      /\ TicketFitsFight(bets[b], fights[f])
  BY RowsInHand DEF TicketsOf, DeclarableInv, TicketInv, TicketsFollowFight
<1>2. bets[b].status = "VOIDED" \/ HasTarget(o, ratios, bets[b])
  <2>1. SUFFICES ASSUME bets[b].status # "VOIDED", o = bets[b].side
                 PROVE  ratios[o] # Null
    BY DEF HasTarget
  <2>2. o \in Sides /\ b \in StakedOn(f, o)
    BY <1>1, <2>1 DEF Ticket, StakedOn
  <2>3. fights[f].pool \in Pools /\ fights[f].rate \in 0 .. MaxRate
    BY <1>1 DEF Fight
  <2>4. fights[f].pool[o] > 0 /\ \A s \in Sides : fights[f].pool[s] >= 0
    BY <2>2, PoolsCover
  <2>. QED BY <2>2, <2>3, <2>4, SideHasRatio
<1>. HIDE DEF ratios
<1>3. ASSUME fights[f].status = "CLOSED" PROVE bets[b].status \in {"PENDING", "VOIDED"}
  BY <1>1, <1>3 DEF TicketFitsFight
<1>4. fights[f].status = "CLOSED" => CanSettle(o, ratios, bets[b]) /\ CanCancel(bets[b])
  BY <1>2, <1>3 DEF CanSettle, CanCancel
<1>5. CanCorrect(o, ratios, bets[b])
  BY <1>2 DEF CanCorrect
<1>. QED BY <1>4, <1>5 DEF ratios

LEMMA InitDeclarable == Init => DeclarableInv
BY InitType DEF Init, DeclarableInv, PoolInv, PoolsMatchStakes, NothingPurgedEarly,
  TicketInv, SettledHasOutcome, TicketsFollowFight, StakesPositive

LEMMA NextDeclarable == DeclarableInv /\ [Next]_vars => DeclarableInv'
BY NextPools, NextFits, NextPositive DEF DeclarableInv, PoolInv

(***************************************************************************)
(* No helper of lib/fight-settlement.js ever throws on a declaration: a    *)
(* closed fight takes any outcome and a settled one any other, whatever    *)
(* was bet, voided and purged before.                                      *)
(***************************************************************************)
THEOREM ResultDeclarable == Spec => []ResultCanBeDeclared
<1>1. Init => DeclarableInv
  BY InitDeclarable
<1>2. DeclarableInv /\ [Next]_vars => DeclarableInv'
  BY NextDeclarable
<1>3. DeclarableInv => ResultCanBeDeclared
  BY InvDeclarable
<1>. QED BY <1>1, <1>2, <1>3, PTL DEF Spec

-----------------------------------------------------------------------------
(* Balances of a bag of rows                                               *)

\* What the balance of a ledger needs of it.
IsBook(B) ==
  /\ IsFiniteSet(DOMAIN B)
  /\ B \in [DOMAIN B -> Nat \ {0}]
  /\ \A r \in DOMAIN B : r.amount \in Int

\* The rows of a teller.
Of(t, rows) == {r \in rows : r.teller = t}

\* How often a row is in a ledger.
Copies(r, B) == IF r \in DOMAIN B THEN B[r] ELSE 0

\* What a row adds to the balance of its teller.
Weight(B, r) == Copies(r, B) * r.amount

\* A balance may be taken over any rows that include those of the ledger.
LEMMA BalanceOver ==
  ASSUME NEW B, IsBook(B), NEW t, NEW D, IsFiniteSet(D), DOMAIN B \subseteq D,
         \A r \in D : r.amount \in Int
  PROVE  BalanceIn(B, t) = SumFunctionOnSet([r \in D |-> Weight(B, r)],
                                            {r \in D : r.teller = t})
<1>. DEFINE F == [r \in D |-> Weight(B, r)]
            G == [r \in DOMAIN B |-> B[r] * r.amount]
            S == {r \in D : r.teller = t}
            T == {r \in DOMAIN B : r.teller = t}
<1>1. IsFiniteSet(S) /\ IsFiniteSet(T) /\ T \in SUBSET S
  BY FS_Subset
<1>2. \A r \in S : F[r] \in Int
  <2>1. \A r \in D : Copies(r, B) \in Int
    BY DEF Copies, IsBook
  <2>. QED BY <2>1 DEF Weight
<1>3. \A r \in S \ T : F[r] = 0
  BY DEF Weight, Copies
<1>4. \A r \in T : F[r] = G[r]
  BY DEF Weight, Copies
<1>5. SumFunctionOnSet(F, S) = SumFunctionOnSet(F, T)
  <2>. HIDE DEF F, S, T
  <2>. QED BY <1>1, <1>2, <1>3, SumWithoutZeros
<1>6. SumFunctionOnSet(F, T) = SumFunctionOnSet(G, T)
  <2>. HIDE DEF F, G, T
  <2>. QED BY <1>1, <1>4, SumSame
<1>. QED BY <1>5, <1>6 DEF BalanceIn, SumOf

\* When one row of a teller changes its number of copies, the balance changes
\* by as many times its amount.
LEMMA BalanceMoved ==
  ASSUME NEW B, IsBook(B), NEW C, IsBook(C), NEW t, NEW q, q.teller = t, q.amount \in Int,
         \A r \in (DOMAIN B \cup DOMAIN C) \ {q} :
           r.teller = t => Copies(r, C) = Copies(r, B)
  PROVE  /\ BalanceIn(B, t) \in Int
         /\ BalanceIn(C, t) = BalanceIn(B, t) + (Copies(q, C) - Copies(q, B)) * q.amount
<1>. DEFINE D == DOMAIN B \cup DOMAIN C \cup {q}
            S == {r \in D : r.teller = t}
            F == [r \in D |-> Weight(B, r)]
            H == [r \in D |-> Weight(C, r)]
<1>1. IsFiniteSet(D) /\ \A r \in D : r.amount \in Int
  BY FS_Union, FS_AddElement DEF IsBook
<1>2. \A r \in D : F[r] \in Int /\ H[r] \in Int
  <2>1. \A r \in D : Copies(r, B) \in Int /\ Copies(r, C) \in Int
    BY DEF Copies, IsBook
  <2>. QED BY <1>1, <2>1 DEF Weight
<1>3. BalanceIn(B, t) = SumFunctionOnSet(F, S) /\ BalanceIn(C, t) = SumFunctionOnSet(H, S)
  <2>1. DOMAIN B \subseteq D /\ DOMAIN C \subseteq D
    OBVIOUS
  <2>. HIDE DEF D
  <2>. QED BY <1>1, <2>1, BalanceOver
<1>4. IsFiniteSet(S) /\ q \in S /\ S \subseteq D
  <2>1. q \in S /\ S \subseteq D
    OBVIOUS
  <2>. HIDE DEF S, D
  <2>. QED BY <1>1, <2>1, FS_Subset
<1>5. \A r \in S \ {q} : F[r] = H[r]
  BY DEF Weight
<1>6. F[q] = Copies(q, B) * q.amount /\ H[q] = Copies(q, C) * q.amount
  BY DEF Weight
<1>7. Copies(q, B) \in Int /\ Copies(q, C) \in Int
  BY DEF Copies, IsBook
<1>. HIDE DEF D, S, F, H
<1>8. /\ SumFunctionOnSet(F, S) = F[q] + SumFunctionOnSet(F, S \ {q})
      /\ SumFunctionOnSet(H, S) = H[q] + SumFunctionOnSet(H, S \ {q})
  BY <1>2, <1>4, SumRemove
<1>9. IsFiniteSet(S \ {q}) /\ \A r \in S \ {q} : F[r] \in Int
  BY <1>2, <1>4, FS_Subset
<1>10. /\ SumFunctionOnSet(F, S \ {q}) = SumFunctionOnSet(H, S \ {q})
       /\ SumFunctionOnSet(F, S \ {q}) \in Int
  BY <1>5, <1>9, SumSame, SumInt
<1>. DEFINE x == Copies(q, B)  y == Copies(q, C)  a == q.amount
            rest == SumFunctionOnSet(F, S \ {q})
<1>11. /\ x \in Int /\ y \in Int /\ a \in Int /\ rest \in Int
       /\ BalanceIn(B, t) = x * a + rest
       /\ BalanceIn(C, t) = y * a + rest
  BY <1>3, <1>6, <1>7, <1>8, <1>10
<1>12. BalanceIn(B, t) \in Int /\ BalanceIn(C, t) = BalanceIn(B, t) + (y - x) * a
  <2>. HIDE DEF x, y, a, rest
  <2>1. (y - x) * a = y * a - x * a /\ x * a \in Int /\ y * a \in Int
    BY <1>11
  <2>. QED BY <1>11, <2>1
<1>. QED BY <1>12

\* When no row of a teller changes, neither does the balance.
LEMMA BalanceSame ==
  ASSUME NEW B, NEW C, IsBook(B), NEW t,
         {r \in DOMAIN C : r.teller = t} = {r \in DOMAIN B : r.teller = t},
         \A r \in DOMAIN B : r.teller = t => C[r] = B[r]
  PROVE  BalanceIn(C, t) = BalanceIn(B, t)
<1>. DEFINE F == [r \in DOMAIN B |-> B[r] * r.amount]
            H == [r \in DOMAIN C |-> C[r] * r.amount]
            S == {r \in DOMAIN B : r.teller = t}
<1>1. IsFiniteSet(S)
  BY FS_Subset DEF IsBook
<1>2. \A r \in S : H[r] = F[r]
  OBVIOUS
<1>3. SumFunctionOnSet(H, S) = SumFunctionOnSet(F, S)
  <2>. HIDE DEF F, H, S
  <2>. QED BY <1>1, <1>2, SumSame
<1>. QED BY <1>3 DEF BalanceIn, SumOf

\* A balance is a number.
LEMMA BalanceInt == ASSUME NEW B, IsBook(B), NEW t PROVE BalanceIn(B, t) \in Int
<1>. DEFINE q == [teller |-> t, amount |-> 0]
<1>1. q.teller = t /\ q.amount \in Int
  OBVIOUS
<1>. HIDE DEF q
<1>. QED BY <1>1, BalanceMoved

-----------------------------------------------------------------------------
(* What the operations do to the balances                                  *)

\* A row INSERTed adds its amount to the balance of its teller.
LEMMA BalancePosted ==
  ASSUME NEW B, IsBook(B), NEW r, r.amount \in Int, NEW t
  PROVE  /\ IsBook(B (+) SetToBag({r}))
         /\ BalanceIn(B (+) SetToBag({r}), t)
              = BalanceIn(B, t) + (IF r.teller = t THEN r.amount ELSE 0)
<1>. DEFINE C == B (+) SetToBag({r})
<1>1. /\ DOMAIN C = DOMAIN B \cup {r} /\ C \in [DOMAIN C -> Nat \ {0}]
      /\ \A q : Copies(q, C) = Copies(q, B) + (IF q = r THEN 1 ELSE 0)
      /\ \A q \in DOMAIN B \ {r} : C[q] = B[q]
  BY AddedRows DEF IsBook, Copies, (+), SetToBag, BagToSet
<1>2. IsFiniteSet(DOMAIN B \cup {r})
  BY FS_AddElement DEF IsBook
<1>. HIDE DEF C
<1>3. IsBook(C)
  BY <1>1, <1>2 DEF IsBook
<1>4. CASE r.teller = t
  <2>1. /\ BalanceIn(B, t) \in Int
        /\ BalanceIn(C, t) = BalanceIn(B, t) + (Copies(r, C) - Copies(r, B)) * r.amount
    <3>1. \A x : Copies(x, B) \in Int
      BY DEF Copies, IsBook
    <3>2. \A x \in (DOMAIN B \cup DOMAIN C) \ {r} : Copies(x, C) = Copies(x, B)
      BY <1>1, <3>1
    <3>. QED BY <1>3, <1>4, <3>2, BalanceMoved
  <2>. DEFINE d == Copies(r, C) - Copies(r, B)
  <2>2. d = 1
    BY <1>1 DEF Copies, IsBook
  <2>3. BalanceIn(C, t) = BalanceIn(B, t) + d * r.amount
    BY <2>1
  <2>. HIDE DEF d
  <2>4. BalanceIn(C, t) = BalanceIn(B, t) + r.amount
    BY <2>2, <2>3, BalanceInt
  <2>. QED BY <1>3, <1>4, <2>4 DEF C
<1>5. CASE r.teller # t
  <2>1. {q \in DOMAIN C : q.teller = t} = {q \in DOMAIN B : q.teller = t}
    BY <1>1, <1>5
  <2>2. \A q \in DOMAIN B : q.teller = t => C[q] = B[q]
    BY <1>1, <1>5
  <2>3. BalanceIn(C, t) = BalanceIn(B, t)
    BY <2>1, <2>2, BalanceSame
  <2>. QED BY <1>3, <1>5, <2>3, BalanceInt DEF C
<1>. QED BY <1>4, <1>5

\* A row DELETEd takes its amount from it.
LEMMA BalanceTaken ==
  ASSUME NEW B, IsBook(B), NEW r \in DOMAIN B, NEW t
  PROVE  /\ IsBook(B (-) SetToBag({r}))
         /\ BalanceIn(B, t) \in Int
         /\ BalanceIn(B (-) SetToBag({r}), t)
              = BalanceIn(B, t) - (IF r.teller = t THEN r.amount ELSE 0)
<1>. DEFINE C == B (-) SetToBag({r})
<1>1. /\ DOMAIN C = {q \in DOMAIN B : q = r => B[r] > 1} /\ C \in [DOMAIN C -> Nat \ {0}]
      /\ \A q : Copies(q, C) = Copies(q, B) - (IF q = r THEN 1 ELSE 0)
  <2>1. DOMAIN C = {q \in DOMAIN B : q = r => B[r] > 1} /\ C \in [DOMAIN C -> Nat \ {0}]
    BY TakenRow DEF IsBook
  <2>2. \A q \in DOMAIN C : C[q] = B[q] - (IF q = r THEN 1 ELSE 0)
    BY <2>1 DEF (-), SetToBag, IsBook
  <2>3. B[r] \in Nat \ {0} /\ \A q \in DOMAIN B : B[q] \in Nat
    BY DEF IsBook
  <2>. HIDE DEF C
  <2>. QED BY <2>1, <2>2, <2>3 DEF Copies
<1>2. IsFiniteSet(DOMAIN C)
  <2>. HIDE DEF C
  <2>. QED BY <1>1, FS_Subset DEF IsBook
<1>. HIDE DEF C
<1>3. IsBook(C) /\ r.amount \in Int
  BY <1>1, <1>2 DEF IsBook
<1>. DEFINE row == [teller |-> t, amount |-> IF r.teller = t THEN r.amount ELSE 0]
            q == IF r.teller = t THEN r ELSE row
<1>4. /\ q.teller = t /\ q.amount \in Int
      /\ q.amount = IF r.teller = t THEN r.amount ELSE 0
      /\ Copies(q, C) - Copies(q, B) = (IF r.teller = t THEN -1 ELSE 0)
  <2>1. Copies(q, B) \in Int
    BY DEF Copies, IsBook
  <2>2. Copies(q, C) = Copies(q, B) - (IF q = r THEN 1 ELSE 0)
    BY <1>1
  <2>3. q = r <=> r.teller = t
    OBVIOUS
  <2>4. q.teller = t /\ q.amount \in Int /\ q.amount = IF r.teller = t THEN r.amount ELSE 0
    BY <1>3
  <2>. HIDE DEF q
  <2>. QED BY <2>1, <2>2, <2>3, <2>4
<1>5. \A x \in (DOMAIN B \cup DOMAIN C) \ {q} : x.teller = t => Copies(x, C) = Copies(x, B)
  <2>1. \A x : x.teller = t /\ x # q => x # r
    OBVIOUS
  <2>2. \A x : Copies(x, B) \in Int
    BY DEF Copies, IsBook
  <2>. HIDE DEF q
  <2>. QED BY <1>1, <2>1, <2>2
<1>. HIDE DEF q
<1>6. /\ BalanceIn(B, t) \in Int
      /\ BalanceIn(C, t) = BalanceIn(B, t) + (Copies(q, C) - Copies(q, B)) * q.amount
  BY <1>3, <1>4, <1>5, BalanceMoved
<1>7. BalanceIn(C, t) = BalanceIn(B, t) - (IF r.teller = t THEN r.amount ELSE 0)
  BY <1>3, <1>4, <1>6
<1>. QED BY <1>3, <1>6, <1>7 DEF C

\* What rows DELETEd with a ticket take from a balance ...
LEMMA BalanceRestricted ==
  ASSUME NEW B, IsBook(B), NEW R \in SUBSET DOMAIN B, NEW t
  PROVE  /\ IsBook(Restrict(B, DOMAIN B \ R))
         /\ SumOf(B, Of(t, R)) \in Int
         /\ BalanceIn(Restrict(B, DOMAIN B \ R), t)
              = BalanceIn(B, t) - SumOf(B, Of(t, R))
<1>. DEFINE C == Restrict(B, DOMAIN B \ R)
            F == [r \in DOMAIN B |-> B[r] * r.amount]
            H == [r \in DOMAIN C |-> C[r] * r.amount]
            S == {r \in DOMAIN C : r.teller = t}
            T == {r \in R : r.teller = t}
<1>1. DOMAIN C = DOMAIN B \ R /\ \A r \in DOMAIN C : C[r] = B[r]
  BY DEF Restrict
<1>2. C \in [DOMAIN C -> Nat \ {0}]
  BY DEF Restrict, IsBook
<1>3. IsBook(C)
  <2>1. IsFiniteSet(DOMAIN C)
    BY <1>1, FS_Subset DEF IsBook
  <2>. HIDE DEF C
  <2>. QED BY <1>1, <1>2, <2>1 DEF IsBook
<1>. HIDE DEF C
<1>4. \A r \in DOMAIN B : F[r] \in Int
  <2>1. \A r \in DOMAIN B : B[r] \in Nat /\ r.amount \in Int
    BY DEF IsBook
  <2>. QED BY <2>1
<1>5. /\ IsFiniteSet(S) /\ IsFiniteSet(T) /\ S \cap T = {}
      /\ S \cup T \subseteq DOMAIN B
      /\ S \cup T = {r \in DOMAIN B : r.teller = t}
  <2>1. S \subseteq DOMAIN B /\ T \subseteq DOMAIN B /\ S \cap T = {}
        /\ S \cup T = {r \in DOMAIN B : r.teller = t}
    BY <1>1
  <2>. HIDE DEF S, T
  <2>. QED BY <2>1, FS_Subset DEF IsBook
<1>6. \A r \in S : H[r] = F[r]
  BY <1>1
<1>7. SumOf(B, T) = SumFunctionOnSet(F, T) /\ BalanceIn(C, t) = SumFunctionOnSet(H, S)
      /\ BalanceIn(B, t) = SumFunctionOnSet(F, S \cup T)
  BY <1>5, Zenon DEF SumOf, BalanceIn
<1>. HIDE DEF F, H, S, T
<1>8. \A r \in S \cup T : F[r] \in Int
  BY <1>4, <1>5
<1>9. /\ SumFunctionOnSet(F, S \cup T) = SumFunctionOnSet(F, S) + SumFunctionOnSet(F, T)
      /\ SumFunctionOnSet(F, S) \in Int
      /\ SumFunctionOnSet(F, T) \in Int
  BY <1>5, <1>8, SumUnion, SumInt
<1>10. SumFunctionOnSet(H, S) = SumFunctionOnSet(F, S)
  BY <1>5, <1>6, SumSame
<1>. QED BY <1>3, <1>7, <1>9, <1>10 DEF C, T, Of

\* ... the adjustments put back.
LEMMA BalanceAdjusted ==
  ASSUME NEW B, IsBook(B), NEW t, NEW R, IsFiniteSet(R), \A r \in R : r.amount \in Int,
         NEW q, q.teller = t, q.amount \in Int,
         \A r \in R : r.teller = t => r = q,
         q \notin R => q.amount = 0
  PROVE  BalanceIn(B (+) SetToBag(R), t) = BalanceIn(B, t) + q.amount
<1>. DEFINE C == B (+) SetToBag(R)
<1>1. /\ DOMAIN C = DOMAIN B \cup R /\ C \in [DOMAIN C -> Nat \ {0}]
      /\ \A r : Copies(r, C) = Copies(r, B) + (IF r \in R THEN 1 ELSE 0)
  BY AddedRows DEF IsBook, Copies, (+), SetToBag, BagToSet
<1>2. IsFiniteSet(DOMAIN B \cup R)
  BY FS_Union DEF IsBook
<1>. HIDE DEF C
<1>3. IsBook(C)
  BY <1>1, <1>2 DEF IsBook
<1>4. \A x : Copies(x, B) \in Int
  BY DEF Copies, IsBook
<1>5. \A x \in (DOMAIN B \cup DOMAIN C) \ {q} : x.teller = t => Copies(x, C) = Copies(x, B)
  BY <1>1, <1>4
<1>. DEFINE d == Copies(q, C) - Copies(q, B)
<1>6. BalanceIn(C, t) = BalanceIn(B, t) + d * q.amount
  BY <1>3, <1>5, BalanceMoved
<1>7. IF q \in R THEN d = 1 ELSE d = 0 /\ q.amount = 0
  BY <1>1, <1>4
<1>. HIDE DEF d
<1>8. BalanceIn(C, t) = BalanceIn(B, t) + q.amount
  BY <1>6, <1>7, BalanceInt
<1>. QED BY <1>8 DEF C

\* A purge: what is taken comes back.
LEMMA BalancePurged ==
  ASSUME RowsTyped, NEW b, NEW t \in Tellers
  PROVE  BalanceIn(Restrict(ledger, DOMAIN ledger \ RowsOf(b)) (+) SetToBag(PurgeAdjustments(b)), t)
           = Balance(t)
<1>. DEFINE moved(u) == SumOf(ledger, {r \in RowsOf(b) : r.teller = u})
            rest == Restrict(ledger, DOMAIN ledger \ RowsOf(b))
            row(u) == LedgerRow(u, "ADJUSTMENT", moved(u), NoBet)
            added == {row(u) : u \in {v \in Tellers : moved(v) # 0}}
<1>1. IsBook(ledger)
  BY DEF RowsTyped, IsBook, Row
<1>2. RowsOf(b) \in SUBSET DOMAIN ledger
  BY DEF RowsOf
<1>3. IsBook(rest) /\ \A u : moved(u) \in Int /\ BalanceIn(rest, u) = Balance(u) - moved(u)
  <2>. DEFINE R == RowsOf(b)
  <2>1. R \in SUBSET DOMAIN ledger
    BY <1>2
  <2>2. ASSUME NEW u
        PROVE  /\ IsBook(Restrict(ledger, DOMAIN ledger \ R))
               /\ SumOf(ledger, Of(u, R)) \in Int
               /\ BalanceIn(Restrict(ledger, DOMAIN ledger \ R), u)
                    = BalanceIn(ledger, u) - SumOf(ledger, Of(u, R))
    <3>. HIDE DEF R
    <3>. QED BY <1>1, <2>1, BalanceRestricted
  <2>3. IsBook(rest)
    BY <2>2
  <2>4. ASSUME NEW u PROVE moved(u) \in Int /\ BalanceIn(rest, u) = Balance(u) - moved(u)
    BY <2>2, Zenon DEF Balance, Of
  <2>. HIDE DEF rest, moved
  <2>. QED BY <2>3, <2>4
<1>4. PurgeAdjustments(b) = added
  BY DEF PurgeAdjustments
<1>. HIDE DEF moved, rest
<1>5. /\ \A u : row(u).teller = u /\ row(u).amount = moved(u)
      /\ \A r \in added : r.amount \in Int /\ r = row(r.teller)
      /\ row(t) \notin added => moved(t) = 0
  BY <1>3 DEF LedgerRow
<1>6. IsFiniteSet(added)
  <2>. DEFINE moving == {v \in Tellers : moved(v) # 0}
              post == [u \in moving |-> row(u)]
  <2>1. IsFiniteSet(moving)
    BY ConstantTypes, FS_Subset
  <2>2. added = {row(u) : u \in moving}
    OBVIOUS
  <2>3. post \in Surjection(moving, added)
    <3>. HIDE DEF moving, row, added
    <3>. QED BY <2>2 DEF Surjection
  <2>. HIDE DEF moving, post
  <2>. QED BY <2>1, <2>3, FS_Surjection
<1>. HIDE DEF row, added
<1>7. BalanceIn(rest (+) SetToBag(added), t) = BalanceIn(rest, t) + moved(t)
  <2>. DEFINE q == row(t)
  <2>1. /\ q.teller = t /\ q.amount = moved(t) /\ q.amount \in Int
        /\ \A r \in added : r.amount \in Int /\ (r.teller = t => r = q)
        /\ q \notin added => q.amount = 0
    BY <1>3, <1>5
  <2>. HIDE DEF q
  <2>2. BalanceIn(rest (+) SetToBag(added), t) = BalanceIn(rest, t) + q.amount
    BY <1>3, <1>6, <2>1, BalanceAdjusted
  <2>. QED BY <2>1, <2>2
<1>8. Balance(t) \in Int
  BY <1>1, BalanceInt DEF Balance
<1>9. BalanceIn(rest (+) SetToBag(added), t) = Balance(t)
  BY <1>3, <1>7, <1>8
<1>. QED BY <1>4, <1>9 DEF rest

\* The steps that leave ledger and drawers alone.
LEMMA CashIdle ==
  ASSUME LedgerIsCash, ledger' = ledger, drawer' = drawer PROVE LedgerIsCash'
BY DEF LedgerIsCash, Balance

\* The steps that post one row.
LEMMA CashPosted ==
  ASSUME TypeOK, LedgerIsCash, NEW t \in Tellers, NEW type, NEW amount \in Int, NEW b,
         ledger' = Posted({LedgerRow(t, type, amount, b)}),
         drawer' = [drawer EXCEPT ![t] = @ + amount]
  PROVE  LedgerIsCash'
<1>. DEFINE row == LedgerRow(t, type, amount, b)
<1>1. IsBook(ledger) /\ \A u \in Tellers : drawer[u] \in Int
  BY DEF TypeOK, RowsTyped, HistoryTyped, IsBook, Row
<1>2. row.teller = t /\ row.amount = amount
  BY DEF LedgerRow
<1>3. ledger' = ledger (+) SetToBag({row})
  BY DEF Posted
<1>. HIDE DEF row
<1>4. ASSUME NEW u \in Tellers PROVE BalanceIn(ledger', u) = drawer'[u]
  <2>1. BalanceIn(ledger', u) = BalanceIn(ledger, u) + (IF t = u THEN amount ELSE 0)
    BY <1>1, <1>2, <1>3, BalancePosted
  <2>2. BalanceIn(ledger, u) = drawer[u]
    BY DEF LedgerIsCash, Balance
  <2>3. drawer'[u] = IF t = u THEN drawer[u] + amount ELSE drawer[u]
    BY DEF TypeOK, HistoryTyped
  <2>. QED BY <1>1, <2>1, <2>2, <2>3
<1>. QED BY <1>4 DEF LedgerIsCash, Balance

\* A deleted remit leaves its amount behind.
LEMMA CashRewritten ==
  ASSUME TypeOK, LedgerIsCash, NEW r \in DOMAIN ledger, DeleteRemit(r)
  PROVE  LedgerIsCash'
<1>. DEFINE rest == ledger (-) SetToBag({r})
            row == LedgerRow(r.teller, "ADJUSTMENT", r.amount, NoBet)
<1>1. IsBook(ledger) /\ r.amount \in Int
  BY DEF TypeOK, RowsTyped, IsBook, Row
<1>2. row.teller = r.teller /\ row.amount = r.amount
  BY DEF LedgerRow
<1>3. ledger' = rest (+) SetToBag({row}) /\ drawer' = drawer
  BY DEF DeleteRemit, history
<1>4. ASSUME NEW u \in Tellers PROVE BalanceIn(ledger', u) = BalanceIn(ledger, u)
  <2>1. /\ IsBook(rest) /\ BalanceIn(ledger, u) \in Int
        /\ BalanceIn(rest, u) = BalanceIn(ledger, u) - (IF r.teller = u THEN r.amount ELSE 0)
    BY <1>1, BalanceTaken
  <2>. HIDE DEF rest, row
  <2>2. BalanceIn(ledger', u) = BalanceIn(rest, u) + (IF r.teller = u THEN r.amount ELSE 0)
    BY <1>1, <1>2, <1>3, <2>1, BalancePosted
  <2>. QED BY <1>1, <2>1, <2>2
<1>. QED BY <1>3, <1>4 DEF LedgerIsCash, Balance

\* Every step moves the balance of a teller as it moves the drawer.
LEMMA NextCash == TypeOK /\ LedgerIsCash /\ [Next]_vars => LedgerIsCash'
<1>. SUFFICES ASSUME TypeOK, LedgerIsCash, [Next]_vars PROVE LedgerIsCash'
  OBVIOUS
<1>1. CASE Tuning \/ Lifecycle \/ Holding
  <2>1. ledger' = ledger /\ drawer' = drawer
    BY <1>1 DEF Tuning, Lifecycle, Holding, UpdateSetting, CreateFight, CloseFight, ReopenFight,
      SetFightLastCall, ResumeFightOpen, MoveFight, ToggleSide, history
  <2>. QED BY <2>1, CashIdle
<1>2. CASE Declaring \/ Correcting \/ Reverting \/ UNCHANGED vars
  <2>1. ledger' = ledger /\ drawer' = drawer
    BY <1>2 DEF Declaring, Correcting, Reverting, SettleFight, CancelFight, CorrectFight,
      UnsettleFight, vars, history
  <2>. QED BY <2>1, CashIdle
<1>3. CASE Betting
  <2>1. ASSUME NEW b \in BetIds, NEW f, NEW t \in Tellers, NEW s, NEW a \in Stakes,
               PlaceBet(b, f, t, s, a)
        PROVE  LedgerIsCash'
    <3>1. a \in Int
      BY ConstantTypes
    <3>. QED BY <2>1, <3>1, CashPosted DEF PlaceBet
  <2>2. ASSUME NEW b \in DOMAIN bets, VoidBet(b) PROVE LedgerIsCash'
    <3>. DEFINE bet == bets[b]
    <3>1. bet.teller \in Tellers /\ bet.amount \in Int /\ -bet.amount \in Int
      BY RowsInHand DEF Ticket, Money
    <3>2. /\ ledger' = Posted({LedgerRow(bet.teller, "BET_VOIDED", -bet.amount, b)})
          /\ drawer' = [drawer EXCEPT ![bet.teller] = @ - bet.amount]
      BY <2>2 DEF VoidBet
    <3>3. drawer' = [drawer EXCEPT ![bet.teller] = @ + (-bet.amount)]
      BY <3>1, <3>2 DEF TypeOK, HistoryTyped
    <3>. HIDE DEF bet
    <3>. QED BY <3>1, <3>2, <3>3, CashPosted
  <2>. QED BY <1>3, <2>1, <2>2 DEF Betting
<1>4. CASE Paying
  <2>. PICK b \in DOMAIN bets : PayBet(b)
    BY <1>4 DEF Paying
  <2>. DEFINE bet == bets[b]
              type == IF bet.status = "PENDING_REFUND" THEN "BET_REFUNDED" ELSE "PAYOUT"
  <2>1. bet.teller \in Tellers /\ bet.payout \in Int /\ -bet.payout \in Int
    BY RowsInHand DEF Ticket, Money
  <2>2. /\ ledger' = Posted({LedgerRow(bet.teller, type, -bet.payout, b)})
        /\ drawer' = [drawer EXCEPT ![bet.teller] = @ - bet.payout]
    BY DEF PayBet
  <2>3. drawer' = [drawer EXCEPT ![bet.teller] = @ + (-bet.payout)]
    BY <2>1, <2>2 DEF TypeOK, HistoryTyped
  <2>. HIDE DEF bet, type
  <2>. QED BY <2>1, <2>2, <2>3, CashPosted
<1>5. CASE Purging
  <2>1. PICK b \in DOMAIN bets : PurgeBet(b)
    BY <1>5 DEF Purging
  <2>2. /\ ledger' = Restrict(ledger, DOMAIN ledger \ RowsOf(b)) (+) SetToBag(PurgeAdjustments(b))
        /\ drawer' = drawer
    BY <2>1 DEF PurgeBet
  <2>3. \A t \in Tellers : BalanceIn(ledger', t) = Balance(t)
    BY <2>2, BalancePurged DEF TypeOK
  <2>. QED BY <2>2, <2>3 DEF LedgerIsCash, Balance
<1>6. CASE Cash
  <2>1. ASSUME NEW t \in Tellers, NEW a \in CashAmounts, CashAdvance(t, a) PROVE LedgerIsCash'
    <3>1. a \in Int
      BY ConstantTypes
    <3>. QED BY <2>1, <3>1, CashPosted DEF CashAdvance
  <2>2. ASSUME NEW t \in Tellers, NEW a \in CashAmounts, CashRemit(t, a) PROVE LedgerIsCash'
    <3>1. a \in Int /\ -a \in Int
      BY ConstantTypes
    <3>2. drawer' = [drawer EXCEPT ![t] = @ + (-a)]
      BY <2>2, <3>1 DEF CashRemit, TypeOK, HistoryTyped
    <3>3. ledger' = Posted({LedgerRow(t, "REMIT", -a, NoBet)})
      BY <2>2 DEF CashRemit
    <3>. QED BY <3>1, <3>2, <3>3, CashPosted
  <2>. QED BY <1>6, <2>1, <2>2, CashRewritten DEF Cash
<1>. QED BY <1>1, <1>2, <1>3, <1>4, <1>5, <1>6 DEF Next

\* The empty ledger of a new session.
LEMMA InitCash == Init => LedgerIsCash
<1>. SUFFICES ASSUME Init, NEW t \in Tellers PROVE Balance(t) = drawer[t]
  BY DEF LedgerIsCash
<1>1. DOMAIN ledger = {} /\ drawer[t] = 0
  BY DEF Init, EmptyBag, SetToBag
<1>2. {r \in DOMAIN ledger : r.teller = t} = {}
  BY <1>1
<1>. QED BY <1>1, <1>2, SumEmpty, Zenon DEF Balance, BalanceIn, SumOf

(***************************************************************************)
(* SUM(amount) over a teller's rows is the cash in the teller's drawer,    *)
(* whatever is bet, paid, purged and deleted, for any number of tellers    *)
(* and rows.                                                               *)
(***************************************************************************)
THEOREM LedgerCash == Spec => []LedgerIsCash
<1>1. Init => TypeOK /\ LedgerIsCash
  BY InitType, InitCash
<1>2. TypeOK /\ LedgerIsCash /\ [Next]_vars => TypeOK' /\ LedgerIsCash'
  BY NextType, NextCash
<1>. QED BY <1>1, <1>2, PTL DEF Spec

-----------------------------------------------------------------------------
(* One ticket and its rows                                                 *)

\* The rows of a ticket in a ledger.
Rows(b, book) == {r \in DOMAIN book : r.bet = b}

\* The ledger holds what it must for one ticket.
Matches(b, bet, book) ==
  /\ {r.type : r \in Rows(b, book)} = RowTypesFor(bet.status)
  /\ \A r \in Rows(b, book) :
       /\ book[r] = 1
       /\ r.teller = bet.teller
       /\ RowAmountFits(bet, r)
       /\ \A q \in Rows(b, book) : q.type = r.type => q = r

LEMMA MatchesEach == LedgerMatchesTickets <=> \A b \in DOMAIN bets : Matches(b, bets[b], ledger)
BY DEF LedgerMatchesTickets, Matches, Rows, RowsOf

\* A ticket keeps its rows as long as they say the same of it.
LEMMA MatchesKept ==
  ASSUME NEW b, NEW bet, NEW new, NEW B, NEW C, Matches(b, bet, B),
         Rows(b, C) = Rows(b, B), \A r \in Rows(b, B) : C[r] = B[r],
         new.teller = bet.teller, RowTypesFor(new.status) = RowTypesFor(bet.status),
         \A r \in Rows(b, B) :
           r.type \in RowTypesFor(bet.status) /\ RowAmountFits(bet, r) => RowAmountFits(new, r)
  PROVE  Matches(b, new, C)
BY DEF Matches

\* A row of a new type, for a ticket that now calls for it.
LEMMA MatchesPosted ==
  ASSUME NEW b, NEW bet, NEW new, NEW B, NEW row, B \in [DOMAIN B -> Nat \ {0}],
         Matches(b, bet, B), row.bet = b, row.teller = new.teller, RowAmountFits(new, row),
         new.teller = bet.teller,
         RowTypesFor(new.status) = RowTypesFor(bet.status) \cup {row.type},
         row.type \notin RowTypesFor(bet.status),
         \A r \in Rows(b, B) :
           r.type \in RowTypesFor(bet.status) /\ RowAmountFits(bet, r) => RowAmountFits(new, r)
  PROVE  Matches(b, new, B (+) SetToBag({row}))
<1>. DEFINE C == B (+) SetToBag({row})
<1>1. DOMAIN C = DOMAIN B \cup {row} /\ \A r \in DOMAIN B \ {row} : C[r] = B[r]
  BY DEF (+), SetToBag, BagToSet
<1>2. row \notin Rows(b, B)
  BY DEF Matches
<1>3. row \notin DOMAIN B
  BY <1>2 DEF Rows
<1>4. C[row] = 1
  BY <1>3 DEF (+), SetToBag, BagToSet
<1>. HIDE DEF C
<1>5. Rows(b, C) = Rows(b, B) \cup {row} /\ \A r \in Rows(b, B) : C[r] = B[r] /\ r # row
  BY <1>1, <1>3 DEF Rows
<1>6. {r.type : r \in Rows(b, C)} = RowTypesFor(new.status)
  BY <1>5 DEF Matches
<1>7. \A r \in Rows(b, B) : r.type # row.type
  BY DEF Matches
<1>8. Matches(b, new, C)
  BY <1>4, <1>5, <1>6, <1>7 DEF Matches
<1>. QED BY <1>8 DEF C

\* The first row of a ticket.
LEMMA MatchesFirst ==
  ASSUME NEW b, NEW new, NEW B, NEW row, Rows(b, B) = {},
         row.bet = b, row.teller = new.teller, RowAmountFits(new, row),
         RowTypesFor(new.status) = {row.type}
  PROVE  Matches(b, new, B (+) SetToBag({row}))
<1>. DEFINE C == B (+) SetToBag({row})
<1>1. row \notin DOMAIN B
  BY DEF Rows
<1>2. DOMAIN C = DOMAIN B \cup {row} /\ C[row] = 1
  BY <1>1 DEF (+), SetToBag, BagToSet
<1>. HIDE DEF C
<1>3. Rows(b, C) = {row}
  BY <1>2 DEF Rows
<1>4. Matches(b, new, C)
  BY <1>2, <1>3 DEF Matches
<1>. QED BY <1>4 DEF C

\* Rows of other tickets, and of none, do not matter to a ticket.
LEMMA OtherRowsPosted ==
  ASSUME NEW b, NEW B, NEW R, \A r \in R : r.bet # b
  PROVE  /\ Rows(b, B (+) SetToBag(R)) = Rows(b, B)
         /\ B \in [DOMAIN B -> Nat \ {0}] =>
              \A r \in Rows(b, B) : (B (+) SetToBag(R))[r] = B[r]
BY DEF Rows, (+), SetToBag, BagToSet

\* No plan changes what the rows of a ticket must be.
LEMMA PlansKeepRows ==
  ASSUME NEW bet \in Ticket, NEW o, NEW ratios, NEW p,
         \/ CanSettle(o, ratios, bet) /\ p = SettledTicket(o, ratios, bet)
         \/ p = CorrectedTicket(o, ratios, bet)
         \/ CanCancel(bet) /\ p = CancelledTicket(bet)
         \/ p = UnsettledTicket(bet)
         \/ p = bet
  PROVE  /\ p.teller = bet.teller
         /\ RowTypesFor(p.status) = RowTypesFor(bet.status)
         /\ \A r : r.type \in RowTypesFor(bet.status) /\ RowAmountFits(bet, r)
                     => RowAmountFits(p, r)
<1>0. CASE p = bet
  BY <1>0
<1>. DEFINE Owed == {"PENDING", "WON", "LOST", "PENDING_REFUND"}
<1>1. ASSUME bet.status \in Owed, p.status \in Owed, SameBet(p, bet)
      PROVE  /\ p.teller = bet.teller
             /\ RowTypesFor(p.status) = RowTypesFor(bet.status)
             /\ \A r : r.type \in RowTypesFor(bet.status) /\ RowAmountFits(bet, r)
                         => RowAmountFits(p, r)
  <2>1. RowTypesFor(p.status) = {"BET_PLACED"} /\ RowTypesFor(bet.status) = {"BET_PLACED"}
    BY <1>1 DEF RowTypesFor
  <2>2. p.teller = bet.teller /\ p.amount = bet.amount
    BY <1>1 DEF SameBet
  <2>3. \A r : r.type = "BET_PLACED" => (RowAmountFits(bet, r) <=> r.amount = bet.amount)
                                        /\ (RowAmountFits(p, r) <=> r.amount = p.amount)
    BY DEF RowAmountFits
  <2>. QED BY <2>1, <2>2, <2>3
<1>2. CASE CanSettle(o, ratios, bet) /\ p = SettledTicket(o, ratios, bet)
  <2>1. CASE bet.status = "VOIDED"
    BY <1>0, <1>2, <2>1 DEF SettledTicket
  <2>2. CASE bet.status # "VOIDED"
    <3>1. bet.status \in Owed
      BY <1>2, <2>2 DEF CanSettle
    <3>2. p.status = TargetStatus(o, bet) /\ SameBet(p, bet)
      BY <1>2, <2>2 DEF SettledTicket, Ticket, SameBet
    <3>3. p.status \in Owed
      BY <3>2 DEF TargetStatus
    <3>. QED BY <1>1, <3>1, <3>2, <3>3
  <2>. QED BY <2>1, <2>2
<1>3. CASE p = CorrectedTicket(o, ratios, bet)
  <2>1. CASE CorrectionSkips(o, ratios, bet)
    BY <1>0, <1>3, <2>1 DEF CorrectedTicket
  <2>2. CASE ~CorrectionSkips(o, ratios, bet)
    <3>1. bet.status \in Owed \cup {"PAID"}
      BY <2>2 DEF CorrectionSkips, Ticket, TicketStatuses
    <3>2. /\ p.status = IF bet.status = "PAID" THEN "PAID" ELSE TargetStatus(o, bet)
          /\ SameBet(p, bet) /\ p.prevStatus = bet.status
      BY <1>3, <2>2 DEF CorrectedTicket, Ticket, SameBet
    <3>3. CASE bet.status = "PAID"
      <4>1. p.teller = bet.teller /\ p.status = bet.status /\ p.amount = bet.amount
            /\ p.prevStatus = "PAID"
        BY <3>2, <3>3 DEF SameBet
      <4>2. \A r : r.type \in RowTypesFor("PAID") => r.type \in {"BET_PLACED", "PAYOUT"}
        BY DEF RowTypesFor
      <4>. QED BY <3>3, <4>1, <4>2 DEF RowAmountFits
    <3>4. CASE bet.status # "PAID"
      <4>1. p.status \in Owed
        BY <3>2, <3>4 DEF TargetStatus
      <4>. QED BY <1>1, <3>1, <3>2, <3>4, <4>1
    <3>. QED BY <3>3, <3>4
  <2>. QED BY <2>1, <2>2
<1>4. CASE CanCancel(bet) /\ p = CancelledTicket(bet)
  <2>1. CASE bet.status = "VOIDED"
    BY <1>0, <1>4, <2>1 DEF CancelledTicket
  <2>2. CASE bet.status # "VOIDED"
    BY <1>1, <1>4, <2>2 DEF CanCancel, CancelledTicket, Ticket, SameBet
  <2>. QED BY <2>1, <2>2
<1>5. CASE p = UnsettledTicket(bet)
  <2>1. CASE bet.status \notin {"WON", "LOST", "PENDING_REFUND"}
    BY <1>0, <1>5, <2>1 DEF UnsettledTicket
  <2>2. CASE bet.status \in {"WON", "LOST", "PENDING_REFUND"}
    BY <1>1, <1>5, <2>2 DEF UnsettledTicket, Ticket, SameBet
  <2>. QED BY <2>1, <2>2
<1>. QED BY <1>0, <1>2, <1>3, <1>4, <1>5

-----------------------------------------------------------------------------
(* The steps of the book, and the rows of every ticket                     *)

LedgerInv == TicketInv /\ LedgerMatchesTickets

\* The steps that leave the ledger alone and tickets owing what they owed.
LEMMA MatchesIdle ==
  ASSUME LedgerMatchesTickets, ledger' = ledger, DOMAIN bets' = DOMAIN bets,
         \A b \in DOMAIN bets :
           /\ bets'[b].teller = bets[b].teller
           /\ RowTypesFor(bets'[b].status) = RowTypesFor(bets[b].status)
           /\ \A r : r.type \in RowTypesFor(bets[b].status) /\ RowAmountFits(bets[b], r)
                       => RowAmountFits(bets'[b], r)
  PROVE  LedgerMatchesTickets'
<1>1. ASSUME NEW b \in DOMAIN bets PROVE Matches(b, bets'[b], ledger')
  <2>1. Matches(b, bets[b], ledger)
    BY MatchesEach
  <2>. QED BY <2>1, MatchesKept
<1>. QED BY <1>1 DEF LedgerMatchesTickets, Matches, Rows, RowsOf

\* The declarations are such steps.
LEMMA DeclaredMatches ==
  ASSUME TypeOK, LedgerMatchesTickets, NEW f \in DOMAIN fights,
         \/ \E o \in Outcomes : SettleFight(f, o) \/ CorrectFight(f, o)
         \/ CancelFight(f)
         \/ UnsettleFight(f)
  PROVE  LedgerMatchesTickets'
<1>1. ledger' = ledger /\ DOMAIN bets' = DOMAIN bets
  BY DEF SettleFight, CorrectFight, CancelFight, UnsettleFight
<1>2. ASSUME NEW b \in DOMAIN bets
      PROVE  /\ bets'[b].teller = bets[b].teller
             /\ RowTypesFor(bets'[b].status) = RowTypesFor(bets[b].status)
             /\ \A r : r.type \in RowTypesFor(bets[b].status) /\ RowAmountFits(bets[b], r)
                         => RowAmountFits(bets'[b], r)
  <2>0. bets[b] \in Ticket
    BY RowsInHand
  <2>1. CASE \E o \in Outcomes : SettleFight(f, o)
    <3>1. PICK o \in Outcomes : SettleFight(f, o)
      BY <2>1
    <3>. DEFINE ratios == PayoutRatios(fights[f].pool, fights[f].rate, o)
    <3>2. \/ CanSettle(o, ratios, bets[b]) /\ bets'[b] = SettledTicket(o, ratios, bets[b])
          \/ bets'[b] = bets[b]
      BY <3>1 DEF SettleFight
    <3>. HIDE DEF ratios
    <3>. QED BY <2>0, <3>2, PlansKeepRows
  <2>2. CASE \E o \in Outcomes : CorrectFight(f, o)
    <3>1. PICK o \in Outcomes : CorrectFight(f, o)
      BY <2>2
    <3>. DEFINE ratios == PayoutRatios(fights[f].pool, fights[f].rate, o)
    <3>2. bets'[b] = CorrectedTicket(o, ratios, bets[b]) \/ bets'[b] = bets[b]
      BY <3>1 DEF CorrectFight
    <3>. HIDE DEF ratios
    <3>. QED BY <2>0, <3>2, PlansKeepRows
  <2>3. CASE CancelFight(f)
    <3>1. \/ CanCancel(bets[b]) /\ bets'[b] = CancelledTicket(bets[b])
          \/ bets'[b] = bets[b]
      BY <2>3 DEF CancelFight
    <3>. QED BY <2>0, <3>1, PlansKeepRows
  <2>4. CASE UnsettleFight(f)
    <3>1. bets'[b] = UnsettledTicket(bets[b]) \/ bets'[b] = bets[b]
      BY <2>4 DEF UnsettleFight
    <3>. QED BY <2>0, <3>1, PlansKeepRows
  <2>. QED BY <2>1, <2>2, <2>3, <2>4
<1>. QED BY <1>1, <1>2, MatchesIdle

\* The steps that post rows of no ticket, or of one that is not there any more.
LEMMA OthersMatch ==
  ASSUME TypeOK, LedgerMatchesTickets, NEW B, NEW R,
         ledger' = B (+) SetToBag(R), bets' = bets,
         B \in [DOMAIN B -> Nat \ {0}],
         \A b \in DOMAIN bets : /\ Rows(b, B) = Rows(b, ledger)
                                /\ \A r \in Rows(b, ledger) : B[r] = ledger[r]
                                /\ \A r \in R : r.bet # b
  PROVE  LedgerMatchesTickets'
<1>1. ASSUME NEW b \in DOMAIN bets PROVE Matches(b, bets'[b], ledger')
  <2>1. Matches(b, bets[b], ledger)
    BY MatchesEach
  <2>2. Rows(b, ledger') = Rows(b, ledger) /\ \A r \in Rows(b, ledger) : ledger'[r] = ledger[r]
    BY OtherRowsPosted
  <2>. QED BY <2>1, <2>2, MatchesKept
<1>. QED BY <1>1 DEF LedgerMatchesTickets, Matches, Rows, RowsOf

\* The steps that post a row of one ticket.
LEMMA OneMatches ==
  ASSUME TypeOK, LedgerMatchesTickets, NEW b, NEW row, row.bet = b, ledger' = Posted({row}),
         DOMAIN bets' = DOMAIN bets \cup {b},
         \A x \in DOMAIN bets \ {b} : bets'[x] = bets[x],
         Matches(b, bets'[b], ledger')
  PROVE  LedgerMatchesTickets'
<1>1. ASSUME NEW x \in DOMAIN bets \ {b} PROVE Matches(x, bets'[x], ledger')
  <2>1. Matches(x, bets[x], ledger)
    BY MatchesEach
  <2>2. ledger \in [DOMAIN ledger -> Nat \ {0}]
    BY DEF TypeOK, RowsTyped
  <2>3. Rows(x, ledger') = Rows(x, ledger) /\ \A r \in Rows(x, ledger) : ledger'[r] = ledger[r]
    BY <2>2 DEF Posted, Rows, (+), SetToBag, BagToSet
  <2>. QED BY <2>1, <2>3, MatchesKept
<1>2. \A x \in DOMAIN bets' : Matches(x, bets'[x], ledger')
  BY <1>1
<1>. QED BY <1>2 DEF LedgerMatchesTickets, Matches, Rows, RowsOf

\* A placement: the ticket is new and has no row yet.
LEMMA PlaceMatches ==
  ASSUME TypeOK, LedgerMatchesTickets, NEW b \in BetIds, NEW f, NEW t, NEW s, NEW a,
         PlaceBet(b, f, t, s, a)
  PROVE  LedgerMatchesTickets'
<1>. DEFINE row == LedgerRow(t, "BET_PLACED", a, b)
            new == NewTicket(f, t, s, a)
<1>1. /\ b \notin DOMAIN bets /\ ledger' = Posted({row})
      /\ DOMAIN bets' = DOMAIN bets \cup {b} /\ bets'[b] = new
      /\ \A x \in DOMAIN bets \ {b} : bets'[x] = bets[x]
  BY DEF PlaceBet
<1>2. row.bet = b /\ row.teller = t /\ row.type = "BET_PLACED" /\ row.amount = a
  BY DEF LedgerRow
<1>3. new.teller = t /\ new.status = "PENDING" /\ new.amount = a
  BY DEF NewTicket
<1>. HIDE DEF row, new
<1>4. Rows(b, ledger) = {}
  BY <1>1, ConstantTypes DEF TypeOK, RowsTyped, Rows
<1>5. RowTypesFor(new.status) = {row.type} /\ RowAmountFits(new, row)
  BY <1>2, <1>3 DEF RowTypesFor, RowAmountFits
<1>6. Matches(b, bets'[b], ledger')
  BY <1>1, <1>2, <1>3, <1>4, <1>5, MatchesFirst DEF Posted
<1>. QED BY <1>1, <1>2, <1>6, OneMatches

\* The steps that cash a ticket: its status changes and one row says so.
LEMMA CashedMatches ==
  ASSUME TypeOK, LedgerMatchesTickets, NEW b \in DOMAIN bets, NEW row, NEW new,
         bets' = [bets EXCEPT ![b] = new], ledger' = Posted({row}),
         row.bet = b, row.teller = bets[b].teller, SameBet(new, bets[b]),
         bets[b].status \in {"PENDING", "WON", "PENDING_REFUND"},
         RowTypesFor(new.status) = {"BET_PLACED", row.type}, row.type # "BET_PLACED",
         RowAmountFits(new, row)
  PROVE  LedgerMatchesTickets'
<1>1. /\ DOMAIN bets' = DOMAIN bets \cup {b} /\ bets'[b] = new
      /\ \A x \in DOMAIN bets \ {b} : bets'[x] = bets[x]
  OBVIOUS
<1>2. Matches(b, bets[b], ledger) /\ ledger \in [DOMAIN ledger -> Nat \ {0}]
  BY MatchesEach DEF TypeOK, RowsTyped
<1>3. RowTypesFor(bets[b].status) = {"BET_PLACED"}
  BY DEF RowTypesFor
<1>4. ASSUME NEW r, r.type \in RowTypesFor(bets[b].status), RowAmountFits(bets[b], r)
      PROVE  RowAmountFits(new, r)
  BY <1>3, <1>4 DEF RowAmountFits, SameBet
<1>5. new.teller = bets[b].teller
  BY DEF SameBet
<1>6. Matches(b, new, ledger (+) SetToBag({row}))
  BY <1>2, <1>3, <1>4, <1>5, MatchesPosted
<1>. QED BY <1>1, <1>6, OneMatches DEF Posted

\* A void, by the ticket's teller or an admin.
LEMMA VoidMatches ==
  ASSUME TypeOK, LedgerMatchesTickets, NEW b \in DOMAIN bets, VoidBet(b)
  PROVE  LedgerMatchesTickets'
<1>. DEFINE row == LedgerRow(bets[b].teller, "BET_VOIDED", -bets[b].amount, b)
            new == [bets[b] EXCEPT !.status = "VOIDED"]
<1>1. /\ bets' = [bets EXCEPT ![b] = new] /\ ledger' = Posted({row})
      /\ bets[b].status = "PENDING"
  BY DEF VoidBet
<1>2. /\ row.bet = b /\ row.teller = bets[b].teller /\ row.type = "BET_VOIDED"
      /\ row.amount = -bets[b].amount
  BY DEF LedgerRow
<1>3. SameBet(new, bets[b]) /\ new.status = "VOIDED" /\ new.amount = bets[b].amount
  BY RowsInHand DEF SameBet, Ticket
<1>. HIDE DEF row, new
<1>4. RowTypesFor(new.status) = {"BET_PLACED", row.type} /\ RowAmountFits(new, row)
  BY <1>2, <1>3 DEF RowTypesFor, RowAmountFits
<1>. QED BY <1>1, <1>2, <1>3, <1>4, CashedMatches

\* A payment: what a refund pays is the stake, and a win its payout.
LEMMA PayMatches ==
  ASSUME TicketInv, LedgerMatchesTickets, NEW b \in DOMAIN bets, PayBet(b)
  PROVE  LedgerMatchesTickets'
<1>. DEFINE refund == bets[b].status = "PENDING_REFUND"
            row == LedgerRow(bets[b].teller, IF refund THEN "BET_REFUNDED" ELSE "PAYOUT",
                             -bets[b].payout, b)
            new == [bets[b] EXCEPT !.status = IF refund THEN "REFUNDED" ELSE "PAID"]
<1>1. /\ bets' = [bets EXCEPT ![b] = new] /\ ledger' = Posted({row})
      /\ bets[b].status \in {"WON", "PENDING_REFUND"}
  BY DEF PayBet
<1>2. /\ row.bet = b /\ row.teller = bets[b].teller /\ row.amount = -bets[b].payout
      /\ row.type = IF refund THEN "BET_REFUNDED" ELSE "PAYOUT"
  BY DEF LedgerRow
<1>3. /\ SameBet(new, bets[b]) /\ new.status = IF refund THEN "REFUNDED" ELSE "PAID"
      /\ new.amount = bets[b].amount /\ new.payout = bets[b].payout
  BY RowsInHand DEF SameBet, Ticket, TicketInv
<1>4. refund => bets[b].payout = bets[b].amount
  <2>1. TicketFitsFight(bets[b], fights[bets[b].fight])
    BY DEF TicketInv, TicketsFollowFight
  <2>2. refund => RefundEligible(bets[b].fight)
    BY DEF PayBet
  <2>. DEFINE bet == bets[b]  paidFor == fights[bet.fight]
  <2>3. ASSUME paidFor.status = "CANCELLED", bet.status = "PENDING_REFUND"
        PROVE  bet.payout = bet.amount
    BY <2>1, <2>3 DEF TicketFitsFight, LiveStatuses
  <2>4. ASSUME paidFor.status = "SETTLED", paidFor.outcome = "DRAW", bet.status = "PENDING_REFUND"
        PROVE  bet.payout = bet.amount
    <3>1. TicketFitsFight(bet, paidFor)
      BY <2>1
    <3>. HIDE DEF bet, paidFor
    <3>2. \/ bet.payout = TargetPayout(paidFor.outcome, paidFor.ratios, bet)
          \/ bet.payout = bet.amount
      BY <2>4, <3>1 DEF TicketFitsFight, LiveStatuses
    <3>3. TargetPayout("DRAW", paidFor.ratios, bet) = bet.amount
      <4>1. bet.side # "DRAW"
        BY RowsInHand DEF TicketInv, Ticket, Sides, bet
      <4>. QED BY <4>1 DEF TargetPayout
    <3>. QED BY <2>4, <3>2, <3>3
  <2>. QED BY <2>2, <2>3, <2>4 DEF RefundEligible
<1>. HIDE DEF row, new
<1>5. RowTypesFor(new.status) = {"BET_PLACED", row.type} /\ RowAmountFits(new, row)
  BY <1>2, <1>3, <1>4 DEF RowTypesFor, RowAmountFits
<1>. QED BY <1>1, <1>2, <1>3, <1>5, CashedMatches DEF TicketInv

\* A purge: the rows of the ticket go with it, those of the others stay.
LEMMA PurgeMatches ==
  ASSUME TypeOK, LedgerMatchesTickets, NEW b \in DOMAIN bets, PurgeBet(b)
  PROVE  LedgerMatchesTickets'
<1>. DEFINE rest == Restrict(ledger, DOMAIN ledger \ RowsOf(b))
<1>1. /\ DOMAIN rest = DOMAIN ledger \ RowsOf(b)
      /\ \A r \in DOMAIN rest : rest[r] = ledger[r]
      /\ rest \in [DOMAIN rest -> Nat \ {0}]
  BY DEF Restrict, TypeOK, RowsTyped
<1>2. /\ ledger' = rest (+) SetToBag(PurgeAdjustments(b))
      /\ DOMAIN bets' = DOMAIN bets \ {b}
      /\ \A x \in DOMAIN bets' : bets'[x] = bets[x]
  BY DEF PurgeBet, Restrict
<1>3. \A r \in PurgeAdjustments(b) : r.bet = NoBet
  <2>. DEFINE moved(t) == SumOf(ledger, {r \in RowsOf(b) : r.teller = t})
              row(t) == LedgerRow(t, "ADJUSTMENT", moved(t), NoBet)
  <2>1. PurgeAdjustments(b) = {row(t) : t \in {u \in Tellers : moved(u) # 0}}
    BY DEF PurgeAdjustments
  <2>2. \A t : row(t).bet = NoBet
    BY DEF LedgerRow
  <2>. HIDE DEF row, moved
  <2>. QED BY <2>1, <2>2
<1>. HIDE DEF rest
<1>4. ASSUME NEW x \in DOMAIN bets' PROVE Matches(x, bets'[x], ledger')
  <2>1. Matches(x, bets[x], ledger) /\ x \in BetIds /\ x # b
    BY <1>2, MatchesEach DEF TypeOK, TicketsTyped
  <2>2. Rows(x, rest) = Rows(x, ledger) /\ \A r \in Rows(x, ledger) : rest[r] = ledger[r]
    BY <1>1, <2>1 DEF Rows, RowsOf
  <2>3. \A r \in PurgeAdjustments(b) : r.bet # x
    BY <1>3, <2>1, ConstantTypes
  <2>4. Rows(x, ledger') = Rows(x, rest) /\ \A r \in Rows(x, rest) : ledger'[r] = rest[r]
    BY <1>1, <1>2, <2>3, OtherRowsPosted
  <2>. QED BY <1>2, <2>1, <2>2, <2>4, MatchesKept
<1>. QED BY <1>4 DEF LedgerMatchesTickets, Matches, Rows, RowsOf

\* Rows of no ticket come and go.
LEMMA CashMatches ==
  ASSUME TypeOK, LedgerMatchesTickets,
         \/ \E t \in Tellers, a \in CashAmounts : CashAdvance(t, a) \/ CashRemit(t, a)
         \/ \E r \in DOMAIN ledger : r.bet = NoBet /\ DeleteRemit(r)
  PROVE  LedgerMatchesTickets'
<1>0. /\ ledger \in [DOMAIN ledger -> Nat \ {0}]
      /\ \A b \in DOMAIN bets : b # NoBet
  BY ConstantTypes DEF TypeOK, RowsTyped, TicketsTyped
<1>1. ASSUME NEW row, row.bet = NoBet, ledger' = Posted({row}), bets' = bets
      PROVE  LedgerMatchesTickets'
  BY <1>0, <1>1, OthersMatch DEF Posted
<1>2. CASE \E t \in Tellers, a \in CashAmounts : CashAdvance(t, a) \/ CashRemit(t, a)
  <2>1. PICK t, a : CashAdvance(t, a) \/ CashRemit(t, a)
    BY <1>2
  <2>. DEFINE in == LedgerRow(t, "CASH_ADVANCE", a, NoBet)
              out == LedgerRow(t, "REMIT", -a, NoBet)
  <2>2. in.bet = NoBet /\ out.bet = NoBet
    BY DEF LedgerRow
  <2>3. bets' = bets /\ (ledger' = Posted({in}) \/ ledger' = Posted({out}))
    BY <2>1 DEF CashAdvance, CashRemit
  <2>. HIDE DEF in, out
  <2>. QED BY <1>1, <2>2, <2>3
<1>3. CASE \E r \in DOMAIN ledger : r.bet = NoBet /\ DeleteRemit(r)
  <2>1. PICK r \in DOMAIN ledger : r.bet = NoBet /\ DeleteRemit(r)
    BY <1>3
  <2>. DEFINE rest == ledger (-) SetToBag({r})
              row == LedgerRow(r.teller, "ADJUSTMENT", r.amount, NoBet)
  <2>2. /\ DOMAIN rest = {q \in DOMAIN ledger : q = r => ledger[r] > 1}
        /\ rest \in [DOMAIN rest -> Nat \ {0}]
    BY <1>0, TakenRow
  <2>3. \A q \in DOMAIN rest \ {r} : rest[q] = ledger[q]
    <3>1. \A q \in DOMAIN ledger : ledger[q] \in Nat
      BY <1>0
    <3>2. \A q \in DOMAIN rest : q \in DOMAIN ledger
      BY <2>2
    <3>. QED BY <1>0, <3>1, <3>2 DEF (-), SetToBag
  <2>4. row.bet = NoBet /\ ledger' = rest (+) SetToBag({row}) /\ bets' = bets
    BY <2>1 DEF LedgerRow, DeleteRemit
  <2>. HIDE DEF rest, row
  <2>5. \A b \in DOMAIN bets : Rows(b, rest) = Rows(b, ledger)
                               /\ \A q \in Rows(b, ledger) : rest[q] = ledger[q]
    BY <1>0, <2>1, <2>2, <2>3 DEF Rows
  <2>. QED BY <1>0, <2>2, <2>4, <2>5, OthersMatch
<1>. QED BY <1>2, <1>3

\* Every step leaves every ticket with the rows its status calls for.
LEMMA NextMatches == LedgerInv /\ [Next]_vars => LedgerMatchesTickets'
<1>. SUFFICES ASSUME LedgerInv, [Next]_vars PROVE LedgerMatchesTickets'
  OBVIOUS
<1>0. TypeOK /\ TicketInv /\ LedgerMatchesTickets
  BY DEF LedgerInv, TicketInv
<1>1. CASE bets' = bets /\ ledger' = ledger
  BY <1>0, <1>1 DEF LedgerMatchesTickets, RowsOf
<1>2. CASE Tuning \/ Lifecycle \/ Holding \/ UNCHANGED vars
  <2>1. bets' = bets /\ ledger' = ledger
    BY <1>2 DEF Tuning, Lifecycle, Holding, UpdateSetting, CreateFight, CloseFight, ReopenFight,
      SetFightLastCall, ResumeFightOpen, MoveFight, ToggleSide, vars
  <2>. QED BY <1>1, <2>1
<1>3. CASE Declaring \/ Correcting \/ Reverting
  BY <1>0, <1>3, DeclaredMatches DEF Declaring, Correcting, Reverting
<1>4. CASE Betting
  BY <1>0, <1>4, PlaceMatches, VoidMatches DEF Betting
<1>5. CASE Paying
  BY <1>0, <1>5, PayMatches DEF Paying
<1>6. CASE Purging
  BY <1>0, <1>6, PurgeMatches DEF Purging
<1>7. CASE Cash
  <2>1. ASSUME NEW r \in DOMAIN ledger, DeleteRemit(r) PROVE r.bet = NoBet
    <3>1. r.type = "REMIT"
      BY <2>1 DEF DeleteRemit
    <3>2. SUFFICES ASSUME r.bet # NoBet PROVE FALSE
      OBVIOUS
    <3>3. r.bet \in DOMAIN bets /\ Matches(r.bet, bets[r.bet], ledger)
      BY <1>0, <3>2, MatchesEach DEF TypeOK, RowsTyped
    <3>4. r.type \in RowTypesFor(bets[r.bet].status)
      BY <3>3 DEF Matches, Rows
    <3>. QED BY <3>1, <3>4 DEF RowTypesFor
  <2>. QED BY <1>0, <1>7, <2>1, CashMatches DEF Cash
<1>. QED BY <1>2, <1>3, <1>4, <1>5, <1>6, <1>7 DEF Next

(***************************************************************************)
(* No cash movement of a ticket is missing from the ledger or in it twice, *)
(* and none is on the wrong drawer or for the wrong amount, after any      *)
(* number of operations.  What it needs of the rest of the book is that    *)
(* tickets follow their fight: a refund pays what the row says it pays     *)
(* because a refundable ticket's payout is its stake.                      *)
(***************************************************************************)
THEOREM LedgerMatches == Spec => []LedgerMatchesTickets
<1>1. Init => LedgerInv
  BY InitType DEF Init, LedgerInv, TicketInv, SettledHasOutcome, TicketsFollowFight,
    LedgerMatchesTickets
<1>2. LedgerInv /\ [Next]_vars => LedgerInv'
  BY NextFits, NextMatches DEF LedgerInv
<1>3. LedgerInv => LedgerMatchesTickets
  BY DEF LedgerInv
<1>. QED BY <1>1, <1>2, <1>3, PTL DEF Spec

-----------------------------------------------------------------------------
(* What a fight has paid                                                   *)

Redeem == {"PAID", "REFUNDED"}

\* The tickets of a fight that were cashed, and what their rows say was paid.
Redeemed(f) == {b \in TicketsOf(f) : bets[b].status \in Redeem}
Payouts == [b \in DOMAIN bets |-> bets[b].payout]
PaidFor(f) == SumFunctionOnSet(Payouts, Redeemed(f))

\* A settled fight has the multipliers of its pools, no other has a result.
ResultDeclared ==
  \A f \in DOMAIN fights :
    IF fights[f].status = "SETTLED"
    THEN fights[f].ratios = PayoutRatios(fights[f].pool, fights[f].rate, fights[f].outcome)
    ELSE fights[f].outcome = None

\* The cash paid for a fight is what its cashed tickets say, as long as no
\* correction rewrote them; it is none as long as none was cashed.
CashAccounted ==
  /\ \A f \in DOMAIN fights :
       /\ Redeemed(f) = {} => paidOut[f] = 0
       /\ fights[f].prevOutcome = None => paidOut[f] = PaidFor(f)
  /\ \A f \in 1 .. MaxFights : f \notin DOMAIN fights => paidOut[f] = 0

\* The inductive invariant of a session without purges.
SolvencyInv == DeclarableInv /\ ResultDeclared /\ CashAccounted

\* No plan cashes a ticket, and only a correction rewrites a cashed payout.
LEMMA PlansKeepRedeemed ==
  ASSUME NEW bet \in Ticket, NEW o, NEW ratios, NEW p,
         \/ CanSettle(o, ratios, bet) /\ p = SettledTicket(o, ratios, bet)
         \/ p = CorrectedTicket(o, ratios, bet)
         \/ CanCancel(bet) /\ p = CancelledTicket(bet)
         \/ p = UnsettledTicket(bet)
         \/ p = bet
  PROVE  /\ p.status \in Redeem <=> bet.status \in Redeem
         /\ \/ bet.status \notin Redeem
            \/ p.payout = bet.payout
            \/ p = CorrectedTicket(o, ratios, bet)
<1>1. CASE CanSettle(o, ratios, bet) /\ p = SettledTicket(o, ratios, bet)
  BY <1>1 DEF CanSettle, SettledTicket, TargetStatus, Ticket, Redeem
<1>2. CASE p = CorrectedTicket(o, ratios, bet)
  BY <1>2 DEF CorrectedTicket, CorrectionSkips, TargetStatus, Ticket, Redeem
<1>3. CASE CanCancel(bet) /\ p = CancelledTicket(bet)
  BY <1>3 DEF CanCancel, CancelledTicket, Ticket, Redeem
<1>4. CASE p = UnsettledTicket(bet)
  BY <1>4 DEF UnsettledTicket, Ticket, Redeem
<1>5. CASE p = bet
  BY <1>5
<1>. QED BY <1>1, <1>2, <1>3, <1>4, <1>5

\* The cashed tickets of a fight are finitely many and their payouts numbers.
LEMMA RedeemedFinite ==
  ASSUME TicketsTyped, NEW f
  PROVE  /\ IsFiniteSet(Redeemed(f))
         /\ Redeemed(f) \subseteq DOMAIN bets
         /\ \A b \in Redeemed(f) : Payouts[b] = bets[b].payout /\ Payouts[b] \in Int
         /\ PaidFor(f) \in Int
<1>1. Redeemed(f) \subseteq DOMAIN bets
  BY DEF Redeemed, TicketsOf
<1>2. IsFiniteSet(Redeemed(f))
  BY <1>1, FS_Subset DEF TicketsTyped
<1>3. \A b \in Redeemed(f) : Payouts[b] = bets[b].payout /\ Payouts[b] \in Int
  BY <1>1 DEF Payouts, TicketsTyped, Ticket, Money
<1>. QED BY <1>1, <1>2, <1>3, SumInt DEF PaidFor

\* The steps that cash no ticket: they may rewrite the cashed tickets of a
\* fight only if there are none, or if the fight counts as corrected.
LEMMA AccountsKept ==
  ASSUME TypeOK, CashAccounted, DOMAIN fights' = DOMAIN fights, paidOut' = paidOut,
         DOMAIN bets \subseteq DOMAIN bets',
         \A b \in DOMAIN bets : /\ bets'[b].fight = bets[b].fight
                                /\ bets'[b].status \in Redeem <=> bets[b].status \in Redeem,
         \A b \in DOMAIN bets' \ DOMAIN bets : bets'[b].status \notin Redeem,
         \A f \in DOMAIN fights : fights'[f].prevOutcome = None =>
           \/ Redeemed(f) = {}
           \/ /\ fights[f].prevOutcome = None
              /\ \A b \in Redeemed(f) : bets'[b].payout = bets[b].payout
  PROVE  CashAccounted'
<1>1. \A f : Redeemed(f)' = Redeemed(f)
  BY DEF Redeemed, TicketsOf
<1>2. ASSUME NEW f \in DOMAIN fights, fights'[f].prevOutcome = None
      PROVE  paidOut[f] = SumFunctionOnSet(Payouts', Redeemed(f))
  <2>1. CASE Redeemed(f) = {}
    <3>1. SumFunctionOnSet(Payouts', {}) = 0
      BY SumEmpty
    <3>. QED BY <2>1, <3>1 DEF CashAccounted
  <2>2. CASE Redeemed(f) # {}
    <3>1. fights[f].prevOutcome = None /\ \A b \in Redeemed(f) : bets'[b].payout = bets[b].payout
      BY <1>2, <2>2
    <3>2. \A b \in Redeemed(f) : Payouts'[b] = Payouts[b]
      BY <3>1 DEF Payouts, Redeemed, TicketsOf
    <3>3. SumFunctionOnSet(Payouts', Redeemed(f)) = SumFunctionOnSet(Payouts, Redeemed(f))
      BY <3>2, RedeemedFinite, SumSame DEF TypeOK
    <3>. QED BY <3>1, <3>3 DEF CashAccounted, PaidFor
  <2>. QED BY <2>1, <2>2
<1>3. \A f : PaidFor(f)' = SumFunctionOnSet(Payouts', Redeemed(f)')
  BY DEF PaidFor
<1>. QED BY <1>1, <1>2, <1>3 DEF CashAccounted

\* A new fight has paid nobody.
LEMMA CreateAccounts ==
  ASSUME TypeOK, CashAccounted, CreateFight PROVE CashAccounted'
<1>1. PICK n \in 1 .. MaxFights :
        /\ n \notin DOMAIN fights
        /\ fights' = [f \in DOMAIN fights \cup {n} |->
                        IF f = n THEN NewFight(setting) ELSE fights[f]]
  BY ConstantTypes DEF CreateFight, IsNextNumber
<1>2. bets' = bets /\ paidOut' = paidOut
  BY DEF CreateFight, history
<1>3. \A f : Redeemed(f)' = Redeemed(f) /\ PaidFor(f)' = PaidFor(f)
  BY <1>2 DEF Redeemed, TicketsOf, PaidFor, Payouts
<1>4. Redeemed(n) = {}
  BY <1>1 DEF Redeemed, TicketsOf, TypeOK, TicketsTyped
<1>5. paidOut[n] = 0 /\ PaidFor(n) = 0
  BY <1>1, <1>4, SumEmpty DEF CashAccounted, PaidFor
<1>. QED BY <1>1, <1>2, <1>3, <1>5 DEF CashAccounted

\* A payment adds the ticket and its payout on both sides.
LEMMA PayAccounts ==
  ASSUME TypeOK, CashAccounted, NEW b \in DOMAIN bets, PayBet(b)
  PROVE  CashAccounted'
<1>0. PICK f \in DOMAIN fights : f = bets[b].fight
  BY RowsInHand
<1>. DEFINE payout == bets[b].payout
<1>1. /\ bets[b].status \notin Redeem /\ f \in DOMAIN fights /\ payout \in Int
      /\ fights' = fights /\ DOMAIN bets' = DOMAIN bets
      /\ paidOut' = [paidOut EXCEPT ![f] = @ + payout]
      /\ bets' = [bets EXCEPT ![b].status = bets'[b].status]
      /\ bets'[b].status \in Redeem
  BY <1>0, RowsInHand DEF PayBet, Redeem, Ticket, Money
<1>2. \A x \in DOMAIN bets : /\ bets'[x].payout = bets[x].payout
                             /\ bets'[x].fight = bets[x].fight
                             /\ x # b => bets'[x] = bets[x]
  BY <1>1, RowsInHand DEF Ticket
<1>. HIDE DEF payout
<1>3. Payouts' = Payouts
  BY <1>1, <1>2 DEF Payouts
<1>4. \A g : Redeemed(g)' = IF g = f THEN Redeemed(g) \cup {b} ELSE Redeemed(g)
  BY <1>0, <1>1, <1>2 DEF Redeemed, TicketsOf
<1>5. \A g : PaidFor(g)' = SumFunctionOnSet(Payouts, Redeemed(g)')
  BY <1>3 DEF PaidFor
<1>6. ASSUME NEW g, g = f PROVE PaidFor(g)' = payout + PaidFor(g)
  <2>1. b \notin Redeemed(g) /\ Payouts[b] = payout
    BY <1>1 DEF Redeemed, Payouts, payout
  <2>2. /\ IsFiniteSet(Redeemed(g)) /\ \A x \in Redeemed(g) : Payouts[x] \in Int
    BY RedeemedFinite DEF TypeOK
  <2>3. SumFunctionOnSet(Payouts, Redeemed(g) \cup {b})
          = Payouts[b] + SumFunctionOnSet(Payouts, Redeemed(g))
    BY <1>1, <2>1, <2>2, SumAdd
  <2>4. Redeemed(g)' = Redeemed(g) \cup {b}
    BY <1>4, <1>6
  <2>5. PaidFor(g)' = SumFunctionOnSet(Payouts, Redeemed(g) \cup {b})
    BY <1>5, <2>4, Zenon
  <2>. QED BY <2>1, <2>3, <2>5 DEF PaidFor
<1>7. \A g : g # f => PaidFor(g)' = PaidFor(g)
  BY <1>4, <1>5, Zenon DEF PaidFor
<1>8. /\ \A g \in DOMAIN fights : paidOut[g] \in Int /\ PaidFor(g) \in Int
      /\ \A g \in 1 .. MaxFights : paidOut'[g] = IF g = f THEN paidOut[g] + payout ELSE paidOut[g]
  BY <1>1, RedeemedFinite DEF TypeOK, FightsTyped, HistoryTyped, Money
<1>9. ASSUME NEW g \in DOMAIN fights
      PROVE  /\ Redeemed(g)' = {} => paidOut'[g] = 0
             /\ fights[g].prevOutcome = None => paidOut'[g] = PaidFor(g)'
  <2>1. g \in 1 .. MaxFights
    BY DEF TypeOK, FightsTyped
  <2>2. CASE g = f
    <3>1. Redeemed(g)' # {}
      BY <1>4, <2>2
    <3>2. fights[g].prevOutcome = None => paidOut[g] = PaidFor(g)
      BY DEF CashAccounted
    <3>3. PaidFor(g)' = payout + PaidFor(g) /\ paidOut'[g] = paidOut[g] + payout
      BY <1>6, <1>8, <2>1, <2>2
    <3>4. paidOut[g] \in Int /\ PaidFor(g) \in Int /\ payout \in Int
      BY <1>1, <1>8
    <3>. QED BY <3>1, <3>2, <3>3, <3>4
  <2>3. CASE g # f
    BY <1>4, <1>7, <1>8, <2>1, <2>3 DEF CashAccounted
  <2>. QED BY <2>2, <2>3
<1>10. \A g \in 1 .. MaxFights : g \notin DOMAIN fights => paidOut'[g] = 0
  BY <1>1, <1>8 DEF CashAccounted
<1>. QED BY <1>1, <1>9, <1>10 DEF CashAccounted

\* The declarations: a revert finds no cashed ticket, a correction marks the
\* fight, the others rewrite no cashed ticket.
LEMMA DeclaredAccounts ==
  ASSUME TicketInv, CashAccounted, NEW f \in DOMAIN fights,
         \/ \E o \in Outcomes : SettleFight(f, o) \/ CorrectFight(f, o)
         \/ CancelFight(f)
         \/ UnsettleFight(f)
  PROVE  CashAccounted'
<1>0. TypeOK /\ \A b \in DOMAIN bets : bets[b] \in Ticket /\ bets[b].fight \in DOMAIN fights
  BY RowsInHand DEF TicketInv
<1>1. /\ DOMAIN bets' = DOMAIN bets /\ DOMAIN fights' = DOMAIN fights
      /\ paidOut' = paidOut
  BY DEF SettleFight, CorrectFight, CancelFight, UnsettleFight, history
<1>2. \A b \in DOMAIN bets : bets'[b].fight = bets[b].fight
  BY <1>0, DeclaredKeep DEF SameBet
<1>. DEFINE Plan(b, p) == /\ p.status \in Redeem <=> bets[b].status \in Redeem
                          /\ bets[b].status \in Redeem => p.payout = bets[b].payout
<1>3. CASE \E o \in Outcomes : SettleFight(f, o)
  <2>. PICK o \in Outcomes : SettleFight(f, o)
    BY <1>3
  <2>. DEFINE ratios == PayoutRatios(fights[f].pool, fights[f].rate, o)
  <2>1. ASSUME NEW b \in DOMAIN bets PROVE Plan(b, bets'[b])
    <3>1. \/ CanSettle(o, ratios, bets[b]) /\ bets'[b] = SettledTicket(o, ratios, bets[b])
          \/ bets'[b] = bets[b]
      BY DEF SettleFight
    <3>. HIDE DEF ratios
    <3>. QED BY <1>0, <3>1 DEF CanSettle, SettledTicket, TargetStatus, Ticket, Redeem
  <2>2. \A g \in DOMAIN fights : fights'[g].prevOutcome = fights[g].prevOutcome
    <3>. HIDE DEF ratios
    <3>1. fights' = [fights EXCEPT ![f].status = "SETTLED", ![f].outcome = o,
                                   ![f].ratios = ratios]
      BY DEF SettleFight, ratios
    <3>. QED BY <1>0, <3>1, RowsInHand DEF Fight
  <2>. QED BY <1>0, <1>1, <1>2, <2>1, <2>2, AccountsKept DEF Redeemed, TicketsOf
<1>4. CASE \E o \in Outcomes : CorrectFight(f, o)
  <2>. PICK o \in Outcomes : CorrectFight(f, o)
    BY <1>4
  <2>. DEFINE ratios == PayoutRatios(fights[f].pool, fights[f].rate, o)
  <2>1. ASSUME NEW b \in DOMAIN bets
        PROVE  /\ bets'[b].status \in Redeem <=> bets[b].status \in Redeem
               /\ b \notin TicketsOf(f) => bets'[b] = bets[b]
    <3>1. /\ bets'[b] = CorrectedTicket(o, ratios, bets[b]) \/ bets'[b] = bets[b]
          /\ b \notin TicketsOf(f) => bets'[b] = bets[b]
      BY DEF CorrectFight
    <3>. HIDE DEF ratios
    <3>. QED BY <1>0, <3>1, PlansKeepRedeemed
  <2>2. /\ fights'[f].prevOutcome # None
        /\ \A g \in DOMAIN fights \ {f} : fights'[g] = fights[g]
    <3>1. fights[f].outcome \in Outcomes
      BY DEF CorrectFight, TicketInv, SettledHasOutcome
    <3>2. fights'[f].prevOutcome = fights[f].outcome
      <4>. HIDE DEF ratios
      <4>1. fights' = [fights EXCEPT ![f].outcome = o, ![f].ratios = ratios,
                                     ![f].prevOutcome = fights[f].outcome,
                                     ![f].prevRatios = fights[f].ratios]
        BY DEF CorrectFight, ratios
      <4>. QED BY <1>0, <4>1, RowsInHand DEF Fight
    <3>. QED BY <3>1, <3>2 DEF CorrectFight, Outcomes, Sides, None
  <2>. QED BY <1>0, <1>1, <1>2, <2>1, <2>2, AccountsKept DEF Redeemed, TicketsOf
<1>5. CASE CancelFight(f)
  <2>1. ASSUME NEW b \in DOMAIN bets PROVE Plan(b, bets'[b])
    <3>1. \/ CanCancel(bets[b]) /\ bets'[b] = CancelledTicket(bets[b])
          \/ bets'[b] = bets[b]
      BY <1>5 DEF CancelFight
    <3>. QED BY <1>0, <3>1 DEF CanCancel, CancelledTicket, Ticket, Redeem
  <2>2. \A g \in DOMAIN fights : fights'[g].prevOutcome = fights[g].prevOutcome
    BY <1>0, <1>5, RowsInHand DEF CancelFight, Fight
  <2>. QED BY <1>0, <1>1, <1>2, <2>1, <2>2, AccountsKept DEF Redeemed, TicketsOf
<1>6. CASE UnsettleFight(f)
  <2>1. ASSUME NEW b \in DOMAIN bets PROVE Plan(b, bets'[b])
    <3>1. bets'[b] = UnsettledTicket(bets[b]) \/ bets'[b] = bets[b]
      BY <1>6 DEF UnsettleFight
    <3>. QED BY <1>0, <3>1 DEF UnsettledTicket, Ticket, Redeem
  <2>2. Redeemed(f) = {}
    BY <1>6 DEF UnsettleFight, Redeemed, BlocksUnsettle, Redeem
  <2>3. \A g \in DOMAIN fights \ {f} : fights'[g].prevOutcome = fights[g].prevOutcome
    BY <1>0, <1>6, RowsInHand DEF UnsettleFight, Fight
  <2>. QED BY <1>0, <1>1, <1>2, <2>1, <2>2, <2>3, AccountsKept DEF Redeemed, TicketsOf
<1>. QED BY <1>3, <1>4, <1>5, <1>6

\* The steps that declare nothing.
Quiet == Tuning \/ Lifecycle \/ Holding \/ Betting \/ Paying \/ Cash

\* They change nothing of a fight that has ended, and leave the result columns
\* of any fight as they were.
LEMMA QuietRows ==
  ASSUME TypeOK, Quiet, NEW f \in DOMAIN fights
  PROVE  /\ f \in DOMAIN fights'
         /\ fights[f].status \notin Unfinished => fights'[f] = fights[f]
         /\ fights[f].status \in Unfinished => fights'[f].status \in Unfinished
         /\ fights'[f].outcome = fights[f].outcome
         /\ fights'[f].prevOutcome = fights[f].prevOutcome
<1>0. fights[f] \in Fight
  BY RowsInHand
<1>1. CASE Tuning \/ Paying \/ Cash
  <2>1. fights' = fights
    BY <1>1 DEF Tuning, Paying, Cash, UpdateSetting, PayBet, CashAdvance, CashRemit, DeleteRemit
  <2>. QED BY <2>1
<1>2. CASE Lifecycle
  <2>1. ASSUME NEW g \in DOMAIN fights, NEW from \in SUBSET Unfinished, NEW to \in Unfinished,
               MoveFight(g, from, to)
        PROVE  /\ DOMAIN fights' = DOMAIN fights
               /\ f # g => fights'[f] = fights[f]
               /\ f = g => /\ fights[f].status \in Unfinished /\ fights'[f].status \in Unfinished
                           /\ fights'[f].outcome = fights[f].outcome
                           /\ fights'[f].prevOutcome = fights[f].prevOutcome
    BY <1>0, <2>1 DEF MoveFight, Fight
  <2>2. /\ LiveStatuses \in SUBSET Unfinished /\ {"OPEN"} \in SUBSET Unfinished
        /\ {"LAST_CALL"} \in SUBSET Unfinished /\ {"CLOSED"} \in SUBSET Unfinished
        /\ "OPEN" \in Unfinished /\ "LAST_CALL" \in Unfinished /\ "CLOSED" \in Unfinished
    BY DEF Unfinished, LiveStatuses
  <2>3. CASE CreateFight
    <3>1. PICK n : /\ n \notin DOMAIN fights
                   /\ fights' = [g \in DOMAIN fights \cup {n} |->
                                   IF g = n THEN NewFight(setting) ELSE fights[g]]
      BY <2>3 DEF CreateFight, IsNextNumber, TypeOK, FightsTyped
    <3>. QED BY <3>1
  <2>4. CASE \E g \in DOMAIN fights :
               CloseFight(g) \/ ReopenFight(g) \/ SetFightLastCall(g) \/ ResumeFightOpen(g)
    BY <2>1, <2>2, <2>4 DEF CloseFight, ReopenFight, SetFightLastCall, ResumeFightOpen
  <2>. QED BY <1>2, <2>3, <2>4 DEF Lifecycle
<1>3. CASE Holding
  <2>1. PICK g \in DOMAIN fights, side \in Sides, a \in BOOLEAN : ToggleSide(g, side, a)
    BY <1>3 DEF Holding
  <2>. QED BY <1>0, <2>1 DEF ToggleSide, Live, FightsIn, Unfinished, Fight
<1>4. CASE Betting
  <2>1. CASE \E b \in BetIds, g \in DOMAIN fights, t \in Tellers, s \in Sides, a \in Stakes :
               PlaceBet(b, g, t, s, a)
    BY <1>0, <2>1 DEF PlaceBet, AcceptsBets, Live, FightsIn, Unfinished, Fight
  <2>2. CASE \E b \in DOMAIN bets : VoidBet(b)
    BY <1>0, <2>2 DEF VoidBet, Live, FightsIn, Unfinished, Fight
  <2>. QED BY <1>4, <2>1, <2>2 DEF Betting
<1>. QED BY <1>1, <1>2, <1>3, <1>4 DEF Quiet

\* A fight an idle step adds is a new one.
LEMMA QuietAdds ==
  ASSUME TypeOK, Quiet, NEW f \in DOMAIN fights', f \notin DOMAIN fights
  PROVE  fights'[f].status = "OPEN" /\ fights'[f].outcome = None
<1>1. CASE Tuning \/ Holding \/ Betting \/ Paying \/ Cash
  <2>1. DOMAIN fights' = DOMAIN fights
    BY <1>1 DEF Tuning, Holding, Betting, Paying, Cash, UpdateSetting, ToggleSide, PlaceBet,
      VoidBet, PayBet, CashAdvance, CashRemit, DeleteRemit
  <2>. QED BY <2>1
<1>2. CASE Lifecycle
  <2>1. CASE CreateFight
    <3>1. PICK n : fights' = [g \in DOMAIN fights \cup {n} |->
                                IF g = n THEN NewFight(setting) ELSE fights[g]]
      BY <2>1 DEF CreateFight
    <3>2. fights'[f] = NewFight(setting)
      BY <3>1
    <3>. QED BY <3>2 DEF NewFight
  <2>2. CASE \E g \in DOMAIN fights :
               CloseFight(g) \/ ReopenFight(g) \/ SetFightLastCall(g) \/ ResumeFightOpen(g)
    BY <2>2 DEF CloseFight, ReopenFight, SetFightLastCall, ResumeFightOpen, MoveFight
  <2>. QED BY <1>2, <2>1, <2>2 DEF Lifecycle
<1>. QED BY <1>1, <1>2 DEF Quiet

\* The result columns are written by the declarations, together.
LEMMA NextResults ==
  ASSUME TypeOK, ResultDeclared, [NoPurgeNext]_vars
  PROVE  ResultDeclared'
<1>1. CASE Quiet
  <2>1. ASSUME NEW f \in DOMAIN fights'
        PROVE  IF fights'[f].status = "SETTLED"
               THEN fights'[f].ratios
                      = PayoutRatios(fights'[f].pool, fights'[f].rate, fights'[f].outcome)
               ELSE fights'[f].outcome = None
    <3>1. CASE f \in DOMAIN fights
      <4>1. CASE fights[f].status \in Unfinished
        BY <1>1, <3>1, <4>1, QuietRows DEF ResultDeclared, Unfinished, LiveStatuses
      <4>2. CASE fights[f].status \notin Unfinished
        <5>1. fights'[f] = fights[f]
          BY <1>1, <3>1, <4>2, QuietRows
        <5>. QED BY <3>1, <5>1 DEF ResultDeclared
      <4>. QED BY <4>1, <4>2
    <3>2. CASE f \notin DOMAIN fights
      BY <1>1, <3>2, QuietAdds
    <3>. QED BY <3>1, <3>2
  <2>. QED BY <2>1 DEF ResultDeclared
<1>2. ASSUME NEW f \in DOMAIN fights, NEW row,
             fights' = [fights EXCEPT ![f] = row],
             IF row.status = "SETTLED"
             THEN row.ratios = PayoutRatios(row.pool, row.rate, row.outcome)
             ELSE row.outcome = None
      PROVE  ResultDeclared'
  BY <1>2 DEF ResultDeclared
<1>3. CASE \E f \in DOMAIN fights, o \in Outcomes : SettleFight(f, o)
  <2>. PICK f \in DOMAIN fights, o \in Outcomes : SettleFight(f, o)
    BY <1>3
  <2>. DEFINE ratios == PayoutRatios(fights[f].pool, fights[f].rate, o)
              row == [fights[f] EXCEPT !.status = "SETTLED", !.outcome = o, !.ratios = ratios]
  <2>1. fights' = [fights EXCEPT ![f] = row]
    BY DEF SettleFight
  <2>2. /\ row.status = "SETTLED" /\ row.outcome = o /\ row.ratios = ratios
        /\ row.pool = fights[f].pool /\ row.rate = fights[f].rate
    <3>1. fights[f] \in Fight
      BY RowsInHand
    <3>. HIDE DEF ratios
    <3>. QED BY <3>1 DEF Fight
  <2>3. row.ratios = PayoutRatios(row.pool, row.rate, row.outcome)
    BY <2>2
  <2>. HIDE DEF row, ratios
  <2>. QED BY <1>2, <2>1, <2>2, <2>3
<1>4. CASE Correcting
  <2>. PICK f \in DOMAIN fights, o \in Outcomes : CorrectFight(f, o)
    BY <1>4 DEF Correcting
  <2>. DEFINE ratios == PayoutRatios(fights[f].pool, fights[f].rate, o)
              row == [fights[f] EXCEPT !.outcome = o, !.ratios = ratios,
                                       !.prevOutcome = fights[f].outcome,
                                       !.prevRatios = fights[f].ratios]
  <2>1. fights' = [fights EXCEPT ![f] = row] /\ fights[f].status = "SETTLED"
    BY DEF CorrectFight
  <2>2. /\ row.status = fights[f].status /\ row.outcome = o /\ row.ratios = ratios
        /\ row.pool = fights[f].pool /\ row.rate = fights[f].rate
    <3>1. fights[f] \in Fight
      BY RowsInHand
    <3>. HIDE DEF ratios
    <3>. QED BY <3>1 DEF Fight
  <2>3. row.ratios = PayoutRatios(row.pool, row.rate, row.outcome)
    BY <2>2
  <2>. HIDE DEF row, ratios
  <2>. QED BY <1>2, <2>1, <2>2, <2>3
<1>5. CASE \E f \in DOMAIN fights : CancelFight(f)
  BY <1>5, RowsInHand DEF CancelFight, ResultDeclared, LiveStatuses, Fight
<1>6. CASE Reverting
  <2>. PICK f \in DOMAIN fights : UnsettleFight(f)
    BY <1>6 DEF Reverting
  <2>1. /\ DOMAIN fights' = DOMAIN fights
        /\ fights'[f].status = "CLOSED" /\ fights'[f].outcome = None
        /\ \A g \in DOMAIN fights \ {f} :
             \/ fights'[g] = fights[g]
             \/ /\ fights[g].status # "SETTLED" /\ fights'[g].status # "SETTLED"
                /\ fights'[g].outcome = fights[g].outcome
    BY RowsInHand DEF UnsettleFight, Fight, Live, FightsIn, LiveStatuses
  <2>2. ASSUME NEW g \in DOMAIN fights
        PROVE  IF fights'[g].status = "SETTLED"
               THEN fights'[g].ratios
                      = PayoutRatios(fights'[g].pool, fights'[g].rate, fights'[g].outcome)
               ELSE fights'[g].outcome = None
    <3>1. CASE g = f
      BY <2>1, <3>1
    <3>2. CASE g # f /\ fights'[g] = fights[g]
      BY <3>2 DEF ResultDeclared
    <3>3. CASE g # f /\ fights'[g] # fights[g]
      BY <2>1, <3>3 DEF ResultDeclared
    <3>. QED BY <3>1, <3>2, <3>3
  <2>. QED BY <2>1, <2>2 DEF ResultDeclared
<1>7. CASE UNCHANGED vars
  BY <1>7 DEF vars, ResultDeclared
<1>. QED BY <1>1, <1>3, <1>4, <1>5, <1>6, <1>7 DEF NoPurgeNext, Quiet, Declaring

\* The account of every fight stays right.
LEMMA NextAccounts ==
  ASSUME TicketInv, CashAccounted, [NoPurgeNext]_vars
  PROVE  CashAccounted'
<1>0. TypeOK
  BY DEF TicketInv
<1>1. CASE Declaring \/ Correcting \/ Reverting
  BY <1>1, DeclaredAccounts DEF Declaring, Correcting, Reverting
<1>2. CASE Paying
  BY <1>0, <1>2, PayAccounts DEF Paying
<1>3. CASE CreateFight
  BY <1>0, <1>3, CreateAccounts
<1>4. ASSUME Quiet, ~ Paying, DOMAIN fights' = DOMAIN fights PROVE CashAccounted'
  <2>1. \A f \in DOMAIN fights : fights'[f].prevOutcome = fights[f].prevOutcome
    BY <1>0, <1>4, QuietRows
  <2>2. paidOut' = paidOut
    BY <1>4 DEF Quiet, Tuning, Lifecycle, Holding, Betting, Cash, UpdateSetting, CreateFight,
      CloseFight, ReopenFight, SetFightLastCall, ResumeFightOpen, MoveFight, ToggleSide, PlaceBet,
      VoidBet, CashAdvance, CashRemit, DeleteRemit, history
  <2>3. CASE bets' = bets
    BY <1>0, <1>4, <2>1, <2>2, <2>3, AccountsKept
  <2>4. CASE \E b \in BetIds, f \in DOMAIN fights, t \in Tellers, s \in Sides, a \in Stakes :
               PlaceBet(b, f, t, s, a)
    <3>1. PICK b \in BetIds, f \in DOMAIN fights, t \in Tellers, s \in Sides, a \in Stakes :
            PlaceBet(b, f, t, s, a)
      BY <2>4
    <3>2. NewTicket(f, t, s, a).status \notin Redeem
      BY DEF NewTicket, Redeem
    <3>3. /\ DOMAIN bets' = DOMAIN bets \cup {b}
          /\ bets'[b].status \notin Redeem
          /\ \A x \in DOMAIN bets : bets'[x] = bets[x]
      BY <3>1, <3>2 DEF PlaceBet
    <3>4. /\ DOMAIN bets \subseteq DOMAIN bets'
          /\ \A x \in DOMAIN bets' \ DOMAIN bets : bets'[x].status \notin Redeem
      BY <3>3
    <3>5. \A g, x : x \in Redeemed(g) => x \in DOMAIN bets
      BY DEF Redeemed, TicketsOf
    <3>. QED BY <1>0, <1>4, <2>1, <2>2, <3>3, <3>4, <3>5, AccountsKept
  <2>5. CASE \E b \in DOMAIN bets : VoidBet(b)
    <3>1. PICK b \in DOMAIN bets : VoidBet(b)
      BY <2>5
    <3>2. /\ DOMAIN bets' = DOMAIN bets
          /\ bets[b].status \notin Redeem /\ bets'[b].status \notin Redeem
          /\ bets'[b].fight = bets[b].fight
          /\ \A x \in DOMAIN bets : x # b => bets'[x] = bets[x]
      BY <1>0, <3>1, RowsInHand DEF VoidBet, Ticket, Redeem
    <3>3. \A f, x : x \in Redeemed(f) => x \in DOMAIN bets /\ bets[x].status \in Redeem
      BY DEF Redeemed, TicketsOf
    <3>. QED BY <1>0, <1>4, <2>1, <2>2, <3>2, <3>3, AccountsKept
  <2>6. CASE Tuning \/ Lifecycle \/ Holding \/ Cash
    <3>1. bets' = bets
      BY <2>6 DEF Tuning, Lifecycle, Holding, Cash, UpdateSetting, CreateFight, CloseFight,
        ReopenFight, SetFightLastCall, ResumeFightOpen, MoveFight, ToggleSide, CashAdvance,
        CashRemit, DeleteRemit
    <3>. QED BY <2>3, <3>1
  <2>. QED BY <1>4, <2>4, <2>5, <2>6 DEF Quiet, Betting
<1>5. CASE UNCHANGED vars
  <2>1. DOMAIN fights' = DOMAIN fights /\ bets' = bets /\ fights' = fights /\ paidOut' = paidOut
    BY <1>5 DEF vars
  <2>. QED BY <1>0, <2>1, AccountsKept
<1>6. CASE Quiet /\ ~ CreateFight /\ ~ Paying
  <2>1. DOMAIN fights' = DOMAIN fights
    BY <1>6 DEF Quiet, Tuning, Lifecycle, Holding, Betting, Cash, UpdateSetting, CloseFight,
      ReopenFight, SetFightLastCall, ResumeFightOpen, MoveFight, ToggleSide, PlaceBet, VoidBet,
      CashAdvance, CashRemit, DeleteRemit
  <2>. QED BY <1>4, <1>6, <2>1
<1>. QED BY <1>1, <1>2, <1>3, <1>5, <1>6 DEF NoPurgeNext, Quiet

\* A fight's ticket whose cash left the drawer, and what it was paid.
LEMMA RedeemedFits ==
  ASSUME SolvencyInv, NEW f \in DOMAIN fights, fights[f].prevOutcome = None, NEW b \in Redeemed(f)
  PROVE  /\ b \in DOMAIN bets /\ bets[b] \in Ticket /\ bets[b].fight = f
         /\ b \in StakedOn(f, bets[b].side)
         /\ fights[f].outcome \in Sides =>
              /\ bets[b].side = fights[f].outcome
              /\ bets[b].payout = Payout(bets[b].amount, fights[f].ratios[fights[f].outcome])
         /\ fights[f].outcome \notin Sides => bets[b].payout = bets[b].amount
<1>1. /\ b \in DOMAIN bets /\ bets[b] \in Ticket /\ bets[b].fight = f
      /\ bets[b].status \in Redeem
      /\ TicketFitsFight(bets[b], fights[f])
  BY RowsInHand DEF SolvencyInv, DeclarableInv, TicketInv, TicketsFollowFight, Redeemed, TicketsOf
<1>2. fights[f].status # "SETTLED" => fights[f].outcome = None
  BY DEF SolvencyInv, ResultDeclared
<1>3. fights[f].status = "SETTLED" => fights[f].outcome \in Outcomes
  BY DEF SolvencyInv, DeclarableInv, TicketInv, SettledHasOutcome
<1>4. b \in StakedOn(f, bets[b].side)
  BY <1>1 DEF StakedOn, TicketsOf, Redeem
<1>5. CASE fights[f].status = "SETTLED"
  <2>1. CASE bets[b].status = "PAID"
    <3>1. /\ bets[b].payout = TargetPayout(fights[f].outcome, fights[f].ratios, bets[b])
          /\ bets[b].side = fights[f].outcome
      BY <1>1, <1>5, <2>1 DEF TicketFitsFight, LiveStatuses
    <3>2. bets[b].side \in Sides /\ bets[b].side # "DRAW"
      BY <1>1 DEF Ticket, Sides
    <3>3. bets[b].payout = Payout(bets[b].amount, fights[f].ratios[bets[b].side])
      BY <3>1, <3>2 DEF TargetPayout
    <3>. QED BY <1>1, <1>4, <3>1, <3>2, <3>3
  <2>2. CASE bets[b].status = "REFUNDED"
    <3>1. bets[b].payout = bets[b].amount /\ fights[f].outcome = "DRAW"
      BY <1>1, <1>5, <2>2 DEF TicketFitsFight, LiveStatuses, TargetStatus
    <3>. QED BY <1>1, <1>4, <3>1 DEF Sides
  <2>. QED BY <1>1, <2>1, <2>2 DEF Redeem
<1>6. CASE fights[f].status # "SETTLED"
  <2>1. bets[b].payout = bets[b].amount
    BY <1>1, <1>6 DEF TicketFitsFight, LiveStatuses, Redeem
  <2>. QED BY <1>1, <1>2, <1>4, <1>6, <2>1 DEF Sides, None
<1>. QED BY <1>5, <1>6

\* The stakes of some of the bets on a side are at most its pool.
LEMMA StakesWithinPool ==
  ASSUME DeclarableInv, NEW f \in DOMAIN fights, NEW s \in Sides, NEW T \in SUBSET StakedOn(f, s)
  PROVE  /\ SumFunctionOnSet(Amounts, T) \in Int
         /\ SumFunctionOnSet(Amounts, T) <= fights[f].pool[s]
<1>. DEFINE part == SumFunctionOnSet(Amounts, T)
            total == SumFunctionOnSet(Amounts, StakedOn(f, s))
<1>1. fights[f].pool[s] = total + purged[f][s]
  BY StakesAreSums DEF DeclarableInv, PoolInv, PoolsMatchStakes
<1>2. purged[f][s] \in Int /\ purged[f][s] >= 0
  BY DEF DeclarableInv, PoolInv, TypeOK, FightsTyped, HistoryTyped, Pools, Money, StakesPositive
<1>3. /\ IsFiniteSet(StakedOn(f, s)) /\ IsFiniteSet(T) /\ total \in Int
      /\ \A b \in StakedOn(f, s) : Amounts[b] \in Int /\ Amounts[b] >= 0
  BY StakedFinite, FS_Subset DEF DeclarableInv, PoolInv, TypeOK, StakesPositive
<1>4. part <= total
  BY <1>3, SumOfPart
<1>5. part \in Int
  BY <1>3, SumInt
<1>. HIDE DEF part, total
<1>6. part \in Int /\ part <= fights[f].pool[s]
  BY <1>1, <1>2, <1>3, <1>4, <1>5
<1>. QED BY <1>6 DEF part

\* What is distributable of a pool, and how many tickets share it.
LEMMA ToDistribute ==
  ASSUME DeclarableInv, NEW f \in DOMAIN fights
  PROVE  /\ PoolDistributable(fights[f].pool, fights[f].rate) \in Int
         /\ PoolDistributable(fights[f].pool, fights[f].rate) >= 0
         /\ Handle(fights[f].pool) \in Int
         /\ IsFiniteSet(TicketsOf(f)) /\ Cardinality(TicketsOf(f)) \in Nat
<1>. DEFINE pool == fights[f].pool
<1>0. TypeOK /\ TicketsTyped
  BY DEF DeclarableInv, TicketInv, TypeOK
<1>1. \A s \in Sides : pool[s] \in Int /\ pool[s] >= 0
  BY PoolsCover
<1>2. Handle(pool) \in Int /\ Handle(pool) >= 0
  BY <1>1 DEF Handle, Sides
<1>3. fights[f].rate \in 0 .. MaxRate
  BY <1>0, RowsInHand DEF Fight
<1>4. \A r \in 0 .. MaxRate : r \in Int /\ 20000 - r >= 0
  BY SMT DEF MaxRate
<1>5. IsFiniteSet(TicketsOf(f)) /\ Cardinality(TicketsOf(f)) \in Nat
  <2>1. TicketsOf(f) \subseteq DOMAIN bets
    BY DEF TicketsOf
  <2>2. IsFiniteSet(TicketsOf(f))
    BY <1>0, <2>1, FS_Subset DEF TicketsTyped
  <2>. QED BY <2>2, FS_CardinalityType
<1>. HIDE DEF pool
<1>6. PoolDistributable(pool, fights[f].rate) \in Int /\ PoolDistributable(pool, fights[f].rate) >= 0
  BY <1>2, <1>3, <1>4, SMT DEF PoolDistributable
<1>. QED BY <1>2, <1>5, <1>6 DEF pool

\* The payouts of bets that won share out what is distributable, up to half a
\* centavo for each ticket.
LEMMA SharedOut ==
  ASSUME DeclarableInv, ResultDeclared, NEW f \in DOMAIN fights, NEW o \in Sides,
         fights[f].status = "SETTLED", fights[f].outcome = o,
         NEW C \in SUBSET StakedOn(f, o),
         \A b \in C : bets[b].payout = Payout(bets[b].amount, fights[f].ratios[o])
  PROVE  20000 * SumFunctionOnSet(Payouts, C)
           <= PoolDistributable(fights[f].pool, fights[f].rate)
              + 10000 * Cardinality(TicketsOf(f))
<1>. DEFINE P == SumFunctionOnSet(Payouts, C)
            A == SumFunctionOnSet(Amounts, C)
            pool == fights[f].pool
            D == PoolDistributable(pool, fights[f].rate)
            n == Cardinality(TicketsOf(f))
            k == Cardinality(C)
<1>0. TypeOK /\ TicketsTyped
  BY DEF DeclarableInv, TicketInv, TypeOK
<1>1. C \subseteq TicketsOf(f) /\ C \subseteq DOMAIN bets
  BY DEF StakedOn, TicketsOf
<1>2. /\ IsFiniteSet(C) /\ P \in Int
      /\ \A b \in C : Payouts[b] = bets[b].payout /\ Payouts[b] \in Int
  <2>1. IsFiniteSet(C)
    BY <1>0, <1>1, FS_Subset DEF TicketsTyped
  <2>2. \A b \in C : Payouts[b] = bets[b].payout /\ Payouts[b] \in Int
    BY <1>0, <1>1 DEF Payouts, TicketsTyped, Ticket, Money
  <2>. QED BY <2>1, <2>2, SumInt
<1>3. \A b \in C : Amounts[b] = bets[b].amount /\ Amounts[b] \in Int
  BY <1>0, <1>1, StakedFinite
<1>4. n \in Nat /\ k \in Nat /\ k <= n
  BY <1>1, ToDistribute, FS_Subset, FS_CardinalityType
<1>5. \A s \in Sides : pool[s] \in Int /\ pool[s] >= 0
  BY PoolsCover
<1>6. D \in Int /\ D >= 0
  BY ToDistribute
<1>7. CASE C = {}
  <2>1. P = 0
    BY <1>7, SumEmpty
  <2>. HIDE DEF P, D, n
  <2>2. 20000 * P <= D + 10000 * n
    BY <1>4, <1>6, <2>1
  <2>. QED BY <2>2 DEF P, D, n
<1>8. CASE C # {}
  <2>2. pool[o] > 0
    BY <1>8, PoolsCover
  <2>. DEFINE q == pool[o]
              m == D \div (2 * q)
  <2>3. fights[f].ratios[o] = m
    <3>1. fights[f].ratios = PayoutRatios(pool, fights[f].rate, o)
      BY DEF ResultDeclared
    <3>. QED BY <2>2, <3>1 DEF PayoutRatios, PayoutMultiplier
  <2>4. RoundedTo(Amounts, m, Payouts, C)
    <3>. HIDE DEF m
    <3>. QED BY <1>2, <1>3, <2>3 DEF Payout, RoundedTo
  <2>5. q \in Int /\ q > 0 /\ A <= q
    BY <1>5, <2>2, StakesWithinPool
  <2>6. m \in Int /\ m >= 0 /\ m * (2 * q) <= D
    <3>. DEFINE e == 2 * q
    <3>1. e \in Int /\ e > 0
      BY <2>5
    <3>. HIDE DEF e, D, q
    <3>2. D \div e \in Int /\ D \div e >= 0 /\ (D \div e) * e <= D
      BY <1>6, <3>1, QuotientFits
    <3>. QED BY <3>2 DEF e
  <2>7. 10000 * P <= m * A + 5000 * k
    <3>. HIDE DEF m
    <3>. QED BY <1>2, <2>4, <2>6, RoundedSum
  <2>8. A \in Int
    BY StakesWithinPool
  <2>9. 20000 * P <= D + 10000 * n
    <3>. HIDE DEF D, n, P, A, k, q, m
    <3>. QED BY <1>2, <1>4, <1>6, <2>5, <2>6, <2>7, <2>8, SharesFit
  <2>. QED BY <2>9
<1>. QED BY <1>7, <1>8

\* The stakes of some of the bets on a fight are at most its handle.
LEMMA StakesWithinHandle ==
  ASSUME DeclarableInv, NEW f \in DOMAIN fights,
         NEW C \in SUBSET (StakedOn(f, "MERON") \cup StakedOn(f, "WALA"))
  PROVE  SumFunctionOnSet(Amounts, C) \in Int /\ SumFunctionOnSet(Amounts, C) <= Handle(fights[f].pool)
<1>. DEFINE pool == fights[f].pool
            sum(T) == SumFunctionOnSet(Amounts, T)
            M == C \cap StakedOn(f, "MERON")
            W == C \cap StakedOn(f, "WALA")
<1>0. "MERON" \in Sides /\ "WALA" \in Sides /\ TicketsTyped
  BY DEF Sides, DeclarableInv, TicketInv, TypeOK
<1>1. C = M \cup W /\ M \cap W = {}
  BY DEF StakedOn
<1>2. /\ IsFiniteSet(M) /\ IsFiniteSet(W)
      /\ \A b \in M \cup W : Amounts[b] \in Int
  BY <1>0, StakedFinite, FS_Subset
<1>3. /\ sum(M) \in Int /\ sum(M) <= pool["MERON"]
      /\ sum(W) \in Int /\ sum(W) <= pool["WALA"]
  BY <1>0, StakesWithinPool
<1>4. pool["MERON"] \in Int /\ pool["WALA"] \in Int
  BY <1>0, PoolsCover
<1>5. sum(C) = sum(M) + sum(W)
  <2>1. sum(M \cup W) = sum(M) + sum(W)
    <3>. HIDE DEF M, W
    <3>. QED BY <1>1, <1>2, SumUnion
  <2>2. sum(C) = sum(M \cup W)
    BY <1>1, Zenon
  <2>. QED BY <2>1, <2>2
<1>. HIDE DEF sum, M, W
<1>6. sum(C) \in Int /\ sum(C) <= pool["MERON"] + pool["WALA"]
  BY <1>3, <1>4, <1>5
<1>. QED BY <1>6 DEF Handle, sum

\* The invariant bounds what a fight paid.
LEMMA InvSolvent == SolvencyInv => FightSolvent
<1>. SUFFICES ASSUME SolvencyInv, NEW f \in DOMAIN fights, fights[f].prevOutcome = None
              PROVE  IF fights[f].outcome \in Sides
                     THEN paidOut[f] <= (PoolDistributable(fights[f].pool, fights[f].rate)
                                         + 10000 * Cardinality(TicketsOf(f))) \div 20000
                     ELSE paidOut[f] <= Handle(fights[f].pool)
  BY DEF FightSolvent
<1>. DEFINE C == Redeemed(f)
            P == SumFunctionOnSet(Payouts, C)
            A == SumFunctionOnSet(Amounts, C)
            pool == fights[f].pool
            D == PoolDistributable(pool, fights[f].rate)
            n == Cardinality(TicketsOf(f))
<1>0. DeclarableInv /\ TypeOK /\ TicketsTyped /\ CashAccounted /\ ResultDeclared
  BY DEF SolvencyInv, DeclarableInv, TicketInv, TypeOK
<1>1. paidOut[f] = P
  BY <1>0 DEF CashAccounted, PaidFor
<1>2. /\ IsFiniteSet(C) /\ P \in Int /\ C \subseteq DOMAIN bets
      /\ \A b \in C : Payouts[b] = bets[b].payout /\ Payouts[b] \in Int
  BY <1>0, RedeemedFinite DEF PaidFor
<1>3. \A b \in C : Amounts[b] = bets[b].amount /\ Amounts[b] \in Int
  BY <1>0, <1>2, StakedFinite
<1>7. CASE fights[f].outcome \in Sides
  <2>1. fights[f].status = "SETTLED"
    BY <1>7 DEF SolvencyInv, ResultDeclared, Sides, None
  <2>2. C \in SUBSET StakedOn(f, fights[f].outcome)
    BY <1>7, RedeemedFits
  <2>3. \A b \in C : bets[b].payout = Payout(bets[b].amount, fights[f].ratios[fights[f].outcome])
    BY <1>7, RedeemedFits
  <2>4. 20000 * P <= D + 10000 * n
    BY <1>0, <1>7, <2>1, <2>2, <2>3, SharedOut
  <2>5. D \in Int /\ n \in Int
    BY <1>0, ToDistribute
  <2>. HIDE DEF P, D, n, C
  <2>6. P <= (D + 10000 * n) \div 20000
    BY <1>2, <2>4, <2>5
  <2>. QED BY <1>1, <1>7, <2>6 DEF D, n
<1>8. CASE fights[f].outcome \notin Sides
  <2>1. P = A
    <3>1. \A b \in C : Payouts[b] = Amounts[b]
      BY <1>2, <1>3, <1>8, RedeemedFits
    <3>. QED BY <1>2, <3>1, SumSame
  <2>2. C \in SUBSET (StakedOn(f, "MERON") \cup StakedOn(f, "WALA"))
    BY RedeemedFits DEF Ticket, Sides
  <2>3. A <= Handle(pool)
    BY <1>0, <2>2, StakesWithinHandle
  <2>. QED BY <1>1, <1>8, <2>1, <2>3
<1>. QED BY <1>7, <1>8

\* The invariant of a session without purges.
LEMMA SolvencyInitial == Init => SolvencyInv
<1>. SUFFICES ASSUME Init PROVE SolvencyInv
  OBVIOUS
<1>1. TypeOK
  BY InitType
<1>2. DOMAIN fights = {} /\ DOMAIN bets = {}
  BY DEF Init
<1>3. /\ \A f \in 1 .. MaxFights : paidOut[f] = 0
      /\ \A f \in 1 .. MaxFights, s \in Sides : purged[f][s] = 0
  BY DEF Init
<1>4. DeclarableInv
  BY <1>1, <1>2, <1>3 DEF DeclarableInv, PoolInv, PoolsMatchStakes, NothingPurgedEarly, TicketInv,
    SettledHasOutcome, TicketsFollowFight, StakesPositive
<1>. QED BY <1>2, <1>3, <1>4 DEF SolvencyInv, ResultDeclared, CashAccounted

LEMMA SolvencyKept == SolvencyInv /\ [NoPurgeNext]_vars => SolvencyInv'
<1>. SUFFICES ASSUME SolvencyInv, [NoPurgeNext]_vars PROVE SolvencyInv'
  OBVIOUS
<1>1. [Next]_vars
  BY DEF NoPurgeNext, Next
<1>2. DeclarableInv /\ PoolInv /\ TicketInv /\ TypeOK
  BY DEF SolvencyInv, DeclarableInv, TicketInv
<1>3. DeclarableInv'
  BY <1>1, <1>2, NextPools, NextFits, NextPositive DEF DeclarableInv
<1>4. ResultDeclared' /\ CashAccounted'
  BY <1>2, NextResults, NextAccounts DEF SolvencyInv
<1>. QED BY <1>3, <1>4 DEF SolvencyInv

(***************************************************************************)
(* As long as nothing is purged, no fight pays out more than it took: the  *)
(* stakes when it refunds, the distributable part of the pools and half a  *)
(* centavo for each ticket when a side won.  The cash paid is the sum of   *)
(* the payout columns of the cashed tickets, each of them the stake times  *)
(* one multiplier, and the stakes that won are at most the pool the        *)
(* multiplier was divided by.                                              *)
(***************************************************************************)
THEOREM Solvent == NoPurgeSpec => []FightSolvent
<1>. QED BY SolvencyInitial, SolvencyKept, InvSolvent, PTL DEF NoPurgeSpec

\* Only a revert takes the result of a fight away.
LEMMA OnlyRevertsUnsettle ==
  ASSUME TypeOK, [NoPurgeNext]_vars, NEW f \in DOMAIN fights,
         fights[f].status = "SETTLED", fights'[f].status # "SETTLED"
  PROVE  UnsettleFight(f)
<1>0. fights[f] \in Fight /\ fights'[f] # fights[f]
  BY RowsInHand
<1>1. ~ Quiet /\ ~ UNCHANGED vars
  BY <1>0, QuietRows DEF vars, Unfinished, LiveStatuses
<1>2. ASSUME NEW g \in DOMAIN fights, NEW o \in Outcomes, SettleFight(g, o) \/ CorrectFight(g, o)
      PROVE  FALSE
  <2>. DEFINE ratios == PayoutRatios(fights[g].pool, fights[g].rate, o)
  <2>1. CASE SettleFight(g, o)
    <3>1. fights' = [fights EXCEPT ![g].status = "SETTLED", ![g].outcome = o, ![g].ratios = ratios]
      BY <2>1 DEF SettleFight
    <3>. HIDE DEF ratios
    <3>. QED BY <1>0, <3>1 DEF Fight
  <2>2. CASE CorrectFight(g, o)
    <3>1. fights' = [fights EXCEPT ![g].outcome = o, ![g].ratios = ratios,
                                   ![g].prevOutcome = fights[g].outcome,
                                   ![g].prevRatios = fights[g].ratios]
      BY <2>2 DEF CorrectFight
    <3>. HIDE DEF ratios
    <3>. QED BY <1>0, <3>1 DEF Fight
  <2>. QED BY <1>2, <2>1, <2>2
<1>3. ~ \E g \in DOMAIN fights : CancelFight(g)
  BY <1>0 DEF CancelFight, LiveStatuses
<1>4. PICK g \in DOMAIN fights : UnsettleFight(g)
  BY <1>1, <1>2, <1>3 DEF NoPurgeNext, Quiet, Declaring, Correcting, Reverting
<1>5. g = f
  BY <1>0, <1>4 DEF UnsettleFight, Live, FightsIn, LiveStatuses
<1>. QED BY <1>4, <1>5

(***************************************************************************)
(* A revert never undoes a result somebody was paid for, as long as        *)
(* nothing is purged (a purge removes the very tickets the check looks     *)
(* for).                                                                   *)
(***************************************************************************)
THEOREM RevertsUncashed == NoPurgeSpec => RevertOnlyBeforeCash
<1>1. SolvencyInv /\ [NoPurgeNext]_vars => [RevertedUnpaid]_vars
  <2>. SUFFICES ASSUME SolvencyInv, [NoPurgeNext]_vars, NEW f \in DOMAIN fights \cap DOMAIN fights',
                       fights[f].status = "SETTLED", fights'[f].status # "SETTLED"
                PROVE  paidOut[f] = 0
    BY DEF RevertedUnpaid
  <2>1. UnsettleFight(f)
    BY OnlyRevertsUnsettle DEF SolvencyInv, DeclarableInv, TicketInv
  <2>2. Redeemed(f) = {}
    BY <2>1 DEF UnsettleFight, Redeemed, BlocksUnsettle, Redeem
  <2>. QED BY <2>2 DEF SolvencyInv, CashAccounted
<1>. QED BY <1>1, SolvencyInitial, SolvencyKept, PTL DEF NoPurgeSpec, RevertOnlyBeforeCash
=============================================================================
