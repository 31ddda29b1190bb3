-------------------------- MODULE DeclarationProofs --------------------------
(***************************************************************************)
(* The money of a declared fight, for any number of tickets, any stakes    *)
(* and any commission: an uncashed ticket forgets every declaration but    *)
(* the present one, and the winners share what there is to distribute.     *)
(***************************************************************************)
EXTENDS Declaration, Sums

TicketRow ==
  [side : Sides, amount : Stakes, status : TicketStatuses, payout : Int,
   prevStatus : TicketStatuses \cup {None}, prevPayout : Int]

\* Where the present outcome puts a ticket.
Due(bet) == TargetPayout(outcome, PayoutRatios(Pool, rate, outcome), bet)

\* A ticket says of the declaration what it must: nothing before it, and
\* afterwards the present outcome, unless its stake was handed back.
Fits(bet) ==
  IF outcome = None
  THEN bet = PendingTicket(bet.side, bet.amount)
  ELSE \/ bet.status = "REFUNDED"
       \/ /\ bet.status \in {"PAID", TargetStatus(outcome, bet)}
          /\ bet.payout = Due(bet)

DeclarationInv ==
  /\ rate \in Rates
  /\ outcome \in Outcomes \cup {None}
  /\ bets \in [Tickets -> TicketRow]
  /\ \A b \in Tickets : Fits(bets[b])

\* The columns a declaration does not touch.
SameStakes ==
  /\ rate' = rate
  /\ \A b \in Tickets : bets'[b].side = bets[b].side /\ bets'[b].amount = bets[b].amount

-----------------------------------------------------------------------------
(* Rows                                                                    *)

\* An outcome is not the null outcome.
LEMMA OutcomesAre == "DRAW" \notin Sides /\ None \notin Outcomes /\ Sides \subseteq Outcomes
BY DEF Sides, Outcomes, None

\* The columns of a ticket.
LEMMA RowIs ==
  ASSUME NEW bet \in TicketRow
  PROVE  /\ bet.side \in Sides /\ bet.amount \in Stakes /\ bet.amount \in Int /\ bet.amount > 0
         /\ bet.payout \in Int /\ bet.status \in TicketStatuses
         /\ bet.prevStatus \in TicketStatuses \cup {None} /\ bet.prevPayout \in Int
<1>1. MinStake \in Nat \ {0} /\ MaxAmount \in Nat
  BY SMT DEF MinStake, MaxAmount
<1>2. \A a \in Stakes : a \in Int /\ a > 0
  BY <1>1, DeclarationInputs DEF DeclarationInputs
<1>. QED BY <1>2 DEF TicketRow

\* The amounts and the sides are those of a pending ticket.
LEMMA PendingIs ==
  ASSUME NEW side \in Sides, NEW amount \in Stakes
  PROVE  /\ PendingTicket(side, amount) \in TicketRow
         /\ PendingTicket(side, amount).side = side
         /\ PendingTicket(side, amount).amount = amount
         /\ PendingTicket(side, amount).status = "PENDING"
BY DEF PendingTicket, TicketRow, TicketStatuses, Null

\* What the pools hold is a number, and never negative.
LEMMA PoolsAre ==
  ASSUME bets \in [Tickets -> TicketRow]
  PROVE  /\ \A s \in Sides : Pool[s] = StakesOn(s)
         /\ \A s \in Sides : Pool[s] \in Int /\ Pool[s] >= 0
<1>. DEFINE Amounts == [b \in Tickets |-> bets[b].amount]
            On(s) == {b \in Tickets : bets[b].side = s}
<1>1. ASSUME NEW s \in Sides
      PROVE  SumFunctionOnSet(Amounts, On(s)) \in Int /\ SumFunctionOnSet(Amounts, On(s)) >= 0
  <2>1. IsFiniteSet(On(s))
    BY FS_Subset, DeclarationInputs DEF DeclarationInputs
  <2>2. \A b \in On(s) : Amounts[b] \in Int /\ Amounts[b] >= 0
    BY RowIs
  <2>. HIDE DEF Amounts, On
  <2>. QED BY <2>1, <2>2, SumInt, SumAtLeast
<1>2. \A s \in Sides : Pool[s] = StakesOn(s)
  BY DEF Pool
<1>. QED BY <1>1, <1>2 DEF StakesOn

\* What there is to distribute is a number, and never negative.
LEMMA ToShareOut ==
  ASSUME bets \in [Tickets -> TicketRow], rate \in Rates
  PROVE  PoolDistributable(Pool, rate) \in Int /\ PoolDistributable(Pool, rate) >= 0
<1>1. Handle(Pool) \in Int /\ Handle(Pool) >= 0
  BY PoolsAre DEF Handle, Sides
<1>2. rate \in Int /\ 20000 - rate >= 0
  BY DeclarationInputs, SMT DEF DeclarationInputs, MaxRate
<1>. DEFINE h == Handle(Pool)  r == 20000 - rate
<1>3. h \in Int /\ h >= 0 /\ r \in Int /\ r >= 0
  BY <1>1, <1>2
<1>4. PoolDistributable(Pool, rate) = h * r
  BY SMT DEF PoolDistributable
<1>. HIDE DEF h, r
<1>. QED BY <1>3, <1>4

\* A multiplier is a number or null.
LEMMA RatiosAre ==
  ASSUME bets \in [Tickets -> TicketRow], rate \in Rates, NEW o
  PROVE  \A s \in Sides : PayoutRatios(Pool, rate, o)[s] \in Int
<1>1. ASSUME NEW s \in Sides PROVE PayoutMultiplier(Pool, rate, s) \in Int
  <2>1. Pool[s] \in Int /\ PoolDistributable(Pool, rate) \in Int
    BY PoolsAre, ToShareOut
  <2>. QED BY <2>1 DEF PayoutMultiplier, Null
<1>2. Null \in Int
  BY DEF Null
<1>. QED BY <1>1, <1>2 DEF PayoutRatios

\* Where a declaration sends a ticket has the types of its columns.
LEMMA TargetsAre ==
  ASSUME bets \in [Tickets -> TicketRow], rate \in Rates, NEW o, NEW bet \in TicketRow
  PROVE  /\ TargetStatus(o, bet) \in TicketStatuses
         /\ TargetPayout(o, PayoutRatios(Pool, rate, o), bet) \in Int
<1>. DEFINE m == PayoutRatios(Pool, rate, o)[bet.side]
<1>1. bet.amount \in Int /\ m \in Int
  BY RowIs, RatiosAre
<1>. HIDE DEF m
<1>2. Payout(bet.amount, m) \in Int
  BY <1>1, SMT DEF Payout
<1>. QED BY <1>1, <1>2 DEF TargetStatus, TargetPayout, TicketStatuses, m, Null

\* A ticket's target depends on its side and its stake only.
LEMMA TargetOfStake ==
  ASSUME NEW o, NEW new, NEW p, NEW q, p.side = q.side, p.amount = q.amount
  PROVE  /\ TargetStatus(o, p) = TargetStatus(o, q)
         /\ TargetPayout(o, new, p) = TargetPayout(o, new, q)
BY DEF TargetStatus, TargetPayout

\* The pools do not move with the declarations.
LEMMA PoolKept == ASSUME SameStakes PROVE Pool' = Pool
<1>. DEFINE A == [b \in Tickets |-> bets[b].amount]
            B == [b \in Tickets |-> bets'[b].amount]
<1>1. A = B
  BY DEF SameStakes
<1>2. \A s \in Sides : {b \in Tickets : bets'[b].side = s} = {b \in Tickets : bets[b].side = s}
  BY DEF SameStakes
<1>3. \A s \in Sides : StakesOn(s)' = StakesOn(s)
  BY <1>1, <1>2, Zenon DEF StakesOn
<1>. QED BY <1>3, Zenon DEF Pool

-----------------------------------------------------------------------------
(* The steps                                                               *)

\* A row that a step left as due under outcome o fits once o is the outcome.
LEMMA DueFits ==
  ASSUME SameStakes, outcome' # None, NEW p, NEW q, p.side = q.side, p.amount = q.amount,
         \/ p.status = "REFUNDED"
         \/ /\ p.status \in {"PAID", TargetStatus(outcome', q)}
            /\ p.payout = TargetPayout(outcome', PayoutRatios(Pool, rate, outcome'), q)
  PROVE  IF outcome' = None THEN p = PendingTicket(p.side, p.amount)
         ELSE \/ p.status = "REFUNDED"
              \/ /\ p.status \in {"PAID", TargetStatus(outcome', p)}
                 /\ p.payout = TargetPayout(outcome', PayoutRatios(Pool', rate', outcome'), p)
<1>1. /\ TargetStatus(outcome', p) = TargetStatus(outcome', q)
      /\ TargetPayout(outcome', PayoutRatios(Pool', rate', outcome'), p)
           = TargetPayout(outcome', PayoutRatios(Pool', rate', outcome'), q)
  BY TargetOfStake
<1>2. Pool' = Pool /\ rate' = rate
  BY PoolKept DEF SameStakes
<1>. QED BY <1>1, <1>2

\* A declaration on pending tickets.
LEMMA SettleKeeps ==
  ASSUME DeclarationInv, NEW o \in Outcomes, Settle(o)
  PROVE  DeclarationInv'
<1>. DEFINE new == PayoutRatios(Pool, rate, o)
<1>1. ASSUME NEW b \in Tickets
      PROVE  /\ bets'[b] \in TicketRow
             /\ bets'[b].side = bets[b].side /\ bets'[b].amount = bets[b].amount
             /\ bets'[b].status = TargetStatus(o, bets[b])
             /\ bets'[b].payout = TargetPayout(o, new, bets[b])
  <2>1. bets[b] \in TicketRow /\ bets[b].status = "PENDING"
    BY PendingIs, RowIs DEF Settle, DeclarationInv, Fits
  <2>2. TargetStatus(o, bets[b]) \in TicketStatuses /\ TargetPayout(o, new, bets[b]) \in Int
    BY <2>1, TargetsAre DEF DeclarationInv
  <2>3. bets'[b] = [bets[b] EXCEPT !.status = TargetStatus(o, bets[b]),
                                   !.payout = TargetPayout(o, new, bets[b])]
    BY <2>1 DEF Settle, SettledTicket
  <2>. HIDE DEF new
  <2>. QED BY <2>1, <2>2, <2>3 DEF TicketRow
<1>2. SameStakes
  BY <1>1 DEF Settle, SameStakes
<1>3. outcome' = o /\ o # None /\ rate' = rate
  BY OutcomesAre DEF Settle
<1>4. bets' \in [Tickets -> TicketRow]
  BY <1>1 DEF Settle
<1>5. ASSUME NEW b \in Tickets PROVE Fits(bets[b])'
  <2>. DEFINE p == bets'[b]  q == bets[b]
  <2>1. /\ p.side = q.side /\ p.amount = q.amount
        /\ p.status = TargetStatus(outcome', q)
        /\ p.payout = TargetPayout(outcome', PayoutRatios(Pool, rate, outcome'), q)
    BY <1>1, <1>3
  <2>. HIDE DEF p, q
  <2>2. IF outcome' = None THEN p = PendingTicket(p.side, p.amount)
        ELSE \/ p.status = "REFUNDED"
             \/ /\ p.status \in {"PAID", TargetStatus(outcome', p)}
                /\ p.payout = TargetPayout(outcome', PayoutRatios(Pool', rate', outcome'), p)
    BY <1>2, <1>3, <2>1, DueFits
  <2>. QED BY <2>2 DEF Fits, Due, p
<1>. QED BY <1>3, <1>4, <1>5 DEF DeclarationInv

\* A correction, with paid and refunded tickets about.
LEMMA CorrectKeeps ==
  ASSUME DeclarationInv, NEW o \in Outcomes, Correct(o)
  PROVE  DeclarationInv'
<1>. DEFINE new == PayoutRatios(Pool, rate, o)
<1>0. outcome # None
  BY DEF Correct
<1>1. ASSUME NEW b \in Tickets
      PROVE  /\ bets'[b] \in TicketRow
             /\ bets'[b].side = bets[b].side /\ bets'[b].amount = bets[b].amount
             /\ \/ bets'[b].status = "REFUNDED"
                \/ /\ bets'[b].status \in {"PAID", TargetStatus(o, bets[b])}
                   /\ bets'[b].payout = TargetPayout(o, new, bets[b])
  <2>1. bets[b] \in TicketRow /\ bets[b].status \in TicketStatuses /\ bets[b].payout \in Int
    BY RowIs DEF DeclarationInv
  <2>2. TargetStatus(o, bets[b]) \in TicketStatuses /\ TargetPayout(o, new, bets[b]) \in Int
    BY <2>1, TargetsAre DEF DeclarationInv
  <2>3. bets'[b] = CorrectedTicket(o, new, bets[b])
    BY DEF Correct
  <2>4. bets[b].status # "VOIDED"
    BY <1>0 DEF DeclarationInv, Fits, TargetStatus
  <2>. HIDE DEF new
  <2>5. CASE CorrectionSkips(o, new, bets[b])
    BY <2>1, <2>3, <2>4, <2>5 DEF CorrectedTicket, CorrectionSkips
  <2>6. CASE ~CorrectionSkips(o, new, bets[b])
    <3>1. bets'[b] =
            [side |-> bets[b].side, amount |-> bets[b].amount,
             status |-> IF bets[b].status = "PAID" THEN "PAID" ELSE TargetStatus(o, bets[b]),
             payout |-> TargetPayout(o, new, bets[b]),
             prevStatus |-> bets[b].status, prevPayout |-> bets[b].payout]
      BY <2>1, <2>3, <2>6 DEF CorrectedTicket, TicketRow
    <3>. QED BY <2>1, <2>2, <3>1 DEF TicketRow
  <2>. QED BY <2>5, <2>6
<1>2. SameStakes
  BY <1>1 DEF Correct, SameStakes
<1>3. outcome' = o /\ o # None /\ rate' = rate
  BY OutcomesAre DEF Correct
<1>4. bets' \in [Tickets -> TicketRow]
  BY <1>1 DEF Correct
<1>5. ASSUME NEW b \in Tickets PROVE Fits(bets[b])'
  <2>. DEFINE p == bets'[b]  q == bets[b]
  <2>1. /\ p.side = q.side /\ p.amount = q.amount
        /\ \/ p.status = "REFUNDED"
           \/ /\ p.status \in {"PAID", TargetStatus(outcome', q)}
              /\ p.payout = TargetPayout(outcome', PayoutRatios(Pool, rate, outcome'), q)
    BY <1>1, <1>3
  <2>. HIDE DEF p, q
  <2>2. IF outcome' = None THEN p = PendingTicket(p.side, p.amount)
        ELSE \/ p.status = "REFUNDED"
             \/ /\ p.status \in {"PAID", TargetStatus(outcome', p)}
                /\ p.payout = TargetPayout(outcome', PayoutRatios(Pool', rate', outcome'), p)
    BY <1>2, <1>3, <2>1, DueFits
  <2>. QED BY <2>2 DEF Fits, Due, p
<1>. QED BY <1>3, <1>4, <1>5 DEF DeclarationInv

\* A revert, of a declaration nobody was paid on.
LEMMA UnsettleKeeps == ASSUME DeclarationInv, Unsettle PROVE DeclarationInv'
<1>1. ASSUME NEW b \in Tickets
      PROVE  bets'[b] = PendingTicket(bets[b].side, bets[b].amount)
  <2>1. bets[b] \in TicketRow
    BY DEF DeclarationInv
  <2>2. bets[b].status \in {"WON", "LOST", "PENDING_REFUND"}
    BY DEF Unsettle, DeclarationInv, Fits, TargetStatus, BlocksUnsettle
  <2>3. bets'[b] = [bets[b] EXCEPT !.status = "PENDING", !.payout = Null,
                                   !.prevStatus = None, !.prevPayout = Null]
    BY <2>2 DEF Unsettle, UnsettledTicket
  <2>. QED BY <2>1, <2>3 DEF TicketRow, PendingTicket
<1>2. \A b \in Tickets : /\ bets'[b] \in TicketRow
                         /\ bets'[b] = PendingTicket(bets'[b].side, bets'[b].amount)
  BY <1>1, RowIs, PendingIs DEF DeclarationInv
<1>3. bets' \in [Tickets -> TicketRow]
  BY <1>2 DEF Unsettle
<1>. QED BY <1>2, <1>3 DEF Unsettle, DeclarationInv, Fits

\* A ticket is cashed.
LEMMA RedeemKeeps == ASSUME DeclarationInv, NEW b \in Tickets, Redeem(b) PROVE DeclarationInv'
<1>1. bets[b] \in TicketRow /\ bets \in [Tickets -> TicketRow]
  BY DEF DeclarationInv
<1>2. /\ bets'[b] = [bets[b] EXCEPT !.status = IF @ = "WON" THEN "PAID" ELSE "REFUNDED"]
      /\ \A c \in Tickets \ {b} : bets'[c] = bets[c]
      /\ DOMAIN bets' = Tickets /\ bets' = [c \in Tickets |-> bets'[c]]
  BY <1>1 DEF Redeem
<1>3. /\ bets'[b] \in TicketRow
      /\ bets'[b].side = bets[b].side /\ bets'[b].amount = bets[b].amount
      /\ bets'[b].payout = bets[b].payout
      /\ bets'[b].status = IF bets[b].status = "WON" THEN "PAID" ELSE "REFUNDED"
  BY <1>1, <1>2 DEF TicketRow, TicketStatuses
<1>4. SameStakes /\ outcome' = outcome
  BY <1>2, <1>3 DEF Redeem, SameStakes
<1>5. bets' \in [Tickets -> TicketRow]
  BY <1>1, <1>2, <1>3
<1>6. outcome # None
  BY PendingIs, RowIs, <1>1 DEF Redeem, DeclarationInv, Fits
<1>7. ASSUME NEW c \in Tickets PROVE Fits(bets[c])'
  <2>. DEFINE p == bets'[c]  q == bets[c]
  <2>1. /\ p.side = q.side /\ p.amount = q.amount
        /\ \/ p.status = "REFUNDED"
           \/ /\ p.status \in {"PAID", TargetStatus(outcome', q)}
              /\ p.payout = TargetPayout(outcome', PayoutRatios(Pool, rate, outcome'), q)
    <3>1. \/ q.status = "REFUNDED"
          \/ /\ q.status \in {"PAID", TargetStatus(outcome, q)}
             /\ q.payout = TargetPayout(outcome, PayoutRatios(Pool, rate, outcome), q)
      BY <1>6 DEF DeclarationInv, Fits, Due
    <3>2. CASE c = b
      BY <1>3, <1>4, <3>1, <3>2
    <3>3. CASE c # b
      BY <1>2, <1>4, <3>1, <3>3
    <3>. QED BY <3>2, <3>3
  <2>. HIDE DEF p, q
  <2>2. IF outcome' = None THEN p = PendingTicket(p.side, p.amount)
        ELSE \/ p.status = "REFUNDED"
             \/ /\ p.status \in {"PAID", TargetStatus(outcome', p)}
                /\ p.payout = TargetPayout(outcome', PayoutRatios(Pool', rate', outcome'), p)
    BY <1>4, <1>6, <2>1, DueFits
  <2>. QED BY <2>2 DEF Fits, Due, p
<1>. QED BY <1>4, <1>5, <1>7 DEF DeclarationInv, SameStakes

-----------------------------------------------------------------------------
(* What follows                                                            *)

(***************************************************************************)
(* The inductive invariant: every ticket is as the present outcome and the *)
(* present pools, which never move, would put it; a paid one keeps its     *)
(* status and a refunded one everything (lib/fight-settlement.js,          *)
(* planSettlementForBet, planCorrectionForBet, planUnsettleForBet).        *)
(***************************************************************************)
THEOREM DeclarationsFit == Spec => []DeclarationInv
<1>1. Init => DeclarationInv
  <2>. SUFFICES ASSUME Init PROVE DeclarationInv
    OBVIOUS
  <2>1. PICK side \in [Tickets -> Sides], amount \in [Tickets -> Stakes] :
          bets = [b \in Tickets |-> PendingTicket(side[b], amount[b])]
    BY DEF Init
  <2>2. \A b \in Tickets : /\ bets[b] \in TicketRow
                           /\ bets[b] = PendingTicket(bets[b].side, bets[b].amount)
    BY <2>1, PendingIs
  <2>3. bets \in [Tickets -> TicketRow]
    BY <2>1, <2>2
  <2>. QED BY <2>2, <2>3 DEF Init, DeclarationInv, Fits
<1>2. DeclarationInv /\ [Next]_vars => DeclarationInv'
  <2>. SUFFICES ASSUME DeclarationInv, [Next]_vars PROVE DeclarationInv'
    OBVIOUS
  <2>1. CASE UNCHANGED vars
    <3>1. Pool' = Pool
      BY <2>1, PoolKept DEF vars, SameStakes
    <3>. QED BY <2>1, <3>1 DEF vars, DeclarationInv, Fits, Due
  <2>. QED BY <2>1, SettleKeeps, CorrectKeeps, UnsettleKeeps, RedeemKeeps DEF Next
<1>. QED BY <1>1, <1>2, PTL DEF Spec

(***************************************************************************)
(* Whatever was declared, corrected and reverted before, an uncashed       *)
(* ticket is as one declaration of the present outcome leaves a pending    *)
(* ticket: no correction and no revert leaves a trace in what customers    *)
(* are owed (fights.service.js, correctFight, unsettleFight).              *)
(***************************************************************************)
THEOREM Memoryless == Spec => []DeclarationIsMemoryless
<1>1. DeclarationInv => DeclarationIsMemoryless
  <2>. SUFFICES ASSUME DeclarationInv, NEW b \in Tickets
                PROVE
         LET fresh == SettledTicket(outcome, PayoutRatios(Pool, rate, outcome),
                                    PendingTicket(bets[b].side, bets[b].amount))
         IN  \/ bets[b].status = "REFUNDED"
             \/ outcome = None /\ bets[b] = PendingTicket(bets[b].side, bets[b].amount)
             \/ /\ outcome # None
                /\ bets[b].status \in {"PAID", fresh.status}
                /\ bets[b].payout = fresh.payout
    BY DEF DeclarationIsMemoryless
  <2>. DEFINE p == PendingTicket(bets[b].side, bets[b].amount)
              new == PayoutRatios(Pool, rate, outcome)
              fresh == SettledTicket(outcome, new, p)
  <2>1. bets[b] \in TicketRow /\ Fits(bets[b])
    BY DEF DeclarationInv
  <2>2. p \in TicketRow /\ p.side = bets[b].side /\ p.amount = bets[b].amount
        /\ p.status = "PENDING"
    BY <2>1, RowIs, PendingIs
  <2>3. fresh.status = TargetStatus(outcome, p) /\ fresh.payout = TargetPayout(outcome, new, p)
    <3>. HIDE DEF p, new
    <3>. QED BY <2>2 DEF SettledTicket, TicketRow
  <2>4. /\ TargetStatus(outcome, p) = TargetStatus(outcome, bets[b])
        /\ TargetPayout(outcome, new, p) = TargetPayout(outcome, new, bets[b])
    BY <2>2, TargetOfStake
  <2>. HIDE DEF fresh
  <2>5. \/ bets[b].status = "REFUNDED"
        \/ outcome = None /\ bets[b] = p
        \/ /\ outcome # None
           /\ bets[b].status \in {"PAID", fresh.status}
           /\ bets[b].payout = fresh.payout
    BY <2>1, <2>3, <2>4 DEF Fits, Due
  <2>. QED BY <2>5 DEF fresh
<1>. QED BY <1>1, DeclarationsFit, PTL

\* What the winners are due is the multiplier of their side.
LEMMA WinnersDue ==
  ASSUME DeclarationInv, outcome \in Sides, NEW b \in Winners
  PROVE  /\ bets[b] \in TicketRow /\ bets[b].side = outcome
         /\ bets[b].payout = Payout(bets[b].amount, PayoutMultiplier(Pool, rate, outcome))
<1>1. bets[b] \in TicketRow /\ Fits(bets[b]) /\ bets[b].side = outcome
      /\ bets[b].status \in {"WON", "PAID"}
  BY DEF Winners, DeclarationInv
<1>2. outcome # None /\ outcome # "DRAW"
  BY OutcomesAre
<1>3. bets[b].payout = TargetPayout(outcome, PayoutRatios(Pool, rate, outcome), bets[b])
  BY <1>1, <1>2 DEF Fits, Due
<1>. QED BY <1>1, <1>2, <1>3 DEF TargetPayout, PayoutRatios

\* The stakes of the winners are in the pool of their side.
LEMMA WinnersStaked ==
  ASSUME DeclarationInv, outcome \in Sides
  PROVE  /\ IsFiniteSet(Winners)
         /\ SumFunctionOnSet([b \in Tickets |-> bets[b].amount], Winners) \in Int
         /\ SumFunctionOnSet([b \in Tickets |-> bets[b].amount], Winners) <= Pool[outcome]
         /\ Winners # {} => Pool[outcome] > 0
<1>. DEFINE Amounts == [b \in Tickets |-> bets[b].amount]
            On == {b \in Tickets : bets[b].side = outcome}
<1>1. Winners \subseteq On /\ IsFiniteSet(On) /\ IsFiniteSet(Winners)
  BY FS_Subset, DeclarationInputs DEF DeclarationInputs, Winners
<1>2. \A b \in On : Amounts[b] \in Int /\ Amounts[b] > 0
  BY RowIs DEF DeclarationInv
<1>3. Pool[outcome] = SumFunctionOnSet(Amounts, On)
  BY PoolsAre DEF DeclarationInv, StakesOn
<1>. HIDE DEF Amounts, On
<1>4. SumFunctionOnSet(Amounts, Winners) <= SumFunctionOnSet(Amounts, On)
  BY <1>1, <1>2, SumOfPart
<1>5. SumFunctionOnSet(Amounts, Winners) \in Int
  BY <1>1, <1>2, SumInt
<1>6. \A b \in On : Amounts[b] <= SumFunctionOnSet(Amounts, On)
  BY <1>1, <1>2, SumAtLeast
<1>7. Pool[outcome] \in Int
  BY PoolsAre DEF DeclarationInv
<1>8. Winners # {} => Pool[outcome] > 0
  BY <1>1, <1>2, <1>3, <1>6, <1>7
<1>. QED BY <1>1, <1>3, <1>4, <1>5, <1>8 DEF Amounts

\* The invariant bounds what the winners are owed.
LEMMA InvWithinPool == DeclarationInv => PayoutsWithinPool
<1>. DEFINE Amounts == [b \in Tickets |-> bets[b].amount]
            Payouts == [b \in Tickets |-> bets[b].payout]
            A == SumFunctionOnSet(Amounts, Winners)
            P == SumFunctionOnSet(Payouts, Winners)
            D == PoolDistributable(Pool, rate)
            k == Cardinality(Winners)
            q == Pool[outcome]
            m == D \div (2 * q)
<1>. SUFFICES ASSUME DeclarationInv, outcome \in Sides PROVE P <= (D + 10000 * k) \div 20000
  BY DEF PayoutsWithinPool, TotalOwed
<1>1. /\ IsFiniteSet(Winners) /\ k \in Nat
      /\ A \in Int /\ A <= q
      /\ Winners # {} => q > 0
  BY WinnersStaked, FS_CardinalityType
<1>2. D \in Int /\ D >= 0 /\ q \in Int
  BY ToShareOut, PoolsAre DEF DeclarationInv
<1>3. CASE Winners = {}
  <2>1. P = 0
    BY <1>3, SumEmpty
  <2>. HIDE DEF P, D, k
  <2>. QED BY <1>1, <1>2, <2>1
<1>4. CASE Winners # {}
  <2>1. m \in Int /\ m >= 0 /\ m * (2 * q) <= D
    <3>. DEFINE e == 2 * q
    <3>1. e \in Int /\ e > 0
      BY <1>1, <1>2, <1>4
    <3>. HIDE DEF e, D, q
    <3>2. D \div e \in Int /\ D \div e >= 0 /\ (D \div e) * e <= D
      BY <1>2, <3>1, QuotientFits
    <3>. QED BY <3>2 DEF e
  <2>2. RoundedTo(Amounts, m, Payouts, Winners)
    <3>1. PayoutMultiplier(Pool, rate, outcome) = m
      BY <1>1, <1>4 DEF PayoutMultiplier
    <3>. HIDE DEF m
    <3>2. ASSUME NEW b \in Winners
          PROVE  Amounts[b] \in Int /\ Payouts[b] = (Amounts[b] * m + 5000) \div 10000
      <4>1. b \in Tickets /\ bets[b].amount \in Int /\ bets[b].payout = Payout(bets[b].amount, m)
        BY <3>1, WinnersDue, RowIs DEF Winners
      <4>. QED BY <4>1, SMT DEF Payout
    <3>. HIDE DEF Amounts, Payouts
    <3>. QED BY <3>2 DEF RoundedTo
  <2>3. P \in Int /\ 10000 * P <= m * A + 5000 * k
    <3>. HIDE DEF m, Amounts, Payouts
    <3>. QED BY <1>1, <2>1, <2>2, RoundedSum
  <2>4. 20000 * P <= D + 10000 * k
    <3>. HIDE DEF D, P, A, k, q, m
    <3>. QED BY <1>1, <1>2, <2>1, <2>3, SharesFit
  <2>. HIDE DEF D, P, A, k, q, m
  <2>. QED BY <1>1, <1>2, <2>3, <2>4
<1>. QED BY <1>3, <1>4

(***************************************************************************)
(* For any number of tickets, stakes and rates the winners are owed no     *)
(* more than there is to distribute and half a centavo each                *)
(* (lib/odds.js, floorPayoutMultiplier).                                   *)
(***************************************************************************)
THEOREM WithinPool == Spec => []PayoutsWithinPool
BY DeclarationsFit, InvWithinPool, PTL
=============================================================================
