------------------------------- MODULE BookTx -------------------------------
(***************************************************************************)
(* The betting book under concurrent requests.  The services use Postgres  *)
(* at its default level, READ COMMITTED: each statement sees what has been *)
(* committed when it starts, and what a transaction read may be stale when *)
(* it writes.  What it read is safe only as far as locks reach: the Fight  *)
(* row (lockFightById), the Bet row (payBet) and one advisory lock         *)
(* (createFight, unsettleFight).                                           *)
(*                                                                         *)
(* An operation is one step, that of Book, when everything its writes rest *)
(* on is read again under the lock of the fight and nothing but a holder   *)
(* of that lock can change it: betting, voiding, holding, the lifecycle,   *)
(* settling and cancelling.  The six others read first and write later,    *)
(* with anything in between: a session remembers the request it is in the  *)
(* middle of, and what it has read.                                        *)
(***************************************************************************)
EXTENDS Book

CONSTANT Sessions       \* the requests the server handles at the same time

VARIABLE tx             \* session -> the transaction it is in the middle of

txVars == <<vars, tx>>
bookVars == vars

Idle == [op |-> "idle"]

-----------------------------------------------------------------------------
(* Locks, as the transactions that hold them                               *)

FightUnlocked(f) == FALSE                    \* Fault: nobody locks the fight

FightLocked(f) ==
  \E s \in Sessions : /\ tx[s].op \in {"correct", "unsettle"}
                      /\ f = tx[s].fight \/ f \in tx[s].live

BetUnlocked(b) == FALSE                      \* Fault: payBet without FOR UPDATE

BetLocked(b) == \E s \in Sessions : tx[s].op = "pay" /\ tx[s].bet = b

AdvisoryLocked == \E s \in Sessions : tx[s].op \in {"create", "unsettle"}

Begin(s, request) ==
  /\ tx[s] = Idle
  /\ tx' = [tx EXCEPT ![s] = request]
  /\ UNCHANGED bookVars

Done(s) == tx' = [tx EXCEPT ![s] = Idle]

\* UPDATE, one by one, of the planned rows of fight f: it waits for those
\* that are locked and throws (P2025) when one is gone.
WriteTickets(f, plan) ==
  /\ DOMAIN plan \subseteq TicketsOf(f)
  /\ \A b \in DOMAIN plan : ~BetLocked(b)
  /\ bets' = [b \in DOMAIN bets |-> IF b \in DOMAIN plan THEN plan[b] ELSE bets[b]]

-----------------------------------------------------------------------------
(* createFight: no live fight, then no closed one, then the insert         *)

CreateRead(s) ==
  /\ ~AdvisoryLocked
  /\ Live = {}
  /\ DOMAIN fights # 1 .. MaxFights
  /\ Begin(s, [op |-> "create"])

CreateWrite(s) ==
  /\ tx[s].op = "create"
  /\ FightsIn({"CLOSED"}) = {}
  /\ \E n \in 1 .. MaxFights :
       /\ IsNextNumber(n)
       /\ fights' = [f \in DOMAIN fights \cup {n} |->
                       IF f = n THEN NewFight(setting) ELSE fights[f]]
  /\ Done(s)
  /\ UNCHANGED <<setting, bets, ledger, history>>

(* correctFight: every ticket is planned from one read, then all written   *)

CorrectRead(s, f, o) ==
  LET ratios == PayoutRatios(fights[f].pool, fights[f].rate, o) IN
  /\ ~FightLocked(f)
  /\ fights[f].status = "SETTLED"
  /\ fights[f].outcome # o
  /\ \A b \in TicketsOf(f) : CanCorrect(o, ratios, bets[b])
  /\ Begin(s, [op |-> "correct", fight |-> f, live |-> {}, outcome |-> o,
               plan |-> [b \in {c \in TicketsOf(f) : ~CorrectionSkips(o, ratios, bets[c])} |->
                           CorrectedTicket(o, ratios, bets[b])]])

CorrectWrite(s) ==
  LET f == tx[s].fight  o == tx[s].outcome IN
  /\ tx[s].op = "correct"
  /\ WriteTickets(f, tx[s].plan)
  /\ fights' = [fights EXCEPT
                  ![f].outcome = o,
                  ![f].ratios = PayoutRatios(fights[f].pool, fights[f].rate, o),
                  ![f].prevOutcome = fights[f].outcome,
                  ![f].prevRatios = fights[f].ratios]
  /\ Done(s)
  /\ UNCHANGED <<setting, ledger, history>>

(* unsettleFight: the live fights are locked and the gate looks at every   *)
(* ticket, then all are written                                            *)

UnsettleRead(s, f) ==
  /\ ~AdvisoryLocked
  /\ ~FightLocked(f)
  /\ fights[f].status = "SETTLED"
  /\ \A g \in Live : ~FightLocked(g)
  /\ \A b \in TicketsOf(f) : ~BlocksUnsettle(bets[b])
  /\ Begin(s, [op |-> "unsettle", fight |-> f, live |-> Live,
               plan |-> [b \in {c \in TicketsOf(f) : UnsettledTicket(bets[c]) # bets[c]} |->
                           UnsettledTicket(bets[b])]])

UnsettleWrite(s) ==
  LET f == tx[s].fight IN
  /\ tx[s].op = "unsettle"
  /\ WriteTickets(f, tx[s].plan)
  /\ fights' = [g \in DOMAIN fights |->
       CASE g = f -> [fights[f] EXCEPT !.status = "CLOSED", !.outcome = None,
                        !.ratios = NoRatios, !.prevOutcome = None,
                        !.prevRatios = NoRatios]
         [] g \in tx[s].live -> [fights[g] EXCEPT !.status = "CLOSED"]
         [] OTHER -> fights[g]]
  /\ Done(s)
  /\ UNCHANGED <<setting, ledger, history>>

-----------------------------------------------------------------------------
(* payBet: the ticket is locked and the balance checked, then it commits.  *)
(* The balance check sees its own row and the committed ones.              *)

CashOut(b) ==
  LedgerRow(bets[b].teller,
            IF bets[b].status = "PENDING_REFUND" THEN "BET_REFUNDED" ELSE "PAYOUT",
            -bets[b].payout, b)

PayRead(s, b) ==
  /\ ~BetLocked(b)
  /\ bets[b].status \in {"WON", "PENDING_REFUND"}
  /\ bets[b].status = "PENDING_REFUND" => RefundEligible(bets[b].fight)
  /\ bets[b].payout # Null
  /\ BalanceIn(Posted({CashOut(b)}), bets[b].teller) >= 0
  /\ Begin(s, [op |-> "pay", bet |-> b, row |-> CashOut(b)])

PayWrite(s) ==
  LET b == tx[s].bet  row == tx[s].row IN
  /\ tx[s].op = "pay"
  /\ bets' = [bets EXCEPT ![b].status = IF row.type = "PAYOUT" THEN "PAID" ELSE "REFUNDED"]
  /\ ledger' = Posted({row})
  /\ drawer' = [drawer EXCEPT ![row.teller] = @ + row.amount]
  /\ paidOut' = [paidOut EXCEPT ![bets[b].fight] = @ - row.amount]
  /\ Done(s)
  /\ UNCHANGED <<setting, fights, purged>>

(* purgeBet: the adjustments are planned before the transaction, which     *)
(* looks again at the ticket and no more at the fight or the ledger. That  *)
(* look takes no lock: the deletes may find the ticket changed since, and  *)
(* wait only for a payment that holds its row.                             *)

PurgeRead(s, b) ==
  /\ bets[b].status = "PAID"
  /\ fights[bets[b].fight].status = "SETTLED"
  /\ CashRows < MaxCashRows
  /\ Begin(s, [op |-> "purge", bet |-> b, plan |-> PurgeAdjustments(b)])

PurgeWrite(s) ==
  LET b == tx[s].bet IN
  /\ tx[s].op = "purge"
  /\ CashRows < MaxCashRows
  /\ ~BetLocked(b)
  /\ bets' = Restrict(bets, DOMAIN bets \ {b})
  /\ ledger' = Restrict(ledger, DOMAIN ledger \ RowsOf(b)) (+) SetToBag(tx[s].plan)
  /\ purged' = [purged EXCEPT ![bets[b].fight][bets[b].side] = @ + bets[b].amount]
  \* whoever else wants to delete the row finds it gone (P2025)
  /\ tx' = [r \in Sessions |->
              IF tx[r].op = "purge" /\ tx[r].bet = b THEN Idle ELSE tx[r]]
  /\ UNCHANGED <<setting, fights, drawer, paidOut>>

(* cashRemit: the row is inserted and the balance checked, then it commits *)

RemitRead(s, t, amount) ==
  LET row == LedgerRow(t, "REMIT", -amount, NoBet) IN
  /\ CashRows < MaxCashRows
  /\ BalanceIn(Posted({row}), t) >= 0
  /\ Begin(s, [op |-> "remit", row |-> row])

RemitWrite(s) ==
  LET row == tx[s].row IN
  /\ tx[s].op = "remit"
  /\ CashRows < MaxCashRows
  /\ ledger' = Posted({row})
  /\ drawer' = [drawer EXCEPT ![row.teller] = @ + row.amount]
  /\ Done(s)
  /\ UNCHANGED <<setting, fights, bets, paidOut, purged>>

-----------------------------------------------------------------------------
(* Requests that give up                                                   *)

\* The second look throws: the fight is closed after all, a planned ticket
\* is gone (P2025), the ticket to purge is no longer paid.
Rejected(s) ==
  /\ \/ tx[s].op = "create" /\ FightsIn({"CLOSED"}) # {}
     \/ /\ tx[s].op \in {"correct", "unsettle"}
        /\ ~(DOMAIN tx[s].plan \subseteq TicketsOf(tx[s].fight))
     \/ tx[s].op = "purge" /\ bets[tx[s].bet].status # "PAID"
  /\ Done(s)
  /\ UNCHANGED bookVars

\* P2028 after 10 or 15 seconds, a lost connection, a crash of the server:
\* the transaction rolls back and its locks are free.
Timeout(s) ==
  /\ tx[s] # Idle
  /\ Done(s)
  /\ UNCHANGED bookVars

-----------------------------------------------------------------------------
(* Operations that read again under the lock of the fight                  *)

UnderFightLock(f) ==
  /\ ~FightLocked(f)
  /\ \/ CloseFight(f) \/ ReopenFight(f) \/ SetFightLastCall(f) \/ ResumeFightOpen(f)
     \/ \E s \in Sides, a \in BOOLEAN : ToggleSide(f, s, a)
     \/ \E o \in Outcomes : SettleFight(f, o)
     \/ CancelFight(f)
     \/ \E b \in BetIds, t \in Tellers, s \in Sides, a \in Stakes : PlaceBet(b, f, t, s, a)
     \/ \E b \in TicketsOf(f) : VoidBet(b)

\* Operations without a lock whose writes rest on no read.
Unlocked ==
  \/ \E r \in Rates : UpdateSetting(r)
  \/ \E t \in Tellers, a \in CashAmounts : CashAdvance(t, a)
  \/ \E r \in DOMAIN ledger : DeleteRemit(r)

Direct == /\ Unlocked \/ \E f \in DOMAIN fights : UnderFightLock(f)
          /\ UNCHANGED tx

Creating(s)    == CreateRead(s) \/ CreateWrite(s)
Amending(s)    == \/ \E f \in DOMAIN fights, o \in Outcomes : CorrectRead(s, f, o)
                  \/ CorrectWrite(s)
Returning(s)   == (\E f \in DOMAIN fights : UnsettleRead(s, f)) \/ UnsettleWrite(s)
Redeeming(s)   == (\E b \in DOMAIN bets : PayRead(s, b)) \/ PayWrite(s)
Erasing(s)     == (\E b \in DOMAIN bets : PurgeRead(s, b)) \/ PurgeWrite(s)
Remitting(s)   == \/ \E t \in Tellers, a \in CashAmounts : RemitRead(s, t, a)
                  \/ RemitWrite(s)
GivingUp(s)    == Rejected(s) \/ Timeout(s)

TxInit == Init /\ tx = [s \in Sessions |-> Idle]

TxNext ==
  \/ Direct
  \/ \E s \in Sessions :
       \/ Creating(s) \/ Amending(s) \/ Returning(s) \/ Redeeming(s)
       \/ Erasing(s) \/ Remitting(s) \/ GivingUp(s)

TxSpec == TxInit /\ [][TxNext]_txVars

-----------------------------------------------------------------------------
(* Types                                                                   *)

IsPlan(plan) == DOMAIN plan \subseteq BetIds /\ \A b \in DOMAIN plan : plan[b] \in Ticket

IsRequest(request) ==
  CASE request.op = "correct"  -> /\ request.fight \in DOMAIN fights /\ request.live = {}
                                  /\ request.outcome \in Outcomes
                                  /\ IsPlan(request.plan)
    [] request.op = "unsettle" -> /\ request.fight \in DOMAIN fights
                                  /\ request.live \subseteq DOMAIN fights
                                  /\ IsPlan(request.plan)
    [] request.op = "pay"      -> request.bet \in DOMAIN bets /\ request.row \in Row
    [] request.op = "purge"    -> request.bet \in DOMAIN bets /\ request.plan \subseteq Row
    [] request.op = "remit"    -> request.row \in Row
    [] OTHER                   -> request \in {Idle, [op |-> "create"]}

TxTypeOK == TypeOK /\ \A s \in Sessions : IsRequest(tx[s])

-----------------------------------------------------------------------------
(* What holds whatever overlaps                                            *)

(***************************************************************************)
(* A fight row never tells two stories: it has a result exactly when it is *)
(* settled, and the ratios are those of that result and of its pools, for  *)
(* all the admins who correct and revert it at the same time.              *)
(***************************************************************************)
FightRowCoherent ==
  \A f \in DOMAIN fights :
    /\ fights[f].status = "SETTLED" <=> fights[f].outcome # None
    /\ fights[f].ratios = IF fights[f].outcome = None THEN NoRatios
         ELSE PayoutRatios(fights[f].pool, fights[f].rate, fights[f].outcome)

(***************************************************************************)
(* payBet locks the ticket and no fight (bets.service.js): that is enough  *)
(* for the ticket, and for a refund the fight's right to it, to be at the  *)
(* payment what they were at the check, whatever admins do to the fight.   *)
(***************************************************************************)
PaymentIsCurrent ==
  \A s \in Sessions :
    tx[s].op = "pay" =>
      LET b == tx[s].bet IN
      /\ bets[b].status \in {"WON", "PENDING_REFUND"}
      /\ tx[s].row = CashOut(b)
      /\ bets[b].status = "PENDING_REFUND" => RefundEligible(bets[b].fight)

(***************************************************************************)
(* cash.service.js: "A REMIT cannot push a teller's balance below zero",   *)
(* and no lock is needed for it.                                           *)
(***************************************************************************)
RemitNeverOverdraws ==
  [][\A t \in Tellers, a \in CashAmounts :
       LET row == LedgerRow(t, "REMIT", -a, NoBet) IN
       ledger' = Posted({row}) => BalanceIn(ledger', t) >= 0]_vars

-----------------------------------------------------------------------------
(* When requests keep out of each other's way                              *)

\* While a fight is corrected or reverted none of its tickets is paid, no
\* fight is reopened while another is created or reverted, and nothing takes
\* cash from a drawer that is being paid from.
Careful ==
  \A s \in Sessions :
    /\ tx'[s].op \in {"correct", "unsettle"} =>
         \A r \in Sessions : tx'[r].op = "pay" => bets[tx'[r].bet].fight # tx'[s].fight
    /\ tx[s].op \in {"create", "unsettle"} /\ tx'[s] = tx[s] => Live' \subseteq Live
    /\ tx[s].op \in {"pay", "remit"} /\ tx'[s] = tx[s] =>
         BalanceIn(ledger', tx[s].row.teller) >= Balance(tx[s].row.teller)

CarefulSpec == TxInit /\ [][TxNext /\ Careful]_txVars
=============================================================================
