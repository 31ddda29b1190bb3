-------------------------------- MODULE Desk --------------------------------
(***************************************************************************)
(* A teller's desk and the server: tickets are placed, voided and paid by  *)
(* calls whose answers may be lost, and a kiosk that hears nothing, or 408 *)
(* "System busy", calls again with the same clientRequestId or ticket.  So *)
(* several calls for the same thing may be served at the same time.  Each  *)
(* looks at the ticket first, then commits under the lock of the fight     *)
(* (of the ticket, to pay) what is still possible by then.                 *)
(***************************************************************************)
EXTENDS Book

CONSTANTS Handlers,     \* the calls the server serves at the same time
          Codes,        \* the ticket codes that may be drawn
          Request,      \* ticket -> what the kiosk asks under its clientRequestId
          NamesColumns  \* may the database client name the columns of a unique
                        \* violation in err.meta.target: yes, no, or either

ASSUME DeskConstants ==
  /\ Request \in [BetIds -> [fight : Nat, teller : Tellers, side : Sides, amount : Stakes]]
  /\ NamesColumns \in SUBSET BOOLEAN \ {{}}

VARIABLES handler,      \* the call a handler serves, and how far it got
          heard,        \* <<operation, ticket>> -> what the kiosk was told
          codeOf        \* ticket -> the code printed on it

deskVars == <<vars, handler, heard, codeOf>>

Free == [op |-> "none", step |-> "none"]
Operations == {"place", "void", "pay"}

\* 201 or 200 without replay, 200 with replay, a 409, 408 and a 500.
Final   == {"fresh", "replay", "refused"}
Answers == Final \cup {"busy", "error"}
Pending == {"waiting", "busy", "error"}

DeskInit ==
  /\ Init
  /\ handler = [h \in Handlers |-> Free]
  /\ heard = [q \in Operations \X BetIds |-> "unasked"]
  /\ codeOf = << >>

Stays == UNCHANGED <<vars, codeOf>>

At(h, op, step) == handler[h].op = op /\ handler[h].step = step

Goes(h, step) ==
  /\ handler' = [handler EXCEPT ![h].step = step]
  /\ UNCHANGED heard

\* The handler has its answer; the transaction, if any, has ended.
Answered(h, answer) ==
  /\ handler' = [handler EXCEPT ![h] = [op |-> @.op, bet |-> @.bet, step |-> "answering",
                                        answer |-> answer]]
  /\ UNCHANGED heard

-----------------------------------------------------------------------------
(* The kiosk                                                               *)

\* A ticket is voided or paid by who was told that it exists.
MayAsk(op, b) ==
  /\ heard[<<op, b>>] \in {"unasked"} \cup Pending
  /\ op # "place" => heard[<<"place", b>>] \in {"fresh", "replay"}

CashedOut == {"PAID", "REFUNDED"}

AlreadyDone(op, b) ==
  CASE op = "place" -> b \in DOMAIN bets
    [] op = "void"  -> bets[b].status = "VOIDED"
    [] op = "pay"   -> bets[b].status \in CashedOut

\* A retry asks the same.  History: was it done by the time it asks?
Call(h, op, b) ==
  /\ handler[h] = Free
  /\ MayAsk(op, b)
  /\ Request[b].fight \in DOMAIN fights
  /\ handler' = [handler EXCEPT ![h] = [op |-> op, bet |-> b, step |-> "called",
                                             again |-> AlreadyDone(op, b)]]
  /\ heard' = [heard EXCEPT ![<<op, b>>] = "waiting"]
  /\ Stays

\* The kiosk takes the first answer that says something.
Deliver(h) ==
  /\ handler[h].step = "answering"
  /\ handler' = [handler EXCEPT ![h] = Free]
  /\ LET q == <<handler[h].op, handler[h].bet>> IN
     heard' = [heard EXCEPT ![q] = IF @ \in Pending THEN handler[h].answer ELSE @]
  /\ Stays

\* The answer never arrives, or the server stops in the middle of the call.
Lose(h) ==
  /\ handler[h] # Free
  /\ handler' = [handler EXCEPT ![h] = Free]
  /\ UNCHANGED heard
  /\ Stays

-----------------------------------------------------------------------------
(* placeBet                                                                *)

Accepts(b) == AcceptsBets(Request[b].fight, Request[b].side)

\* Fault: the fight is looked at before the ticket.
PlaceLookFightFirst(h) ==
  /\ At(h, "place", "called")
  /\ CASE ~Accepts(handler[h].bet)      -> Answered(h, "refused")
       [] handler[h].bet \in DOMAIN bets -> Answered(h, "replay")
       [] OTHER                          -> Goes(h, "looked")
  /\ Stays

PlaceLook(h) ==
  /\ At(h, "place", "called")
  /\ IF handler[h].bet \in DOMAIN bets THEN Answered(h, "replay") ELSE Goes(h, "looked")
  /\ Stays

CodeInUse(c) == \E b \in DOMAIN bets : codeOf[b] = c

\* generateTicketCode: a code no ticket has, or none after eight attempts.
DrawCode(h) ==
  /\ At(h, "place", "looked")
  /\ \/ /\ \E c \in Codes :
             /\ ~CodeInUse(c)
             /\ handler' = [handler EXCEPT ![h] = [op |-> @.op, bet |-> @.bet, step |-> "coded",
                                                   again |-> @.again, code |-> c]]
        /\ UNCHANGED heard
     \/ (\E c \in Codes : CodeInUse(c)) /\ Answered(h, "error")
  /\ Stays

PlaceCommit(h) ==
  LET call == handler[h]
      asked == Request[call.bet] IN
  /\ At(h, "place", "coded")
  /\ ~CodeInUse(call.code)
  /\ PlaceBet(call.bet, asked.fight, asked.teller, asked.side, asked.amount)
  /\ codeOf' = (call.bet :> call.code) @@ codeOf
  /\ Answered(h, "fresh")

\* The fight is looked at before the row is inserted.
PlaceRefused(h) ==
  /\ At(h, "place", "coded")
  /\ ~Accepts(handler[h].bet)
  /\ Answered(h, "refused")
  /\ Stays

\* The INSERT meets the index on the code before that on clientRequestId,
\* and the first one met is reported (external: Postgres tries the indexes in
\* the order the migration made them).
TwinReported(h) == ~CodeInUse(handler[h].code) /\ handler[h].bet \in DOMAIN bets

\* P2002 on clientRequestId, and meta.target says so: the other call's ticket
\* is the answer.
Duplicate(h) ==
  /\ At(h, "place", "coded")
  /\ Accepts(handler[h].bet)
  /\ TwinReported(h) /\ TRUE \in NamesColumns
  /\ Answered(h, "replay")
  /\ Stays

\* Any other P2002, or one that names no column: no row, 409.
UniqueConflict(h) ==
  /\ At(h, "place", "coded")
  /\ Accepts(handler[h].bet)
  /\ CodeInUse(handler[h].code) \/ (TwinReported(h) /\ FALSE \in NamesColumns)
  /\ Answered(h, "refused")
  /\ Stays

-----------------------------------------------------------------------------
(* voidBet                                                                 *)

\* evaluateBetVoidEligibility
Voidable(b) == bets[b].status = "PENDING" /\ bets[b].fight \in Live

VoidLook(h) ==
  LET b == handler[h].bet IN
  /\ At(h, "void", "called")
  /\ CASE bets[b].status = "VOIDED" -> Answered(h, "replay")
       [] Voidable(b)               -> Goes(h, "looked")
       [] OTHER                     -> Answered(h, "refused")
  /\ Stays

VoidCommit(h) ==
  /\ At(h, "void", "looked")
  /\ VoidBet(handler[h].bet)
  /\ Answered(h, "fresh")
  /\ UNCHANGED codeOf

\* Fault: whatever cannot be voided any more is taken to be void.
VoidRefusedAsReplay(h) ==
  /\ At(h, "void", "looked")
  /\ ~Voidable(handler[h].bet)
  /\ Answered(h, "replay")
  /\ Stays

\* Under the lock too eligibility comes first: the ticket voided by another
\* call is refused, not replayed.
VoidRefused(h) ==
  /\ At(h, "void", "looked")
  /\ ~Voidable(handler[h].bet)
  /\ Answered(h, "refused")
  /\ Stays

-----------------------------------------------------------------------------
(* payBet                                                                  *)

Payable(b) == \/ bets[b].status = "WON"
              \/ bets[b].status = "PENDING_REFUND" /\ RefundEligible(bets[b].fight)

\* Fault: a retry of a payment is told to try again later.
PayLookBusy(h) ==
  LET b == handler[h].bet IN
  /\ At(h, "pay", "called")
  /\ CASE bets[b].status \in CashedOut -> Answered(h, "busy")
       [] Payable(b)                   -> Goes(h, "looked")
       [] OTHER                        -> Answered(h, "refused")
  /\ Stays

PayLook(h) ==
  LET b == handler[h].bet IN
  /\ At(h, "pay", "called")
  /\ CASE bets[b].status \in CashedOut -> Answered(h, "replay")
       [] Payable(b)                   -> Goes(h, "looked")
       [] OTHER                        -> Answered(h, "refused")
  /\ Stays

\* Fault: the second look does not know a payment that was made meanwhile.
PayAgainRefused(h) ==
  /\ At(h, "pay", "looked")
  /\ bets[handler[h].bet].status \in CashedOut
  /\ Answered(h, "refused")
  /\ Stays

PayAgain(h) ==
  /\ At(h, "pay", "looked")
  /\ bets[handler[h].bet].status \in CashedOut
  /\ Answered(h, "replay")
  /\ Stays

\* Fault: what the first look found is not looked at again.
PayUnchecked(h) ==
  /\ At(h, "pay", "looked")
  /\ PayBetAgain(handler[h].bet)
  /\ Answered(h, "fresh")
  /\ UNCHANGED codeOf

PayCommit(h) ==
  /\ At(h, "pay", "looked")
  /\ PayBet(handler[h].bet)
  /\ Answered(h, "fresh")
  /\ UNCHANGED codeOf

\* Reverted meanwhile, or more than the drawer holds.
PayRefused(h) ==
  LET b == handler[h].bet IN
  /\ At(h, "pay", "looked")
  /\ bets[b].status \notin CashedOut
  /\ Payable(b) => Balance(bets[b].teller) < bets[b].payout
  /\ Answered(h, "refused")
  /\ Stays

-----------------------------------------------------------------------------

\* P2028: no lock or no end in time.
TimedOut(h) ==
  /\ handler[h].step \in {"looked", "coded"}
  /\ ~At(h, "place", "looked")
  /\ Answered(h, "busy")
  /\ Stays

Calling == \E h \in Handlers, op \in Operations, b \in BetIds : Call(h, op, b)

Commits(h) == PlaceCommit(h) \/ VoidCommit(h) \/ PayCommit(h)

Looks(h) == PlaceLook(h) \/ VoidLook(h) \/ PayLook(h)

Decides(h) ==
  \/ Commits(h)
  \/ PlaceRefused(h) \/ Duplicate(h) \/ UniqueConflict(h)
  \/ VoidRefused(h)
  \/ PayAgain(h) \/ PayRefused(h)

\* What happens to the fights and the drawers meanwhile.
Meanwhile ==
  /\ \/ CreateFight
     \/ \E f \in DOMAIN fights :
          \/ CloseFight(f) \/ ReopenFight(f) \/ CancelFight(f) \/ UnsettleFight(f)
          \/ \E o \in Outcomes : SettleFight(f, o)
     \/ \E t \in Tellers, a \in CashAmounts : CashAdvance(t, a) \/ CashRemit(t, a)
  /\ UNCHANGED <<handler, heard, codeOf>>

DeskNext ==
  \/ Calling \/ Meanwhile
  \/ \E h \in Handlers : \/ Looks(h) \/ DrawCode(h) \/ Decides(h) \/ TimedOut(h)
                        \/ Deliver(h) \/ Lose(h)

DeskSpec == DeskInit /\ [][DeskNext]_deskVars

\* Only the sale of tickets, of several at the same time.
SaleNext ==
  \/ \E h \in Handlers, b \in BetIds : Call(h, "place", b)
  \/ \E h \in Handlers : \/ PlaceLook(h) \/ DrawCode(h) \/ Decides(h) \/ TimedOut(h)
                        \/ Deliver(h) \/ Lose(h)
  \/ /\ CreateFight \/ \E f \in DOMAIN fights : CloseFight(f) \/ ReopenFight(f)
     /\ UNCHANGED <<handler, heard, codeOf>>

\* A kiosk that waits calls again, and not every call is late or lost.
Retry ==
  \E h \in Handlers, op \in Operations, b \in BetIds :
    heard[<<op, b>>] \in Pending /\ Call(h, op, b)

DeliversFinal(h) == handler[h].step = "answering" /\ handler[h].answer \in Final /\ Deliver(h)

Fairness ==
  /\ SF_deskVars(Retry)
  /\ SF_deskVars(\E h \in Handlers : Looks(h))
  /\ SF_deskVars(\E h \in Handlers : DrawCode(h))
  /\ SF_deskVars(\E h \in Handlers : Decides(h))
  /\ SF_deskVars(\E h \in Handlers : DeliversFinal(h))
  /\ WF_deskVars(\E h \in Handlers : Deliver(h) \/ Lose(h))

-----------------------------------------------------------------------------

Refuses(h, op) ==
  /\ At(h, op, handler[h].step) /\ handler[h].step # "answering"
  /\ handler'[h].step = "answering" /\ handler'[h].answer = "refused"

(***************************************************************************)
(* What a kiosk was told stays true: a ticket it was told to hand out      *)
(* exists, one it was told is void is void, and one it was told to pay is  *)
(* paid, whatever answers were lost and whatever was called again.         *)
(***************************************************************************)
AnswersAreTrue ==
  \A b \in BetIds :
    /\ heard[<<"place", b>>] \in {"fresh", "replay"} => b \in DOMAIN bets
    /\ heard[<<"void", b>>] \in {"fresh", "replay"} => bets[b].status = "VOIDED"
    /\ heard[<<"pay", b>>] \in {"fresh", "replay"} => bets[b].status \in CashedOut

\* A call that is refused is not for a ticket that was paid ...
RefusedUnpaid ==
  \A h \in Handlers : Refuses(h, "pay") => bets[handler[h].bet].status \notin CashedOut

\* ... and not for anything that was done before the call.
RefusedUndone ==
  \A h \in Handlers, op \in Operations : Refuses(h, op) => ~handler[h].again

(***************************************************************************)
(* A payout is retried safely (bets.service.js, payBet: "return as         *)
(* idempotent replay"): no call is refused for a ticket that was paid, so  *)
(* that a teller never doubts cash that has left the drawer.               *)
(***************************************************************************)
PaidIsReplayed == [][RefusedUnpaid]_deskVars

(***************************************************************************)
(* Whoever calls again after it was done is told so: a ticket that was     *)
(* placed, voided or paid before the call is never refused by it, though   *)
(* its fight was closed, cancelled, settled or reverted since and could    *)
(* not be bet on, or the ticket not be voided or paid any more.  Of the    *)
(* retry that overtakes what it repeats only PaidIsReplayed is true; the   *)
(* next three are what the documentation says of the other two.            *)
(***************************************************************************)
DoneIsReplayed == [][RefusedUndone]_deskVars

(***************************************************************************)
(* "Retry the same request with the same id to get the original result     *)
(* back as a 200 with replay: true" (bets.routes.js): no call is refused   *)
(* for a ticket that was placed.  It fails for the retry that looked       *)
(* before the ticket was there and locks the fight after it closed.        *)
(***************************************************************************)
PlacedIsReplayed ==
  [][\A h \in Handlers : Refuses(h, "place") => handler[h].bet \notin DOMAIN bets]_deskVars

(***************************************************************************)
(* "Treat that exactly as a replay" (placeBet's P2002 branch): no call is  *)
(* refused for a ticket that was placed while its fight takes bets.  It    *)
(* fails if the client does not name the columns of a unique violation,    *)
(* and for two calls that drew the same code.                              *)
(***************************************************************************)
ReplayedWhileAccepting ==
  [][\A h \in Handlers :
       LET b == handler[h].bet IN
       Refuses(h, "place") /\ b \in DOMAIN bets => ~Accepts(b)]_deskVars

(***************************************************************************)
(* "Voiding an already-VOIDED bet returns the existing record with replay: *)
(* true (200), not a 409.  Safe to retry blindly" (bets.routes.js).        *)
(***************************************************************************)
VoidedIsReplayed ==
  [][\A h \in Handlers :
       Refuses(h, "void") => bets[handler[h].bet].status # "VOIDED"]_deskVars
=============================================================================
