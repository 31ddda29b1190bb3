---------------------------- MODULE AnswerProofs ----------------------------
(***************************************************************************)
(* What those who ask are told, for any number of calls served at once, of *)
(* tickets, fights, codes and tellers.  The desk does nothing to the       *)
(* tables but the operations of Book, so all that Book promises holds; an  *)
(* answer to a kiosk, however late, repeated or overtaken, tells the       *)
(* truth; half the commission an administrator is told of is cash; the     *)
(* frames the routes broadcast tell the screens of every change; and who   *)
(* walks through a list sees all that stays in it.                         *)
(***************************************************************************)
EXTENDS Desk, Api, Pages, BookProofs, SequenceTheorems

Told == {"fresh", "replay"}

\* What an answer says that nothing went wrong has told of a ticket.
Done(table, op, b) ==
  /\ b \in DOMAIN table
  /\ op = "void" => table[b].status = "VOIDED"
  /\ op = "pay"  => table[b].status \in CashedOut

\* The steps before there is an answer.
InHand == {"called", "looked", "coded"}

\* A call is for a ticket that exists, unless it is a placement.  One that asks
\* for what was done has not got past the first look, and the answer that waits
\* to be delivered is true.
CallFits(call, table) ==
  \/ call = Free
  \/ /\ {"op", "bet", "step"} \subseteq DOMAIN call
     /\ call.op \in Operations
     /\ call.bet \in BetIds
     /\ call.op # "place" => call.bet \in DOMAIN table
     /\ call.step \in InHand =>
          /\ "again" \in DOMAIN call
          /\ call.again => call.step = "called" /\ Done(table, call.op, call.bet)
     /\ call.step = "answering" =>
          (call.answer \in Told => Done(table, call.op, call.bet))

DeskTyped ==
  /\ DOMAIN handler = Handlers
  /\ handler = [h \in Handlers |-> handler[h]]
  /\ DOMAIN heard = Operations \X BetIds
  /\ heard = [q \in Operations \X BetIds |-> heard[q]]

CallsFit == \A h \in Handlers : CallFits(handler[h], bets)

HeardTrue ==
  \A op \in Operations, b \in BetIds : heard[<<op, b>>] \in Told => Done(bets, op, b)

AnswersInv == TypeOK /\ DeskTyped /\ CallsFit /\ HeardTrue

-----------------------------------------------------------------------------
(* What was done stays done                                                *)

\* Without purges no ticket is lost.
LEMMA NoTicketLost ==
  ASSUME TypeOK, [NoPurgeNext]_vars
  PROVE  DOMAIN bets \subseteq DOMAIN bets'
<1>1. CASE UNCHANGED vars
  BY <1>1 DEF vars
<1>2. CASE Tuning \/ Cash
  BY <1>2 DEF Tuning, Cash, UpdateSetting, CashAdvance, CashRemit, DeleteRemit
<1>3. CASE Lifecycle
  BY <1>3 DEF Lifecycle, CreateFight, CloseFight, ReopenFight, SetFightLastCall,
    ResumeFightOpen, MoveFight
<1>4. CASE Holding
  BY <1>4 DEF Holding, ToggleSide
<1>5. CASE Betting
  BY <1>5 DEF Betting, PlaceBet, VoidBet
<1>6. CASE Declaring \/ Correcting \/ Reverting
  BY <1>6, DeclaredKeep DEF Declaring, Correcting, Reverting
<1>7. CASE Paying
  BY <1>7 DEF Paying, PayBet
<1>. QED BY <1>1, <1>2, <1>3, <1>4, <1>5, <1>6, <1>7 DEF NoPurgeNext

LEMMA DoneStays ==
  ASSUME TypeOK, [NoPurgeNext]_vars, NEW op, NEW b, Done(bets, op, b)
  PROVE  Done(bets', op, b)
<1>1. b \in DOMAIN bets /\ b \in DOMAIN bets'
  BY NoTicketLost DEF Done
<1>2. CASE UNCHANGED vars
  BY <1>2 DEF vars
<1>3. CASE NoPurgeNext
  <2>1. CashedKept
    BY <1>3, NextKeeps DEF NoPurgeNext, Next
  <2>2. bets[b].status \in Cashed => bets'[b].status = bets[b].status
    BY <1>1, <2>1 DEF CashedKept
  <2>. QED BY <1>1, <2>2 DEF Done, Cashed, CashedOut
<1>. QED BY <1>2, <1>3

\* A call that was true of the tickets stays so.
LEMMA FitStays ==
  ASSUME TypeOK, [NoPurgeNext]_vars, NEW call, CallFits(call, bets)
  PROVE  CallFits(call, bets')
<1>1. call.bet \in DOMAIN bets => call.bet \in DOMAIN bets'
  BY NoTicketLost
<1>2. Done(bets, call.op, call.bet) => Done(bets', call.op, call.bet)
  BY DoneStays
<1>. QED BY <1>1, <1>2 DEF CallFits

-----------------------------------------------------------------------------
(* The desk does the operations of Book                                    *)

LEMMA RequestTypes ==
  \A b \in BetIds : /\ Request[b].teller \in Tellers /\ Request[b].side \in Sides
                    /\ Request[b].amount \in Stakes
BY DeskConstants

\* The call of a handler that is at some step.
LEMMA Serving ==
  ASSUME AnswersInv, NEW h \in Handlers, handler[h].step # "none"
  PROVE  /\ {"op", "bet", "step"} \subseteq DOMAIN handler[h]
         /\ handler[h].op \in Operations
         /\ handler[h].bet \in BetIds
         /\ handler[h].op # "place" => handler[h].bet \in DOMAIN bets
         /\ handler[h].step \in InHand =>
              /\ "again" \in DOMAIN handler[h]
              /\ handler[h].again => /\ handler[h].step = "called"
                                     /\ Done(bets, handler[h].op, handler[h].bet)
         /\ handler[h].step = "answering" =>
              (handler[h].answer \in Told => Done(bets, handler[h].op, handler[h].bet))
BY DEF AnswersInv, CallsFit, CallFits, Free

LEMMA CommitsAreOperations ==
  ASSUME AnswersInv, NEW h \in Handlers, Commits(h)
  PROVE  NoPurgeNext
<1>1. handler[h].step # "none"
  BY DEF Commits, PlaceCommit, VoidCommit, PayCommit, At
<1>2. CASE PlaceCommit(h)
  <2>. DEFINE b == handler[h].bet
  <2>1. PlaceBet(b, Request[b].fight, Request[b].teller, Request[b].side, Request[b].amount)
    BY <1>2 DEF PlaceCommit
  <2>2. Request[b].fight \in DOMAIN fights
    BY <2>1 DEF PlaceBet, AcceptsBets, Live, FightsIn
  <2>3. b \in BetIds
    BY <1>1, Serving
  <2>. QED BY <2>1, <2>2, <2>3, RequestTypes DEF NoPurgeNext, Betting
<1>3. CASE VoidCommit(h)
  BY <1>1, <1>3, Serving DEF VoidCommit, At, NoPurgeNext, Betting
<1>4. CASE PayCommit(h)
  BY <1>1, <1>4, Serving DEF PayCommit, At, NoPurgeNext, Paying
<1>. QED BY <1>2, <1>3, <1>4 DEF Commits

LEMMA DeskDoesBook ==
  ASSUME AnswersInv, [DeskNext]_deskVars
  PROVE  [NoPurgeNext]_vars
<1>1. CASE UNCHANGED deskVars
  BY <1>1 DEF deskVars
<1>2. CASE Calling
  BY <1>2 DEF Calling, Call, Stays
<1>3. CASE Meanwhile
  BY <1>3 DEF Meanwhile, NoPurgeNext, Lifecycle, Declaring, Reverting, Cash
<1>4. ASSUME NEW h \in Handlers, Commits(h)
      PROVE  NoPurgeNext
  BY <1>4, CommitsAreOperations
<1>5. ASSUME NEW h \in Handlers,
             \/ Looks(h) \/ DrawCode(h) \/ TimedOut(h) \/ Deliver(h) \/ Lose(h)
             \/ PlaceRefused(h) \/ Duplicate(h) \/ UniqueConflict(h)
             \/ VoidRefused(h) \/ PayAgain(h) \/ PayRefused(h)
      PROVE  UNCHANGED vars
  BY <1>5 DEF Looks, PlaceLook, VoidLook, PayLook, DrawCode, TimedOut, Deliver, Lose,
    PlaceRefused, Duplicate, UniqueConflict, VoidRefused, PayAgain, PayRefused, Stays
<1>. QED BY <1>1, <1>2, <1>3, <1>4, <1>5 DEF DeskNext, Decides

-----------------------------------------------------------------------------
(* Answers are true                                                        *)

\* One handler goes on; what was heard is what was heard before, or true.
LEMMA OneGoesOn ==
  ASSUME AnswersInv, [NoPurgeNext]_vars, NEW h \in Handlers, NEW call,
         handler' = [handler EXCEPT ![h] = call], CallFits(call, bets'),
         DOMAIN heard' = DOMAIN heard,
         heard' = [q \in DOMAIN heard |-> heard'[q]],
         \A op \in Operations, b \in BetIds :
           heard'[<<op, b>>] \in Told =>
             heard[<<op, b>>] \in Told \/ Done(bets', op, b)
  PROVE  AnswersInv'
<1>1. TypeOK'
  BY NextType DEF AnswersInv, NoPurgeNext, Next
<1>2. DeskTyped'
  BY DEF AnswersInv, DeskTyped
<1>3. CallsFit'
  <2>. SUFFICES ASSUME NEW g \in Handlers PROVE CallFits(handler'[g], bets')
    BY DEF CallsFit
  <2>1. CASE g = h
    BY <2>1 DEF AnswersInv, DeskTyped
  <2>2. CASE g # h
    BY <2>2, FitStays DEF AnswersInv, DeskTyped, CallsFit
  <2>. QED BY <2>1, <2>2
<1>4. HeardTrue'
  <2>. SUFFICES ASSUME NEW op \in Operations, NEW b \in BetIds, heard'[<<op, b>>] \in Told
                PROVE  Done(bets', op, b)
    BY DEF HeardTrue
  <2>. QED BY DoneStays DEF AnswersInv, HeardTrue
<1>. QED BY <1>1, <1>2, <1>3, <1>4 DEF AnswersInv

\* A handler gets further.
LEMMA GoesFits ==
  ASSUME NEW call, {"op", "bet", "step"} \subseteq DOMAIN call, NEW table,
         call.op \in Operations, call.bet \in BetIds,
         call.op # "place" => call.bet \in DOMAIN table,
         "again" \in DOMAIN call, ~ call.again, NEW step, step # "answering"
  PROVE  CallFits([call EXCEPT !.step = step], table)
<1>. DEFINE next == [call EXCEPT !.step = step]
<1>1. /\ DOMAIN next = DOMAIN call /\ next.step = step
      /\ next.op = call.op /\ next.bet = call.bet /\ next.again = call.again
  OBVIOUS
<1>. HIDE DEF next
<1>. QED BY <1>1 DEF CallFits

\* A handler has its answer.
LEMMA AnswerFits ==
  ASSUME AnswersInv, [NoPurgeNext]_vars, NEW h \in Handlers, handler[h].step # "none",
         NEW answer, Answered(h, answer),
         answer \in Told => Done(bets', handler[h].op, handler[h].bet)
  PROVE  AnswersInv'
<1>. DEFINE call == [op |-> handler[h].op, bet |-> handler[h].bet, step |-> "answering",
                     answer |-> answer]
<1>1. handler' = [handler EXCEPT ![h] = call] /\ heard' = heard
  BY DEF Answered, AnswersInv, DeskTyped
<1>2. /\ handler[h].op \in Operations /\ handler[h].bet \in BetIds
      /\ handler[h].op # "place" => handler[h].bet \in DOMAIN bets'
  BY Serving, NoTicketLost DEF AnswersInv
<1>3. CallFits(call, bets')
  BY <1>2 DEF CallFits, InHand
<1>4. /\ heard' = [q \in DOMAIN heard |-> heard'[q]]
      /\ DOMAIN heard' = DOMAIN heard
      /\ \A op \in Operations, b \in BetIds :
           heard'[<<op, b>>] \in Told => heard[<<op, b>>] \in Told
  BY <1>1 DEF AnswersInv, DeskTyped
<1>. HIDE DEF call
<1>. QED BY <1>1, <1>3, <1>4, OneGoesOn

\* A handler looked, found that it was not done, and goes on.
LEMMA LookFits ==
  ASSUME AnswersInv, [NoPurgeNext]_vars, NEW h \in Handlers, handler[h].step = "called",
         ~ Done(bets, handler[h].op, handler[h].bet),
         NEW step, step # "answering", Goes(h, step)
  PROVE  AnswersInv'
<1>. DEFINE call == [handler[h] EXCEPT !.step = step]
<1>1. handler' = [handler EXCEPT ![h] = call] /\ heard' = heard
  BY DEF Goes, AnswersInv, DeskTyped
<1>2. /\ handler[h].op \in Operations /\ handler[h].bet \in BetIds
      /\ {"op", "bet", "step"} \subseteq DOMAIN handler[h]
      /\ handler[h].op # "place" => handler[h].bet \in DOMAIN bets'
      /\ "again" \in DOMAIN handler[h] /\ ~ handler[h].again
  BY Serving, NoTicketLost DEF AnswersInv, InHand
<1>3. CallFits(call, bets')
  BY <1>2, GoesFits
<1>4. /\ heard' = [q \in DOMAIN heard |-> heard'[q]]
      /\ DOMAIN heard' = DOMAIN heard
      /\ \A op \in Operations, b \in BetIds :
           heard'[<<op, b>>] \in Told => heard[<<op, b>>] \in Told
  BY <1>1 DEF AnswersInv, DeskTyped
<1>. HIDE DEF call
<1>. QED BY <1>1, <1>3, <1>4, OneGoesOn

\* A kiosk calls, is answered, or waits in vain.
LEMMA KioskSteps ==
  ASSUME AnswersInv, [NoPurgeNext]_vars, NEW h \in Handlers,
         \/ \E op \in Operations, b \in BetIds : Call(h, op, b)
         \/ Deliver(h) \/ Lose(h)
  PROVE  AnswersInv'
<1>0. /\ DOMAIN handler = Handlers /\ DOMAIN heard = Operations \X BetIds
      /\ heard = [q \in DOMAIN heard |-> heard[q]]
  BY DEF AnswersInv, DeskTyped
<1>1. ASSUME NEW op \in Operations, NEW b \in BetIds, Call(h, op, b)
      PROVE  AnswersInv'
  <2>. DEFINE call == [op |-> op, bet |-> b, step |-> "called", again |-> AlreadyDone(op, b)]
  <2>1. handler' = [handler EXCEPT ![h] = call] /\ heard' = [heard EXCEPT ![<<op, b>>] = "waiting"]
    BY <1>1 DEF Call
  <2>2. op # "place" => b \in DOMAIN bets'
    <3>1. "place" \in Operations
      BY DEF Operations
    <3>2. op # "place" => heard[<<"place", b>>] \in Told
      BY <1>1 DEF Call, MayAsk, Told
    <3>3. op # "place" => b \in DOMAIN bets
      BY <3>1, <3>2 DEF AnswersInv, HeardTrue, Done
    <3>. QED BY <3>3, NoTicketLost DEF AnswersInv
  <2>3. CallFits(call, bets')
    <3>1. AlreadyDone(op, b) => Done(bets', op, b)
      <4>1. op # "place" => b \in DOMAIN bets
        <5>1. "place" \in Operations
          BY DEF Operations
        <5>2. op # "place" => heard[<<"place", b>>] \in Told
          BY <1>1 DEF Call, MayAsk, Told
        <5>. QED BY <5>1, <5>2 DEF AnswersInv, HeardTrue, Done
      <4>2. op \in {"place", "void", "pay"}
        BY DEF Operations
      <4>3. AlreadyDone(op, b) => Done(bets, op, b)
        BY <4>1, <4>2 DEF AlreadyDone, Done
      <4>. QED BY <4>3, DoneStays DEF AnswersInv
    <3>. QED BY <2>2, <3>1 DEF CallFits, InHand
  <2>4. /\ DOMAIN heard' = DOMAIN heard
        /\ heard' = [q \in DOMAIN heard |-> heard'[q]]
        /\ \A o \in Operations, x \in BetIds :
             heard'[<<o, x>>] \in Told => heard[<<o, x>>] \in Told
    <3>1. "waiting" \notin Told
      BY DEF Told
    <3>. QED BY <1>0, <2>1, <3>1
  <2>. HIDE DEF call
  <2>. QED BY <2>1, <2>3, <2>4, OneGoesOn
<1>2. CallFits(Free, bets')
  BY DEF CallFits
<1>3. CASE Deliver(h)
  <2>. DEFINE q == <<handler[h].op, handler[h].bet>>
              told == IF heard[q] \in Pending THEN handler[h].answer ELSE heard[q]
  <2>1. /\ handler[h].step = "answering"
        /\ handler' = [handler EXCEPT ![h] = Free]
        /\ heard' = [heard EXCEPT ![q] = told]
    BY <1>3 DEF Deliver
  <2>2. /\ handler[h].op \in Operations /\ handler[h].bet \in BetIds
        /\ handler[h].answer \in Told => Done(bets, handler[h].op, handler[h].bet)
    BY <2>1, Serving
  <2>3. told \in Told => heard[q] \in Told \/ Done(bets', handler[h].op, handler[h].bet)
    BY <2>2, DoneStays DEF AnswersInv
  <2>4. q \in DOMAIN heard
    BY <1>0, <2>2
  <2>. HIDE DEF told
  <2>5. \A o \in Operations, x \in BetIds :
          heard'[<<o, x>>] \in Told => heard[<<o, x>>] \in Told \/ Done(bets', o, x)
    BY <2>1, <2>3, <2>4
  <2>6. DOMAIN heard' = DOMAIN heard /\ heard' = [p \in DOMAIN heard |-> heard'[p]]
    BY <1>0, <2>1
  <2>. QED BY <1>2, <2>1, <2>5, <2>6, OneGoesOn
<1>4. CASE Lose(h)
  <2>1. handler' = [handler EXCEPT ![h] = Free] /\ heard' = heard
    BY <1>4 DEF Lose
  <2>2. \A o \in Operations, x \in BetIds : heard'[<<o, x>>] \in Told => heard[<<o, x>>] \in Told
    BY <2>1
  <2>3. DOMAIN heard' = DOMAIN heard /\ heard' = [p \in DOMAIN heard |-> heard'[p]]
    BY <1>0, <2>1
  <2>. QED BY <1>2, <2>1, <2>2, <2>3, OneGoesOn
<1>. QED BY <1>1, <1>3, <1>4

\* What the server does for one call.
LEMMA HandlerSteps ==
  ASSUME AnswersInv, [NoPurgeNext]_vars, NEW h \in Handlers,
         Looks(h) \/ DrawCode(h) \/ Decides(h) \/ TimedOut(h)
  PROVE  AnswersInv'
<1>. DEFINE op == handler[h].op
            b == handler[h].bet
<1>1. handler[h].step # "none"
  BY DEF Looks, PlaceLook, VoidLook, PayLook, DrawCode, Decides, Commits, PlaceCommit, VoidCommit,
    PayCommit, PlaceRefused, Duplicate, UniqueConflict, VoidRefused, PayAgain, PayRefused, TimedOut, At
<1>2. /\ op \in Operations /\ b \in BetIds
      /\ op # "place" => b \in DOMAIN bets
      /\ DOMAIN bets \subseteq DOMAIN bets'
  BY <1>1, Serving, NoTicketLost DEF AnswersInv
<1>3. ASSUME Goes(h, "looked"), handler[h].step = "called", ~ Done(bets, op, b) PROVE AnswersInv'
  BY <1>3, LookFits
<1>4. ASSUME NEW answer, answer \notin Told, Answered(h, answer) PROVE AnswersInv'
  BY <1>1, <1>4, AnswerFits
<1>5. ASSUME NEW answer, Answered(h, answer), Done(bets', op, b) PROVE AnswersInv'
  BY <1>1, <1>5, AnswerFits
<1>6. ASSUME NEW answer, Answered(h, answer), Done(bets, op, b) PROVE AnswersInv'
  BY <1>5, <1>6, DoneStays DEF AnswersInv
<1>7. "refused" \notin Told /\ "busy" \notin Told /\ "error" \notin Told
  BY DEF Told
<1>8. CASE PlaceLook(h)
  <2>1. handler[h].step = "called" /\ (b \in DOMAIN bets <=> Done(bets, op, b))
    BY <1>8 DEF PlaceLook, At, Done
  <2>. QED BY <1>3, <1>6, <1>8, <2>1 DEF PlaceLook
<1>9. CASE VoidLook(h)
  <2>1. handler[h].step = "called" /\ (bets[b].status = "VOIDED" <=> Done(bets, op, b))
    BY <1>2, <1>9 DEF VoidLook, At, Done
  <2>2. \/ bets[b].status = "VOIDED" /\ Answered(h, "replay")
        \/ bets[b].status # "VOIDED" /\ Goes(h, "looked")
        \/ Answered(h, "refused")
    BY <1>9 DEF VoidLook, Voidable
  <2>. QED BY <1>3, <1>4, <1>6, <1>7, <2>1, <2>2
<1>10. CASE PayLook(h)
  <2>1. handler[h].step = "called" /\ (bets[b].status \in CashedOut <=> Done(bets, op, b))
    BY <1>2, <1>10 DEF PayLook, At, Done
  <2>2. \/ bets[b].status \in CashedOut /\ Answered(h, "replay")
        \/ bets[b].status \notin CashedOut /\ Goes(h, "looked")
        \/ Answered(h, "refused")
    BY <1>10 DEF PayLook, CashedOut, Payable
  <2>. QED BY <1>3, <1>4, <1>6, <1>7, <2>1, <2>2
<1>11. CASE DrawCode(h)
  <2>1. CASE Answered(h, "error")
    BY <1>4, <1>7, <2>1
  <2>2. ASSUME NEW c, heard' = heard,
               handler' = [handler EXCEPT ![h] = [op |-> @.op, bet |-> @.bet, step |-> "coded",
                                                  again |-> @.again, code |-> c]]
        PROVE  AnswersInv'
    <3>. DEFINE call == [op |-> op, bet |-> b, step |-> "coded", again |-> handler[h].again,
                         code |-> c]
    <3>1. handler' = [handler EXCEPT ![h] = call]
      BY <2>2 DEF AnswersInv, DeskTyped
    <3>2. CallFits(call, bets')
      <4>1. ~ handler[h].again
        BY <1>1, <1>11, Serving DEF DrawCode, At, InHand
      <4>. QED BY <1>2, <4>1 DEF CallFits, InHand
    <3>3. /\ heard' = [q \in DOMAIN heard |-> heard'[q]]
          /\ DOMAIN heard' = DOMAIN heard
          /\ \A o \in Operations, x \in BetIds :
               heard'[<<o, x>>] \in Told => heard[<<o, x>>] \in Told
      BY <2>2 DEF AnswersInv, DeskTyped
    <3>. HIDE DEF call
    <3>. QED BY <3>1, <3>2, <3>3, OneGoesOn
  <2>. QED BY <1>11, <2>1, <2>2 DEF DrawCode
<1>12. CASE PlaceCommit(h)
  <2>1. Done(bets', op, b) /\ Answered(h, "fresh")
    BY <1>12 DEF PlaceCommit, At, PlaceBet, Done
  <2>. QED BY <1>5, <2>1
<1>13. CASE VoidCommit(h)
  <2>1. op = "void" /\ bets' = [bets EXCEPT ![b].status = "VOIDED"] /\ Answered(h, "fresh")
    BY <1>13 DEF VoidCommit, At, VoidBet
  <2>2. b \in DOMAIN bets /\ bets[b] \in Ticket
    BY <1>2, <2>1, RowsInHand DEF AnswersInv
  <2>3. b \in DOMAIN bets' /\ bets'[b].status = "VOIDED"
    BY <2>1, <2>2 DEF Ticket
  <2>. QED BY <1>5, <2>1, <2>3 DEF Done
<1>14. CASE PayCommit(h)
  <2>. DEFINE paid == IF bets[b].status = "PENDING_REFUND" THEN "REFUNDED" ELSE "PAID"
  <2>1. op = "pay" /\ bets' = [bets EXCEPT ![b].status = paid] /\ Answered(h, "fresh")
    BY <1>14 DEF PayCommit, At, PayBet
  <2>2. b \in DOMAIN bets /\ bets[b] \in Ticket
    BY <1>2, <2>1, RowsInHand DEF AnswersInv
  <2>3. paid \in CashedOut
    BY DEF CashedOut
  <2>. HIDE DEF paid
  <2>4. b \in DOMAIN bets' /\ bets'[b].status = paid
    BY <2>1, <2>2 DEF Ticket
  <2>. QED BY <1>5, <2>1, <2>3, <2>4 DEF Done
<1>15. CASE Duplicate(h)
  <2>1. Done(bets, op, b) /\ Answered(h, "replay")
    BY <1>15 DEF Duplicate, TwinReported, At, Done
  <2>. QED BY <1>6, <2>1
<1>16. CASE PayAgain(h)
  <2>1. Done(bets, op, b) /\ Answered(h, "replay")
    BY <1>2, <1>16 DEF PayAgain, At, Done
  <2>. QED BY <1>6, <2>1
<1>17. CASE PlaceRefused(h) \/ UniqueConflict(h) \/ VoidRefused(h) \/ PayRefused(h) \/ TimedOut(h)
  <2>1. Answered(h, "refused") \/ Answered(h, "busy")
    BY <1>17 DEF PlaceRefused, UniqueConflict, VoidRefused, PayRefused, TimedOut
  <2>. QED BY <1>4, <1>7, <2>1
<1>. QED BY <1>8, <1>9, <1>10, <1>11, <1>12, <1>13, <1>14, <1>15, <1>16, <1>17
       DEF Looks, Decides, Commits

LEMMA NextAnswers == AnswersInv /\ [DeskNext]_deskVars => AnswersInv'
<1>. SUFFICES ASSUME AnswersInv, [DeskNext]_deskVars PROVE AnswersInv'
  OBVIOUS
<1>1. [NoPurgeNext]_vars
  BY DeskDoesBook
<1>2. TypeOK'
  BY <1>1, NextType DEF AnswersInv, NoPurgeNext, Next
<1>3. CASE UNCHANGED <<handler, heard>>
  <2>1. CallsFit'
    BY <1>1, <1>3, FitStays DEF AnswersInv, CallsFit
  <2>2. HeardTrue'
    BY <1>1, <1>3, DoneStays DEF AnswersInv, HeardTrue
  <2>3. DeskTyped'
    BY <1>3 DEF AnswersInv, DeskTyped
  <2>. QED BY <1>2, <2>1, <2>2, <2>3 DEF AnswersInv
<1>4. CASE UNCHANGED deskVars \/ Meanwhile
  BY <1>3, <1>4 DEF deskVars, Meanwhile
<1>5. CASE DeskNext /\ ~ Meanwhile
  BY <1>1, <1>5, KioskSteps, HandlerSteps DEF DeskNext, Calling
<1>. QED BY <1>4, <1>5

LEMMA InitAnswers == DeskInit => AnswersInv
<1>. SUFFICES ASSUME DeskInit PROVE AnswersInv
  OBVIOUS
<1>1. TypeOK
  BY InitType DEF DeskInit
<1>2. DeskTyped /\ CallsFit
  BY DEF DeskInit, DeskTyped, CallsFit, CallFits
<1>3. HeardTrue
  <2>1. "unasked" \notin Told
    BY DEF Told
  <2>. QED BY <2>1 DEF DeskInit, HeardTrue
<1>. QED BY <1>1, <1>2, <1>3 DEF AnswersInv

(***************************************************************************)
(* What a kiosk was told stays true: a ticket it was told to hand out      *)
(* exists, one it was told is void is void, and one it was told to pay is  *)
(* paid, for any number of calls at once, lost, repeated and overtaken.    *)
(***************************************************************************)
THEOREM AnswersStayTrue == DeskSpec => []AnswersAreTrue
<1>1. AnswersInv => AnswersAreTrue
  <2>. SUFFICES ASSUME AnswersInv, NEW b \in BetIds
                PROVE  /\ heard[<<"place", b>>] \in Told => b \in DOMAIN bets
                       /\ heard[<<"void", b>>] \in Told => bets[b].status = "VOIDED"
                       /\ heard[<<"pay", b>>] \in Told => bets[b].status \in CashedOut
    BY DEF AnswersAreTrue, Told
  <2>1. "place" \in Operations /\ "void" \in Operations /\ "pay" \in Operations
    BY DEF Operations
  <2>. QED BY <2>1 DEF AnswersInv, HeardTrue, Done
<1>. QED BY <1>1, InitAnswers, NextAnswers, PTL DEF DeskSpec

(***************************************************************************)
(* To the tables the desk is a session of Book in which nothing is purged: *)
(* a call that is repeated, replayed, refused or lost leaves no trace.     *)
(***************************************************************************)
THEOREM DeskImplementsBook == DeskSpec => NoPurgeSpec
<1>1. DeskInit => Init
  BY DEF DeskInit
<1>. QED BY <1>1, InitAnswers, NextAnswers, DeskDoesBook, PTL DEF DeskSpec, NoPurgeSpec

(***************************************************************************)
(* So every movement of cash at the desk is in the ledger once and only    *)
(* once, however often the kiosk called; the ledger is the cash in the     *)
(* drawers, no fight pays more than it took, and no result is reverted     *)
(* that somebody was paid for.                                             *)
(***************************************************************************)
THEOREM DeskKeepsPromises ==
  DeskSpec => [](LedgerMatchesTickets /\ LedgerIsCash /\ FightSolvent) /\ RevertOnlyBeforeCash
<1>1. NoPurgeSpec => Spec
  <2>1. [NoPurgeNext]_vars => [Next]_vars
    BY DEF NoPurgeNext, Next
  <2>. QED BY <2>1, PTL DEF NoPurgeSpec, Spec
<1>. QED BY <1>1, DeskImplementsBook, LedgerMatches, LedgerCash, Solvent, RevertsUncashed, PTL

-----------------------------------------------------------------------------
(* Refusals                                                                *)

\* A call is refused by the handler that serves it, for what it finds.
LEMMA Refusing ==
  ASSUME AnswersInv, [DeskNext]_deskVars, NEW h \in Handlers,
         handler[h].step # "answering", handler'[h].step = "answering",
         handler'[h].answer = "refused"
  PROVE  \/ VoidRefused(h) \/ PayRefused(h) \/ PlaceRefused(h) \/ UniqueConflict(h)
         \/ VoidLook(h) /\ bets[handler[h].bet].status # "VOIDED"
         \/ PayLook(h) /\ bets[handler[h].bet].status \notin CashedOut
<1>0. DOMAIN handler = Handlers
  BY DEF AnswersInv, DeskTyped
<1>1. ~ UNCHANGED deskVars /\ ~ Meanwhile
  BY DEF deskVars, Meanwhile
<1>2. ASSUME NEW g \in Handlers, NEW answer, Answered(g, answer) PROVE g = h /\ answer = "refused"
  BY <1>0, <1>2 DEF Answered
<1>3. ASSUME NEW g \in Handlers, handler[g].step # "none", Goes(g, "looked") PROVE FALSE
  <2>1. "step" \in DOMAIN handler[g]
    BY <1>3, Serving
  <2>2. handler' = [handler EXCEPT ![g].step = "looked"]
    BY <1>3 DEF Goes
  <2>. QED BY <1>0, <2>1, <2>2
<1>4. ASSUME NEW g \in Handlers, NEW op \in Operations, NEW b \in BetIds, Call(g, op, b)
      PROVE  FALSE
  <2>1. PICK call : /\ handler' = [handler EXCEPT ![g] = call]
                    /\ call = [op |-> op, bet |-> b, step |-> "called",
                                 again |-> AlreadyDone(op, b)]
    BY <1>4 DEF Call
  <2>2. call.step = "called"
    BY <2>1
  <2>. QED BY <1>0, <2>1, <2>2
<1>5. ASSUME NEW g \in Handlers, Deliver(g) \/ Lose(g) PROVE FALSE
  BY <1>0, <1>5 DEF Deliver, Lose, Free
<1>6. ASSUME NEW g \in Handlers, DrawCode(g) PROVE FALSE
  <2>1. ~ Answered(g, "error")
    BY <1>2
  <2>. QED BY <1>0, <1>6, <2>1 DEF DrawCode
<1>7. ASSUME NEW g \in Handlers,
             TimedOut(g) \/ Commits(g) \/ Duplicate(g) \/ PayAgain(g)
      PROVE  FALSE
  <2>1. Answered(g, "busy") \/ Answered(g, "fresh") \/ Answered(g, "replay")
    BY <1>7 DEF TimedOut, Commits, PlaceCommit, VoidCommit, PayCommit, Duplicate, PayAgain
  <2>. QED BY <1>2, <2>1
<1>8. ASSUME NEW g \in Handlers, Looks(g)
      PROVE  /\ g = h
             /\ \/ VoidLook(h) /\ bets[handler[h].bet].status # "VOIDED"
                \/ PayLook(h) /\ bets[handler[h].bet].status \notin CashedOut
  <2>1. handler[g].step # "none" /\ ~ Goes(g, "looked") /\ ~ Answered(g, "replay")
    BY <1>2, <1>3, <1>8 DEF Looks, PlaceLook, VoidLook, PayLook, At
  <2>2. ~ PlaceLook(g)
    BY <2>1 DEF PlaceLook
  <2>3. /\ VoidLook(g) => Answered(g, "refused") /\ bets[handler[g].bet].status # "VOIDED"
        /\ PayLook(g) => Answered(g, "refused") /\ bets[handler[g].bet].status \notin CashedOut
    BY <2>1 DEF VoidLook, PayLook
  <2>. QED BY <1>2, <1>8, <2>2, <2>3 DEF Looks
<1>9. ASSUME NEW g \in Handlers, VoidRefused(g) \/ PayRefused(g) \/ PlaceRefused(g) \/ UniqueConflict(g)
      PROVE  g = h
  BY <1>2, <1>9 DEF VoidRefused, PayRefused, PlaceRefused, UniqueConflict
<1>. QED BY <1>1, <1>4, <1>5, <1>6, <1>7, <1>8, <1>9 DEF DeskNext, Calling, Decides

(***************************************************************************)
(* No call is refused for a ticket that was paid: not by the first look,   *)
(* which replays it, nor by the second one, under the lock of the ticket,  *)
(* for any number of desks that redeem it at once.                         *)
(***************************************************************************)
THEOREM PaidReplays == DeskSpec => PaidIsReplayed
<1>1. AnswersInv /\ [DeskNext]_deskVars => [RefusedUnpaid]_deskVars
  <2>. SUFFICES ASSUME AnswersInv, [DeskNext]_deskVars, NEW h \in Handlers, Refuses(h, "pay")
                PROVE  bets[handler[h].bet].status \notin CashedOut
    BY DEF RefusedUnpaid
  <2>1. /\ handler[h].op = "pay" /\ handler[h].step # "answering"
        /\ handler'[h].step = "answering" /\ handler'[h].answer = "refused"
    BY DEF Refuses, At
  <2>2. PayRefused(h) \/ (PayLook(h) /\ bets[handler[h].bet].status \notin CashedOut)
    BY <2>1, Refusing DEF VoidLook, VoidRefused, PlaceRefused, UniqueConflict, At
  <2>. QED BY <2>2 DEF PayRefused
<1>. QED BY <1>1, InitAnswers, NextAnswers, PTL DEF DeskSpec, PaidIsReplayed

(***************************************************************************)
(* Who calls again for a ticket that was placed, voided or paid before is  *)
(* told so, whatever became of the fight, for any number of calls at once: *)
(* what was done stays done, and every first look sees it before it sees   *)
(* anything to object to.                                                  *)
(***************************************************************************)
THEOREM DoneReplays == DeskSpec => DoneIsReplayed
<1>1. AnswersInv /\ [DeskNext]_deskVars => [RefusedUndone]_deskVars
  <2>. SUFFICES ASSUME AnswersInv, [DeskNext]_deskVars, NEW h \in Handlers, NEW op \in Operations,
                       Refuses(h, op), handler[h].again
                PROVE  FALSE
    BY DEF RefusedUndone
  <2>1. /\ handler[h].op = op /\ handler[h].step # "answering"
        /\ handler'[h].step = "answering" /\ handler'[h].answer = "refused"
    BY DEF Refuses, At
  <2>2. \/ VoidRefused(h) \/ PayRefused(h) \/ PlaceRefused(h) \/ UniqueConflict(h)
        \/ VoidLook(h) /\ bets[handler[h].bet].status # "VOIDED"
        \/ PayLook(h) /\ bets[handler[h].bet].status \notin CashedOut
    BY <2>1, Refusing
  <2>3. handler[h].step \in InHand /\ handler[h].step # "none"
    BY <2>2 DEF VoidRefused, PayRefused, PlaceRefused, UniqueConflict, VoidLook, PayLook, At, InHand
  <2>4. handler[h].step = "called" /\ Done(bets, handler[h].op, handler[h].bet)
    BY <2>3, Serving
  <2>5. \/ VoidLook(h) /\ bets[handler[h].bet].status # "VOIDED"
        \/ PayLook(h) /\ bets[handler[h].bet].status \notin CashedOut
    BY <2>2, <2>4 DEF VoidRefused, PayRefused, PlaceRefused, UniqueConflict, At
  <2>. QED BY <2>4, <2>5 DEF VoidLook, PayLook, At, Done
<1>. QED BY <1>1, InitAnswers, NextAnswers, PTL DEF DeskSpec, DoneIsReplayed

-----------------------------------------------------------------------------
(* The report by fight: the invariant of Book is strengthened by the       *)
(* result columns, and by that nothing is owed for a voided ticket.        *)

VoidsBlank == \A b \in DOMAIN bets : bets[b].status = "VOIDED" => bets[b].payout = Null

ReportInv == DeclarableInv /\ ResultDeclared /\ VoidsBlank

\* A purge writes no fight.
LEMMA NextDeclares ==
  ASSUME TypeOK, ResultDeclared, [Next]_vars
  PROVE  ResultDeclared'
<1>1. CASE Purging
  BY <1>1 DEF Purging, PurgeBet, ResultDeclared
<1>2. CASE ~ Purging
  <2>1. [NoPurgeNext]_vars
    BY <1>2 DEF NoPurgeNext, Next
  <2>. QED BY <2>1, NextResults
<1>. QED BY <1>1, <1>2

\* No plan makes a ticket void, or touches a void one.
LEMMA PlansKeepBlank ==
  ASSUME NEW bet \in Ticket, NEW o, NEW ratios,
         NEW p \in {SettledTicket(o, ratios, bet), CorrectedTicket(o, ratios, bet),
                    CancelledTicket(bet), UnsettledTicket(bet), bet},
         p.status = "VOIDED"
  PROVE  p = bet
<1>1. bet.status = "VOIDED"
  BY PlansKeepVoids
<1>. QED BY <1>1 DEF SettledTicket, CorrectedTicket, CorrectionSkips, CancelledTicket,
  UnsettledTicket

LEMMA NextBlank ==
  ASSUME TicketInv, VoidsBlank, [Next]_vars
  PROVE  VoidsBlank'
<1>0. TypeOK /\ \A b \in DOMAIN bets : bets[b] \in Ticket /\ bets[b].fight \in DOMAIN fights
  BY RowsInHand DEF TicketInv
<1>1. bets' = bets => VoidsBlank'
  BY DEF VoidsBlank
<1>2. CASE UNCHANGED vars \/ Tuning \/ Lifecycle \/ Holding \/ Cash
  BY <1>1, <1>2 DEF vars, Tuning, Lifecycle, Holding, Cash, UpdateSetting, CreateFight, CloseFight,
    ReopenFight, SetFightLastCall, ResumeFightOpen, MoveFight, ToggleSide, CashAdvance, CashRemit,
    DeleteRemit
<1>3. CASE Betting
  <2>1. ASSUME NEW b, NEW f, NEW t, NEW s, NEW a, PlaceBet(b, f, t, s, a) PROVE VoidsBlank'
    <3>1. NewTicket(f, t, s, a).status # "VOIDED"
      BY DEF NewTicket
    <3>. QED BY <2>1, <3>1 DEF PlaceBet, VoidsBlank
  <2>2. ASSUME NEW b \in DOMAIN bets, VoidBet(b) PROVE VoidsBlank'
    <3>1. bets[b].status = "PENDING" /\ fights[bets[b].fight].status \in LiveStatuses
      BY <2>2 DEF VoidBet, Live, FightsIn
    <3>2. bets[b].payout = Null
      BY <1>0, <3>1 DEF TicketInv, TicketsFollowFight, TicketFitsFight, LiveStatuses
    <3>. QED BY <1>0, <2>2, <3>2 DEF VoidBet, VoidsBlank, Ticket
  <2>. QED BY <1>3, <2>1, <2>2 DEF Betting
<1>4. ASSUME NEW f \in DOMAIN fights,
             \/ \E o \in Outcomes : SettleFight(f, o) \/ CorrectFight(f, o)
             \/ CancelFight(f)
             \/ UnsettleFight(f)
      PROVE  VoidsBlank'
  <2>. DEFINE Planned(o, ratios) ==
         /\ DOMAIN bets' = DOMAIN bets
         /\ \A b \in DOMAIN bets :
              bets'[b] \in {SettledTicket(o, ratios, bets[b]), CorrectedTicket(o, ratios, bets[b]),
                           CancelledTicket(bets[b]), UnsettledTicket(bets[b]), bets[b]}
  <2>1. \E o, ratios : Planned(o, ratios)
    <3>1. ASSUME NEW o, SettleFight(f, o) \/ CorrectFight(f, o)
          PROVE  Planned(o, PayoutRatios(fights[f].pool, fights[f].rate, o))
      BY <3>1 DEF SettleFight, CorrectFight
    <3>2. ASSUME CancelFight(f) \/ UnsettleFight(f) PROVE Planned(None, NoRatios)
      BY <3>2 DEF CancelFight, UnsettleFight
    <3>. HIDE DEF Planned
    <3>. QED BY <1>4, <3>1, <3>2
  <2>2. PICK o, ratios : Planned(o, ratios)
    BY <2>1
  <2>3. ASSUME NEW b \in DOMAIN bets, bets'[b].status = "VOIDED" PROVE bets'[b] = bets[b]
    BY <1>0, <2>3, <2>2, PlansKeepBlank
  <2>. QED BY <2>3, <2>2 DEF VoidsBlank
<1>5. CASE Paying
  <2>1. PICK b \in DOMAIN bets : PayBet(b)
    BY <1>5 DEF Paying
  <2>2. bets'[b].status # "VOIDED"
    BY <1>0, <2>1 DEF PayBet, Ticket
  <2>3. DOMAIN bets' = DOMAIN bets /\ \A x \in DOMAIN bets \ {b} : bets'[x] = bets[x]
    BY <2>1 DEF PayBet
  <2>. QED BY <2>2, <2>3 DEF VoidsBlank
<1>6. CASE Purging
  BY <1>6 DEF Purging, PurgeBet, VoidsBlank, Restrict
<1>. QED BY <1>2, <1>3, <1>4, <1>5, <1>6 DEF Next, Declaring, Correcting, Reverting

\* A ticket of a fight declared once that is or was owed something.
LEMMA OwedFits ==
  ASSUME ReportInv, NEW f \in DOMAIN fights, Declared(f),
         NEW b \in TicketsOf(f), bets[b].payout # Null
  PROVE  /\ b \in StakedOn(f, bets[b].side) /\ bets[b].side \in Sides
         /\ fights[f].outcome \in Sides =>
              /\ bets[b].side = fights[f].outcome
              /\ bets[b].payout = Payout(bets[b].amount, fights[f].ratios[fights[f].outcome])
         /\ fights[f].outcome \notin Sides => bets[b].payout = bets[b].amount
<1>1. /\ b \in DOMAIN bets /\ bets[b] \in Ticket /\ bets[b].fight = f
      /\ TicketFitsFight(bets[b], fights[f])
  BY RowsInHand DEF ReportInv, DeclarableInv, TicketInv, TicketsFollowFight, TicketsOf
<1>2. fights[f].status = "SETTLED" /\ fights[f].outcome \in Outcomes /\ fights[f].prevOutcome = None
  BY DEF Declared, Settled, ReportInv, DeclarableInv, TicketInv, SettledHasOutcome
<1>3. bets[b].status # "VOIDED"
  BY <1>1 DEF ReportInv, VoidsBlank
<1>4. b \in StakedOn(f, bets[b].side) /\ bets[b].side \in Sides
  BY <1>1, <1>3 DEF StakedOn, TicketsOf, Ticket
<1>5. \/ bets[b].payout = TargetPayout(fights[f].outcome, fights[f].ratios, bets[b])
      \/ bets[b].payout = bets[b].amount /\ fights[f].outcome = "DRAW"
  BY <1>1, <1>2, <1>3 DEF TicketFitsFight, LiveStatuses
<1>6. "DRAW" \notin Sides
  BY DEF Sides
<1>. QED BY <1>2, <1>4, <1>5, <1>6 DEF TargetPayout, Outcomes

\* What a fight owes, and how it compares with what it took.
LEMMA OwedBounded ==
  ASSUME ReportInv, NEW f \in DOMAIN fights, Declared(f)
  PROVE  /\ Owed(f) \in Int
         /\ fights[f].outcome \in Sides =>
              20000 * Owed(f) <= PoolDistributable(fights[f].pool, fights[f].rate)
                                 + 10000 * Cardinality(TicketsOf(f))
         /\ fights[f].outcome \notin Sides => Owed(f) <= Handle(fights[f].pool)
<1>. DEFINE C == {b \in TicketsOf(f) : bets[b].payout # Null}
            o == fights[f].outcome
<1>0. /\ DeclarableInv /\ ResultDeclared /\ TicketsTyped
      /\ Owed(f) = SumFunctionOnSet(Payouts, C)
      /\ fights[f].status = "SETTLED"
  BY DEF ReportInv, DeclarableInv, TicketInv, TypeOK, Owed, Payouts, Declared, Settled
<1>1. /\ C \subseteq DOMAIN bets /\ IsFiniteSet(C)
      /\ \A b \in C : Payouts[b] = bets[b].payout /\ Payouts[b] \in Int
  <2>1. C \subseteq DOMAIN bets
    BY DEF TicketsOf
  <2>. QED BY <1>0, <2>1, FS_Subset DEF Payouts, TicketsTyped, Ticket, Money
<1>2. Owed(f) \in Int
  BY <1>0, <1>1, SumInt
<1>3. CASE o \in Sides
  <2>1. /\ C \in SUBSET StakedOn(f, o)
        /\ \A b \in C : bets[b].payout = Payout(bets[b].amount, fights[f].ratios[o])
    BY <1>3, OwedFits
  <2>. HIDE DEF C
  <2>. QED BY <1>0, <1>2, <1>3, <2>1, SharedOut
<1>4. CASE o \notin Sides
  <2>1. /\ C \in SUBSET (StakedOn(f, "MERON") \cup StakedOn(f, "WALA"))
        /\ \A b \in C : bets[b].payout = bets[b].amount
    BY <1>4, OwedFits DEF Sides
  <2>2. \A b \in C : Payouts[b] = Amounts[b]
    BY <1>0, <1>1, <2>1, StakedFinite
  <2>. HIDE DEF C
  <2>3. SumFunctionOnSet(Payouts, C) = SumFunctionOnSet(Amounts, C)
    BY <1>1, <2>2, SumSame
  <2>. QED BY <1>0, <1>2, <1>4, <2>1, <2>3, StakesWithinHandle
<1>. QED BY <1>3, <1>4

\* The report says what the running pools say, if nothing was purged.
LEMMA HandleReported ==
  ASSUME ReportInv, NEW f \in DOMAIN fights, Unpurged(f)
  PROVE  GrossHandle(f) = Handle(fights[f].pool)
<1>1. "MERON" \in Sides /\ "WALA" \in Sides
  BY DEF Sides
<1>2. \A s \in Sides : fights[f].pool[s] = StakesOn(f, s) /\ StakesOn(f, s) \in Int
  <2>1. TicketsTyped /\ PoolsMatchStakes
    BY DEF ReportInv, DeclarableInv, PoolInv, TypeOK
  <2>2. \A s \in Sides : StakesOn(f, s) \in Int
    BY <2>1, StakesInt
  <2>3. ASSUME NEW s \in Sides PROVE fights[f].pool[s] = StakesOn(f, s)
    <3>. DEFINE stakes == StakesOn(f, s)
    <3>1. fights[f].pool[s] = stakes + purged[f][s] /\ purged[f][s] = 0 /\ stakes \in Int
      BY <2>1, <2>2 DEF PoolsMatchStakes, Unpurged
    <3>. HIDE DEF stakes
    <3>2. fights[f].pool[s] = stakes
      BY <3>1
    <3>. QED BY <3>2 DEF stakes
  <2>. QED BY <2>2, <2>3
<1>. QED BY <1>1, <1>2 DEF GrossHandle, Handle

LEMMA InvWithheld == ReportInv => HalfIsWithheld
<1>. SUFFICES ASSUME ReportInv, NEW f \in DOMAIN fights, Declared(f), Unpurged(f)
              PROVE  2 * 10000 * (GrossHandle(f) - Owed(f)) + 10000 * Cardinality(TicketsOf(f))
                       >= FightCommission(f)
  BY DEF HalfIsWithheld
<1>. DEFINE H == Handle(fights[f].pool)
            W == Owed(f)
            n == Cardinality(TicketsOf(f))
            rate == fights[f].rate
<1>1. DeclarableInv /\ H \in Int /\ n \in Nat /\ W \in Int
  BY ToDistribute, OwedBounded DEF ReportInv
<1>2. rate \in Int
  <2>1. rate \in 0 .. MaxRate
    BY RowsInHand DEF ReportInv, DeclarableInv, TicketInv, Fight
  <2>. QED BY <2>1
<1>3. GrossHandle(f) = H
  BY HandleReported
<1>4. /\ fights[f].outcome \in Sides => FightCommission(f) = H * rate
      /\ fights[f].outcome \notin Sides => FightCommission(f) = 0
  BY <1>3 DEF FightCommission, Declared, Settled
<1>5. CASE fights[f].outcome \in Sides
  <2>. DEFINE taken == H * rate
  <2>1. taken \in Int /\ H * (20000 - rate) = 20000 * H - taken
    BY <1>1, <1>2
  <2>2. 20000 * W <= H * (20000 - rate) + 10000 * n
    BY <1>5, OwedBounded DEF PoolDistributable
  <2>. HIDE DEF H, W, n, rate, taken
  <2>3. 2 * 10000 * (H - W) + 10000 * n >= taken
    BY <1>1, <2>1, <2>2
  <2>. QED BY <1>3, <1>4, <1>5, <2>3 DEF taken, W, n
<1>6. CASE fights[f].outcome \notin Sides
  <2>1. W <= H
    BY <1>6, OwedBounded
  <2>. HIDE DEF H, W, n
  <2>2. 2 * 10000 * (H - W) + 10000 * n >= 0
    BY <1>1, <2>1
  <2>. QED BY <1>3, <1>4, <1>6, <2>2 DEF W, n
<1>. QED BY <1>5, <1>6

LEMMA InitReport == Init => ReportInv
<1>1. Init => ResultDeclared /\ VoidsBlank
  BY DEF Init, ResultDeclared, VoidsBlank
<1>. QED BY <1>1, InitDeclarable DEF ReportInv

LEMMA NextReport == ReportInv /\ [Next]_vars => ReportInv'
<1>1. ReportInv => TypeOK /\ TicketInv
  BY DEF ReportInv, DeclarableInv, TicketInv
<1>. QED BY <1>1, NextDeclarable, NextDeclares, NextBlank DEF ReportInv

(***************************************************************************)
(* Half the commission the fight report shows for a declared fight is      *)
(* covered by the stakes that are not owed to anyone, for any number of    *)
(* tickets, any stakes and rates, also while other fights are corrected,   *)
(* reverted and purged.                                                    *)
(***************************************************************************)
THEOREM CommissionHalfCovered == Spec => []HalfIsWithheld
BY InitReport, NextReport, InvWithheld, PTL DEF Spec

-----------------------------------------------------------------------------
(* Lists                                                                   *)

IsList(s) == s \in Seq({s[i] : i \in DOMAIN s})

LEMMA Listed ==
  ASSUME NEW s
  PROVE  /\ IsList(s) => Len(s) \in Nat /\ DOMAIN s = 1 .. Len(s)
         /\ \A S : s \in Seq(S) => IsList(s)
<1>1. IsList(s) => Len(s) \in Nat /\ DOMAIN s = 1 .. Len(s)
  BY DEF IsList
<1>2. ASSUME NEW S, s \in Seq(S) PROVE IsList(s)
  <2>. DEFINE R == {s[i] : i \in DOMAIN s}
  <2>1. Len(s) \in Nat /\ DOMAIN s = 1 .. Len(s) /\ s = [i \in 1 .. Len(s) |-> s[i]]
    BY <1>2
  <2>2. \A i \in 1 .. Len(s) : s[i] \in R
    BY <2>1
  <2>3. s \in [1 .. Len(s) -> R]
    <3>. HIDE DEF R
    <3>. QED BY <2>1, <2>2
  <2>4. s \in Seq(R)
    <3>. HIDE DEF R
    <3>. QED BY <2>1, <2>3
  <2>. QED BY <2>4 DEF IsList
<1>. QED BY <1>1, <1>2

LEMMA ListAppend ==
  ASSUME NEW s, IsList(s), NEW e
  PROVE  /\ IsList(Append(s, e)) /\ Len(Append(s, e)) = Len(s) + 1
         /\ DOMAIN Append(s, e) = 1 .. Len(s) + 1
         /\ \A i \in 1 .. Len(s) : Append(s, e)[i] = s[i]
         /\ Append(s, e)[Len(s) + 1] = e
<1>. DEFINE S == {s[i] : i \in DOMAIN s} \cup {e}
<1>1. s \in Seq(S) /\ e \in S
  <2>1. /\ Len(s) \in Nat /\ DOMAIN s = 1 .. Len(s) /\ s = [i \in 1 .. Len(s) |-> s[i]]
    BY DEF IsList
  <2>2. \A i \in 1 .. Len(s) : s[i] \in S
    BY <2>1
  <2>3. e \in S
    OBVIOUS
  <2>. HIDE DEF S
  <2>. QED BY <2>1, <2>2, <2>3
<1>. HIDE DEF S
<1>2. /\ Append(s, e) \in Seq(S) /\ Len(Append(s, e)) = Len(s) + 1
      /\ \A i \in 1 .. Len(s) : Append(s, e)[i] = s[i]
      /\ Append(s, e)[Len(s) + 1] = e
  BY <1>1, AppendProperties
<1>3. IsList(Append(s, e)) /\ DOMAIN Append(s, e) = 1 .. Len(s) + 1
  BY <1>2, Listed
<1>. QED BY <1>2, <1>3

LEMMA ListRemove ==
  ASSUME NEW s, IsList(s), NEW k \in DOMAIN s
  PROVE  /\ IsList(RemoveAt(s, k)) /\ Len(RemoveAt(s, k)) = Len(s) - 1
         /\ \A i \in 1 .. Len(s) - 1 : RemoveAt(s, k)[i] = IF i < k THEN s[i] ELSE s[i + 1]
<1>. DEFINE S == {s[i] : i \in DOMAIN s}
            a == SubSeq(s, 1, k - 1)
            b == SubSeq(s, k + 1, Len(s))
<1>1. s \in Seq(S)
  BY DEF IsList
<1>. HIDE DEF S
<1>2. Len(s) \in Nat /\ k \in 1 .. Len(s)
  BY Listed
<1>3. a \in Seq(S) /\ Len(a) = k - 1 /\ \A i \in 1 .. k - 1 : a[i] = s[i]
  <2>1. \A i \in 1 .. k - 1 : s[i] \in S
    BY <1>1, <1>2
  <2>. QED BY <1>2, <2>1, SubSeqProperties
<1>4. b \in Seq(S) /\ Len(b) = Len(s) - k /\ \A i \in 1 .. Len(s) - k : b[i] = s[k + i]
  <2>. DEFINE m == k + 1  n == Len(s)
  <2>1. m \in Int /\ n \in Int /\ \A i \in m .. n : s[i] \in S
    BY <1>1, <1>2
  <2>. HIDE DEF m, n
  <2>2. /\ SubSeq(s, m, n) \in Seq(S)
        /\ Len(SubSeq(s, m, n)) = IF m <= n THEN n - m + 1 ELSE 0
        /\ \A i \in 1 .. n - m + 1 : SubSeq(s, m, n)[i] = s[m + i - 1]
    BY <2>1, SubSeqProperties
  <2>3. m = k + 1 /\ n = Len(s) /\ b = SubSeq(s, m, n)
    BY DEF m, n
  <2>4. Len(b) = Len(s) - k /\ n - m + 1 = Len(s) - k
    BY <1>2, <2>2, <2>3
  <2>. HIDE DEF b
  <2>5. ASSUME NEW i \in 1 .. Len(s) - k PROVE b[i] = s[k + i]
    <3>1. b[i] = s[m + i - 1]
      BY <2>2, <2>3, <2>4
    <3>2. m + i - 1 = k + i
      BY <1>2, <2>3
    <3>. QED BY <3>1, <3>2
  <2>6. b \in Seq(S)
    BY <2>2, <2>3, Zenon
  <2>7. Len(b) = Len(s) - k
    BY <2>4, Zenon
  <2>. QED BY <2>5, <2>6, <2>7 DEF b
<1>. HIDE DEF a, b
<1>5. /\ a \o b \in Seq(S) /\ Len(a \o b) = Len(s) - 1
      /\ \A i \in 1 .. Len(s) - 1 : (a \o b)[i] = IF i <= Len(a) THEN a[i] ELSE b[i - Len(a)]
  <2>1. /\ a \o b \in Seq(S) /\ Len(a \o b) = Len(a) + Len(b)
        /\ \A i \in 1 .. Len(a) + Len(b) :
             (a \o b)[i] = IF i <= Len(a) THEN a[i] ELSE b[i - Len(a)]
    BY <1>3, <1>4, ConcatProperties
  <2>2. Len(a) + Len(b) = Len(s) - 1
    BY <1>2, <1>3, <1>4
  <2>. QED BY <2>1, <2>2
<1>6. ASSUME NEW i \in 1 .. Len(s) - 1 PROVE (a \o b)[i] = IF i < k THEN s[i] ELSE s[i + 1]
  <2>1. CASE i < k
    BY <1>2, <1>3, <1>5, <2>1
  <2>2. CASE ~(i < k)
    <3>0. i - (k - 1) \in 1 .. Len(s) - k /\ ~(i <= k - 1)
      BY <1>2, <2>2
    <3>1. (a \o b)[i] = b[i - (k - 1)]
      BY <1>3, <1>5, <3>0
    <3>2. k + (i - (k - 1)) = i + 1
      BY <1>2
    <3>. QED BY <1>4, <2>2, <1>2, <3>0, <3>1, <3>2
  <2>. QED BY <2>1, <2>2
<1>7. RemoveAt(s, k) = a \o b
  BY DEF RemoveAt, a, b
<1>. QED BY <1>5, <1>6, <1>7, Listed

LEMMA ListConcat ==
  ASSUME NEW s, NEW r, IsList(s), IsList(r)
  PROVE  /\ IsList(s \o r) /\ Len(s \o r) = Len(s) + Len(r)
         /\ \A i \in 1 .. Len(s) : (s \o r)[i] = s[i]
         /\ \A i \in 1 .. Len(r) : (s \o r)[Len(s) + i] = r[i]
<1>. DEFINE S == {s[i] : i \in DOMAIN s}  R == {r[i] : i \in DOMAIN r}  T == S \cup R
<1>1. s \in Seq(S) /\ r \in Seq(R)
  BY DEF IsList
<1>2. s \in Seq(T) /\ r \in Seq(T)
  <2>. S \subseteq T /\ R \subseteq T
    OBVIOUS
  <2>. HIDE DEF S, R, T
  <2>. QED BY <1>1, SeqMonotonic
<1>. HIDE DEF S, R, T
<1>3. /\ s \o r \in Seq(T) /\ Len(s \o r) = Len(s) + Len(r) /\ Len(s) \in Nat /\ Len(r) \in Nat
      /\ \A i \in 1 .. Len(s) + Len(r) :
           (s \o r)[i] = IF i <= Len(s) THEN s[i] ELSE r[i - Len(s)]
  BY <1>2, ConcatProperties
<1>4. ASSUME NEW i \in 1 .. Len(r) PROVE (s \o r)[Len(s) + i] = r[i]
  <2>1. /\ Len(s) + i \in 1 .. Len(s) + Len(r) /\ (Len(s) + i) - Len(s) = i
        /\ ~(Len(s) + i <= Len(s))
    BY <1>3
  <2>. QED BY <1>3, <2>1
<1>5. IsList(s \o r)
  BY <1>3, Listed
<1>6. \A i \in 1 .. Len(s) : (s \o r)[i] = s[i]
  BY <1>3
<1>. QED BY <1>3, <1>4, <1>5, <1>6

\* A list of every element of a finite set.
LEMMA ListOfSet ==
  ASSUME NEW S, IsFiniteSet(S)
  PROVE  /\ IsList(SetToSeq(S))
         /\ \A i \in DOMAIN SetToSeq(S) : SetToSeq(S)[i] \in S
         /\ \A x \in S : \E i \in DOMAIN SetToSeq(S) : SetToSeq(S)[i] = x
<1>. DEFINE n == Cardinality(S)  q == SetToSeq(S)
<1>1. n \in Nat /\ ExistsBijection(1 .. n, S)
  BY FS_CardinalityType
<1>2. \E g \in [1 .. n -> S] : IsInjective(g)
  BY <1>1 DEF ExistsBijection, Bijection, Injection
<1>3. q \in [1 .. n -> S] /\ IsInjective(q)
  BY <1>2 DEF SetToSeq
<1>. HIDE DEF q
<1>4. IsList(q)
  <2>. HIDE DEF n
  <2>1. q \in Seq(S)
    BY <1>1, <1>3
  <2>. QED BY <2>1, Listed
<1>. DEFINE R == {q[i] : i \in 1 .. n}
<1>5. R \subseteq S /\ q \in Surjection(1 .. n, R) /\ q \in Injection(1 .. n, R)
  BY <1>3 DEF Surjection, Injection
<1>6. IsFiniteSet(1 .. n) /\ Cardinality(1 .. n) = n
  <2>. HIDE DEF n
  <2>1. 1 \in Int /\ n \in Int
    BY <1>1
  <2>2. IsFiniteSet(1 .. n) /\ Cardinality(1 .. n) = IF 1 > n THEN 0 ELSE n - 1 + 1
    BY <2>1, FS_Interval
  <2>. QED BY <1>1, <2>2
<1>. HIDE DEF R
<1>7. Cardinality(R) = n
  BY <1>5, <1>6, FS_Surjection
<1>8. R = S
  BY <1>5, <1>7, FS_Subset
<1>9. \A x \in S : \E i \in DOMAIN q : q[i] = x
  BY <1>3, <1>8 DEF R
<1>. QED BY <1>3, <1>4, <1>9 DEF q

-----------------------------------------------------------------------------
(* What the tellers brought in                                             *)

\* The tickets of a teller that count for the leaderboard.
CountedOf(f, t) == {b \in TicketsOf(f) : bets[b].teller = t /\ bets[b].status \in Counted}

CountedIn(rows) == {b \in DOMAIN rows : rows[b].status \in Counted}

\* A step that leaves the leaderboard as it is: the same tickets count, and
\* what is new has none.
NothingEarned ==
  /\ CountedIn(bets') = CountedIn(bets)
  /\ \A b \in CountedIn(bets) : SameBet(bets'[b], bets[b])
  /\ DOMAIN fights \subseteq DOMAIN fights'
  /\ \A f \in DOMAIN fights : fights'[f].rate = fights[f].rate

LEMMA StakesEarned ==
  ASSUME TypeOK, NEW f, NEW t
  PROVE  /\ IsFiniteSet(CountedOf(f, t)) /\ CountedOf(f, t) \subseteq DOMAIN bets
         /\ TellerStake(f, t) \in Int
         /\ f \notin DOMAIN fights => TellerStake(f, t) = 0
<1>. DEFINE F == [b \in DOMAIN bets |-> bets[b].amount]
<1>1. CountedOf(f, t) \subseteq DOMAIN bets
  BY DEF CountedOf, TicketsOf
<1>2. IsFiniteSet(CountedOf(f, t))
  BY <1>1, FS_Subset DEF TypeOK, TicketsTyped
<1>3. \A b \in CountedOf(f, t) : F[b] \in Int
  BY <1>1 DEF TypeOK, TicketsTyped, Ticket, Money
<1>4. TellerStake(f, t) = SumFunctionOnSet(F, CountedOf(f, t))
  BY DEF TellerStake, CountedOf
<1>5. f \notin DOMAIN fights => CountedOf(f, t) = {}
  BY DEF CountedOf, TicketsOf, TypeOK, TicketsTyped
<1>. HIDE DEF F
<1>. QED BY <1>1, <1>2, <1>3, <1>4, <1>5, SumInt, SumEmpty

LEMMA StakesUnearned ==
  ASSUME TypeOK, NothingEarned, NEW f, NEW t
  PROVE  TellerStake(f, t)' = TellerStake(f, t)
<1>. DEFINE F == [b \in DOMAIN bets |-> bets[b].amount]
            H == [b \in DOMAIN bets' |-> bets'[b].amount]
            S == CountedOf(f, t)
            T == {b \in DOMAIN bets' : bets'[b].fight = f /\ bets'[b].teller = t
                                                         /\ bets'[b].status \in Counted}
<1>1. T = S
  BY DEF NothingEarned, CountedIn, SameBet, CountedOf, TicketsOf
<1>2. \A b \in S : H[b] = F[b]
  BY DEF NothingEarned, CountedIn, SameBet, CountedOf, TicketsOf
<1>3. TellerStake(f, t) = SumFunctionOnSet(F, S)
  BY DEF TellerStake, CountedOf
<1>4. TellerStake(f, t)' = SumFunctionOnSet(H, T)
  <2>1. T = {b \in {x \in DOMAIN bets' : bets'[x].fight = f} :
               bets'[b].teller = t /\ bets'[b].status \in Counted}
    OBVIOUS
  <2>. QED BY <2>1 DEF TellerStake, TicketsOf
<1>5. IsFiniteSet(S)
  BY StakesEarned
<1>. HIDE DEF F, H, S, T
<1>6. SumFunctionOnSet(H, S) = SumFunctionOnSet(F, S)
  BY <1>2, <1>5, SumSame
<1>. QED BY <1>1, <1>3, <1>4, <1>6

LEMMA LeaderboardKept ==
  ASSUME TypeOK, TypeOK', NothingEarned
  PROVE  Leaderboard' = Leaderboard
<1>1. ASSUME NEW t \in Tellers PROVE Leaderboard'[t] = Leaderboard[t]
  <2>. DEFINE F == [f \in DOMAIN fights |-> TellerCommission(f, t)]
              H == [f \in DOMAIN fights' |-> TellerStake(f, t)' * fights'[f].rate]
              S == DOMAIN fights
              D == DOMAIN fights'
  <2>1. Leaderboard[t] = SumFunctionOnSet(F, S)
    BY DEF Leaderboard
  <2>2. Leaderboard'[t] = SumFunctionOnSet(H, D)
    BY DEF Leaderboard, TellerCommission
  <2>3. \A f \in S : fights[f].rate \in Int /\ fights'[f].rate = fights[f].rate /\ f \in D
    BY RowsInHand DEF NothingEarned, Fight
  <2>4. \A f \in S : H[f] = F[f] /\ F[f] \in Int
    <3>1. \A f \in S : F[f] = TellerStake(f, t) * fights[f].rate
      BY DEF TellerCommission
    <3>2. \A f \in S : H[f] = TellerStake(f, t)' * fights'[f].rate
      BY <2>3
    <3>3. \A f : TellerStake(f, t)' = TellerStake(f, t) /\ TellerStake(f, t) \in Int
      BY StakesEarned, StakesUnearned
    <3>. HIDE DEF F, H, S
    <3>. QED BY <2>3, <3>1, <3>2, <3>3
  <2>5. \A f \in D \ S : H[f] = 0
    <3>1. ASSUME NEW f \in D \ S PROVE H[f] = 0
      <4>1. TellerStake(f, t)' = 0
        BY StakesEarned, StakesUnearned
      <4>2. fights'[f].rate \in Int
        BY DEF TypeOK, FightsTyped, Fight
      <4>. QED BY <4>1, <4>2
    <3>. QED BY <3>1
  <2>6. IsFiniteSet(D) /\ IsFiniteSet(S) /\ S \in SUBSET D
    <3>1. IsFiniteSet(1 .. MaxFights)
      BY ConstantTypes, FS_Interval
    <3>2. D \subseteq 1 .. MaxFights /\ S \subseteq D
      BY DEF TypeOK, FightsTyped, NothingEarned
    <3>. QED BY <3>1, <3>2, FS_Subset
  <2>. HIDE DEF F, H, S, D
  <2>7. \A f \in D : H[f] \in Int
    BY <2>4, <2>5
  <2>8. SumFunctionOnSet(H, D) = SumFunctionOnSet(H, S)
    BY <2>5, <2>6, <2>7, SumWithoutZeros
  <2>9. SumFunctionOnSet(H, S) = SumFunctionOnSet(F, S)
    BY <2>4, <2>6, SumSame
  <2>. QED BY <2>1, <2>2, <2>8, <2>9
<1>2. /\ Leaderboard = [t \in Tellers |-> Leaderboard[t]]
      /\ Leaderboard' = [t \in Tellers |-> Leaderboard'[t]]
  BY DEF Leaderboard
<1>. QED BY <1>1, <1>2

-----------------------------------------------------------------------------
(* What a request broadcasts                                               *)

TellsTill(frames, t) ==
  \E j \in DOMAIN frames : frames[j].about = "till" /\ frames[j].teller = t

\* The frames of a step tell nothing but the truth about the fights ...
FightNews(frames) ==
  /\ DOMAIN fights \subseteq DOMAIN fights'
  /\ \A j \in DOMAIN frames : frames[j].about = "fight" =>
       /\ frames[j].fight \in DOMAIN fights'
       /\ \A c \in DOMAIN frames[j].row :
            frames[j].row[c] = Projection(fights'[frames[j].fight])[c]
  /\ \A f \in DOMAIN fights', c \in Columns :
       \/ Telling(frames, f, c) # {}
       \/ f \in DOMAIN fights /\ Projection(fights'[f])[c] = Projection(fights[f])[c]

\* ... and the drawers, and all that the step changed.
TillNews(frames) ==
  /\ \A j \in DOMAIN frames :
       frames[j].about = "till" /\ frames[j].known =>
         frames[j].balance = BalanceIn(ledger', frames[j].teller)
  /\ \A t \in Tellers : TellsTill(frames, t) \/ BalanceIn(ledger', t) = Balance(t)

BoardNews(frames) == Carries(frames, "board") \/ Leaderboard' = Leaderboard

News(frames) == FightNews(frames) /\ TillNews(frames) /\ BoardNews(frames)

LEMMA ProjectionAre ==
  ASSUME NEW x
  PROVE  /\ DOMAIN Projection(x) = Columns
         /\ Projection(x)["status"] = x.status
         /\ Projection(x)["pool"] = x.pool
         /\ Projection(x)["accepting"] = x.accepting
         /\ Projection(x) = [c \in Columns |-> Projection(x)[c]]
BY DEF Projection, Columns

LEMMA OneFrame ==
  ASSUME NEW a PROVE IsList(<<a>>) /\ DOMAIN <<a>> = {1} /\ <<a>>[1] = a
<1>1. <<a>> \in Seq({a})
  OBVIOUS
<1>2. IsList(<<a>>)
  BY <1>1, Listed
<1>. QED BY <1>2

LEMMA TwoFrames ==
  ASSUME NEW a, NEW b
  PROVE  IsList(<<a, b>>) /\ DOMAIN <<a, b>> = {1, 2} /\ <<a, b>>[1] = a /\ <<a, b>>[2] = b
<1>1. <<a, b>> \in Seq({a, b})
  OBVIOUS
<1>2. IsList(<<a, b>>)
  BY <1>1, Listed
<1>. QED BY <1>2

\* One fight changed, and one frame is about it.
LEMMA OneFightNews ==
  ASSUME NEW f \in DOMAIN fights', DOMAIN fights \subseteq DOMAIN fights',
         DOMAIN fights' \subseteq DOMAIN fights \cup {f},
         \A g \in DOMAIN fights \ {f} : fights'[g] = fights[g],
         NEW frames, NEW j \in DOMAIN frames,
         frames[j].about = "fight", frames[j].fight = f,
         \A k \in DOMAIN frames \ {j} : frames[k].about # "fight",
         \A c \in DOMAIN frames[j].row : frames[j].row[c] = Projection(fights'[f])[c],
         \A c \in Columns :
           \/ c \in DOMAIN frames[j].row
           \/ f \in DOMAIN fights /\ Projection(fights'[f])[c] = Projection(fights[f])[c]
  PROVE  FightNews(frames)
<1>1. ASSUME NEW g \in DOMAIN fights', NEW c \in Columns
      PROVE  \/ Telling(frames, g, c) # {}
             \/ g \in DOMAIN fights /\ Projection(fights'[g])[c] = Projection(fights[g])[c]
  <2>1. CASE g = f
    <3>1. c \in DOMAIN frames[j].row => j \in Telling(frames, g, c)
      BY <2>1 DEF Telling
    <3>. QED BY <2>1, <3>1
  <2>2. CASE g # f
    BY <2>2
  <2>. QED BY <2>1, <2>2
<1>. QED BY <1>1 DEF FightNews

LEMMA NoFightNews ==
  ASSUME fights' = fights, NEW frames, \A k \in DOMAIN frames : frames[k].about # "fight"
  PROVE  FightNews(frames)
BY DEF FightNews

\* No row of the ledger changed, or one was posted for a teller who is told of.
LEMMA NoTillNews ==
  ASSUME \A t \in Tellers : BalanceIn(ledger', t) = Balance(t), NEW frames,
         \A j \in DOMAIN frames : frames[j].about = "till" => ~frames[j].known
  PROVE  TillNews(frames)
BY DEF TillNews

LEMMA PostedTillNews ==
  ASSUME TypeOK, NEW row, row.amount \in Int, ledger' = Posted({row}),
         NEW frames, TellsTill(frames, row.teller),
         \A j \in DOMAIN frames :
           frames[j].about = "till" /\ frames[j].known =>
             frames[j].balance = BalanceIn(ledger', frames[j].teller)
  PROVE  TillNews(frames)
<1>1. IsBook(ledger)
  BY DEF TypeOK, RowsTyped, IsBook, Row
<1>2. ASSUME NEW t \in Tellers, row.teller # t PROVE BalanceIn(ledger', t) = Balance(t)
  <2>1. BalanceIn(ledger', t) = BalanceIn(ledger, t) + 0
    BY <1>1, <1>2, BalancePosted DEF Posted
  <2>. QED BY <1>1, <2>1, BalanceInt DEF Balance
<1>. QED BY <1>2 DEF TillNews

\* A deleted remit moves no balance.
LEMMA RewrittenBalance ==
  ASSUME TypeOK, NEW r \in DOMAIN ledger, DeleteRemit(r), NEW u
  PROVE  BalanceIn(ledger', u) = Balance(u)
<1>. DEFINE rest == ledger (-) SetToBag({r})
            row == LedgerRow(r.teller, "ADJUSTMENT", r.amount, NoBet)
<1>1. IsBook(ledger) /\ r.amount \in Int
  BY DEF TypeOK, RowsTyped, IsBook, Row
<1>2. row.teller = r.teller /\ row.amount = r.amount
  BY DEF LedgerRow
<1>3. ledger' = rest (+) SetToBag({row})
  BY DEF DeleteRemit
<1>4. /\ IsBook(rest) /\ BalanceIn(ledger, u) \in Int
      /\ BalanceIn(rest, u) = BalanceIn(ledger, u) - (IF r.teller = u THEN r.amount ELSE 0)
  BY <1>1, BalanceTaken
<1>. HIDE DEF rest, row
<1>5. BalanceIn(ledger', u) = BalanceIn(rest, u) + (IF r.teller = u THEN r.amount ELSE 0)
  BY <1>1, <1>2, <1>3, <1>4, BalancePosted
<1>. QED BY <1>1, <1>4, <1>5 DEF Balance

-----------------------------------------------------------------------------
(* The routes of fights                                                    *)

\* A fight's row changes and no ticket does.
LEMMA FightAlone ==
  ASSUME TypeOK, TypeOK', NEW f \in DOMAIN fights',
         DOMAIN fights \subseteq DOMAIN fights', DOMAIN fights' \subseteq DOMAIN fights \cup {f},
         \A g \in DOMAIN fights \ {f} : fights'[g] = fights[g],
         f \in DOMAIN fights => fights'[f].rate = fights[f].rate,
         bets' = bets, ledger' = ledger
  PROVE  News(<<FightFrame(f)>>)
<1>. DEFINE frames == <<FightFrame(f)>>
<1>1. DOMAIN frames = {1} /\ frames[1] = FightFrame(f)
  BY OneFrame
<1>. HIDE DEF frames
<1>2. FightFrame(f).about = "fight" /\ FightFrame(f).fight = f
      /\ FightFrame(f).row = Projection(fights'[f])
  BY DEF FightFrame
<1>3. FightNews(frames)
  BY <1>1, <1>2, OneFightNews, ProjectionAre
<1>4. TillNews(frames)
  BY <1>1, <1>2, NoTillNews DEF Balance
<1>5. Leaderboard' = Leaderboard
  <2>1. NothingEarned
    BY DEF NothingEarned, CountedIn, SameBet
  <2>. QED BY <2>1, LeaderboardKept
<1>. QED BY <1>3, <1>4, <1>5 DEF News, BoardNews, frames

LEMMA CreateNews ==
  ASSUME TypeOK, TypeOK', CreateFight, NEW f \in DOMAIN fights' \ DOMAIN fights
  PROVE  News(<<FightFrame(f)>>)
<1>1. bets' = bets /\ ledger' = ledger
  BY DEF CreateFight
<1>2. /\ DOMAIN fights \subseteq DOMAIN fights' /\ DOMAIN fights' \subseteq DOMAIN fights \cup {f}
      /\ \A g \in DOMAIN fights \ {f} : fights'[g] = fights[g]
  BY DEF CreateFight
<1>. QED BY <1>1, <1>2, FightAlone

LEMMA MoveNews ==
  ASSUME TypeOK, TypeOK', NEW f \in DOMAIN fights, NEW from, NEW to, MoveFight(f, from, to)
  PROVE  News(<<FightFrame(f)>>)
<1>1. bets' = bets /\ ledger' = ledger
  BY DEF MoveFight
<1>2. /\ DOMAIN fights' = DOMAIN fights
      /\ \A g \in DOMAIN fights \ {f} : fights'[g] = fights[g]
      /\ fights'[f].rate = fights[f].rate
  BY RowsInHand DEF MoveFight, Fight
<1>. QED BY <1>1, <1>2, FightAlone

\* A toggled side, and nothing else of the row.
LEMMA ToggleNews ==
  ASSUME TypeOK, TypeOK', NEW f \in DOMAIN fights, NEW s, NEW a, ToggleSide(f, s, a)
  PROVE  News(<<SideFrame(f, s)>>)
<1>. DEFINE frames == <<SideFrame(f, s)>>
<1>1. DOMAIN frames = {1} /\ frames[1] = SideFrame(f, s)
  BY OneFrame
<1>. HIDE DEF frames
<1>2. /\ SideFrame(f, s).about = "fight" /\ SideFrame(f, s).fight = f
      /\ DOMAIN SideFrame(f, s).row = {"accepting"}
      /\ SideFrame(f, s).row["accepting"] = fights'[f].accepting
  BY DEF SideFrame
<1>3. bets' = bets /\ ledger' = ledger
  BY DEF ToggleSide
<1>4. /\ DOMAIN fights' = DOMAIN fights
      /\ \A g \in DOMAIN fights \ {f} : fights'[g] = fights[g]
      /\ fights'[f].rate = fights[f].rate /\ fights'[f].status = fights[f].status
      /\ fights'[f].pool = fights[f].pool
  BY RowsInHand DEF ToggleSide, Fight
<1>5. FightNews(frames)
  <2>1. \A c \in DOMAIN frames[1].row : frames[1].row[c] = Projection(fights'[f])[c]
    BY <1>1, <1>2, ProjectionAre
  <2>2. \A c \in Columns : \/ c \in DOMAIN frames[1].row
                           \/ Projection(fights'[f])[c] = Projection(fights[f])[c]
    BY <1>1, <1>2, <1>4, ProjectionAre DEF Columns
  <2>. QED BY <1>1, <1>2, <1>4, <2>1, <2>2, OneFightNews
<1>6. TillNews(frames)
  BY <1>1, <1>2, <1>3, NoTillNews DEF Balance
<1>7. Leaderboard' = Leaderboard
  <2>1. NothingEarned
    BY <1>3, <1>4 DEF NothingEarned, CountedIn, SameBet
  <2>. QED BY <2>1, LeaderboardKept
<1>. QED BY <1>5, <1>6, <1>7 DEF News, BoardNews, frames

\* A declaration of any kind about one fight.
LEMMA DeclareNews ==
  ASSUME TypeOK, NEW f \in DOMAIN fights, NEW o,
         SettleFight(f, o) \/ CorrectFight(f, o) \/ CancelFight(f)
  PROVE  News(<<FightFrame(f), CommissionsFrame>>)
<1>. DEFINE frames == <<FightFrame(f), CommissionsFrame>>
<1>1. DOMAIN frames = {1, 2} /\ frames[1] = FightFrame(f) /\ frames[2] = CommissionsFrame
  BY TwoFrames
<1>. HIDE DEF frames
<1>2. /\ FightFrame(f).about = "fight" /\ FightFrame(f).fight = f
      /\ FightFrame(f).row = Projection(fights'[f])
      /\ CommissionsFrame.about = "board"
  BY DEF FightFrame, CommissionsFrame
<1>3. /\ DOMAIN fights' = DOMAIN fights /\ ledger' = ledger
      /\ \A g \in DOMAIN fights \ {f} : fights'[g] = fights[g]
  BY DEF SettleFight, CorrectFight, CancelFight
<1>4. FightNews(frames)
  BY <1>1, <1>2, <1>3, OneFightNews, ProjectionAre
<1>5. TillNews(frames)
  BY <1>1, <1>2, <1>3, NoTillNews DEF Balance
<1>6. Carries(frames, "board")
  BY <1>1, <1>2 DEF Carries
<1>. QED BY <1>4, <1>5, <1>6 DEF News, BoardNews, frames

\* A revert closes the live fights too, and each of them has its frame.
LEMMA RevertNews ==
  ASSUME TypeOK, NEW f \in DOMAIN fights, UnsettleFight(f)
  PROVE  LET live == SetToSeq(Live)
             frames == [i \in DOMAIN live |-> FightFrame(live[i])] \o <<FightFrame(f), CommissionsFrame>>
         IN  IsList(frames) /\ News(frames)
<1>. DEFINE live == SetToSeq(Live)
            a == [i \in DOMAIN live |-> FightFrame(live[i])]
            b == <<FightFrame(f), CommissionsFrame>>
            frames == a \o b
<1>1. IsFiniteSet(Live)
  <2>1. IsFiniteSet(1 .. MaxFights)
    BY ConstantTypes, FS_Interval
  <2>2. Live \subseteq 1 .. MaxFights
    BY DEF TypeOK, FightsTyped, Live, FightsIn
  <2>. QED BY <2>1, <2>2, FS_Subset
<1>2. /\ Len(live) \in Nat /\ DOMAIN live = 1 .. Len(live)
      /\ \A i \in DOMAIN live : live[i] \in Live
      /\ \A x \in Live : \E i \in DOMAIN live : live[i] = x
  BY <1>1, ListOfSet, Listed
<1>. HIDE DEF live
<1>3. IsList(a) /\ Len(a) = Len(live) /\ \A i \in 1 .. Len(a) : a[i] = FightFrame(live[i])
  <2>. DEFINE S == {FightFrame(live[i]) : i \in 1 .. Len(live)}
  <2>1. /\ a = [i \in 1 .. Len(live) |-> FightFrame(live[i])]
        /\ \A i \in 1 .. Len(live) : FightFrame(live[i]) \in S
    BY <1>2
  <2>. HIDE DEF S
  <2>2. a \in Seq(S) /\ Len(a) = Len(live)
    BY <1>2, <2>1
  <2>. QED BY <2>1, <2>2, Listed
<1>4. IsList(b) /\ Len(b) = 2 /\ b[1] = FightFrame(f) /\ b[2] = CommissionsFrame
  BY TwoFrames
<1>. HIDE DEF a, b
<1>5. /\ IsList(frames) /\ DOMAIN frames = 1 .. Len(live) + 2
      /\ \A i \in 1 .. Len(live) : frames[i] = FightFrame(live[i])
      /\ frames[Len(live) + 1] = FightFrame(f) /\ frames[Len(live) + 2] = CommissionsFrame
  <2>1. /\ IsList(frames) /\ Len(frames) = Len(live) + 2
        /\ \A i \in 1 .. Len(live) : frames[i] = a[i]
        /\ \A i \in 1 .. 2 : frames[Len(live) + i] = b[i]
    <3>1. /\ IsList(a \o b) /\ Len(a \o b) = Len(a) + Len(b)
          /\ \A i \in 1 .. Len(a) : (a \o b)[i] = a[i]
          /\ \A i \in 1 .. Len(b) : (a \o b)[Len(a) + i] = b[i]
      <4>1. IsList(a) /\ IsList(b)
        BY <1>3, <1>4
      <4>. QED BY <4>1, ListConcat
    <3>2. Len(a) = Len(live) /\ Len(b) = 2 /\ frames = a \o b
      BY <1>3, <1>4
    <3>. HIDE DEF frames
    <3>. QED BY <3>1, <3>2
  <2>. HIDE DEF frames
  <2>2. DOMAIN frames = 1 .. Len(live) + 2
    BY <2>1, Listed
  <2>3. frames[Len(live) + 1] = b[1] /\ frames[Len(live) + 2] = b[2]
    BY <2>1
  <2>4. \A i \in 1 .. Len(live) : frames[i] = FightFrame(live[i])
    BY <1>3, <2>1
  <2>. QED BY <1>4, <2>1, <2>2, <2>3, <2>4
<1>. HIDE DEF frames
<1>6. \A g : /\ FightFrame(g).about = "fight" /\ FightFrame(g).fight = g
             /\ FightFrame(g).row = Projection(fights'[g])
  BY DEF FightFrame
<1>7. CommissionsFrame.about = "board"
  BY DEF CommissionsFrame
<1>8. /\ DOMAIN fights' = DOMAIN fights /\ ledger' = ledger
      /\ \A g \in DOMAIN fights \ (Live \cup {f}) : fights'[g] = fights[g]
  BY DEF UnsettleFight
<1>9. ASSUME NEW j \in DOMAIN frames
      PROVE  \/ \E g \in DOMAIN fights : frames[j] = FightFrame(g)
             \/ frames[j] = CommissionsFrame
  <2>1. CASE j \in 1 .. Len(live)
    BY <1>2, <1>5, <2>1 DEF Live, FightsIn
  <2>2. CASE j = Len(live) + 1
    BY <1>5, <2>2
  <2>3. CASE j = Len(live) + 2
    BY <1>5, <2>3
  <2>. QED BY <1>2, <1>5, <2>1, <2>2, <2>3
<1>10. \A g \in Live \cup {f} : \E j \in DOMAIN frames : frames[j] = FightFrame(g)
  <2>1. ASSUME NEW g \in Live PROVE \E j \in DOMAIN frames : frames[j] = FightFrame(g)
    BY <1>2, <1>5
  <2>2. \E j \in DOMAIN frames : frames[j] = FightFrame(f)
    BY <1>2, <1>5
  <2>. QED BY <2>1, <2>2
<1>11. FightNews(frames)
  <2>1. ASSUME NEW g \in DOMAIN fights, NEW c \in Columns
        PROVE  Telling(frames, g, c) # {} \/ Projection(fights'[g])[c] = Projection(fights[g])[c]
    <3>1. CASE g \in Live \cup {f}
      <4>1. PICK j \in DOMAIN frames : frames[j] = FightFrame(g)
        BY <1>10, <3>1
      <4>2. j \in Telling(frames, g, c)
        BY <1>6, <4>1, ProjectionAre DEF Telling
      <4>. QED BY <4>2
    <3>2. CASE g \notin Live \cup {f}
      BY <1>8, <3>2
    <3>. QED BY <3>1, <3>2
  <2>2. \A j \in DOMAIN frames : frames[j].about = "fight" =>
          /\ frames[j].fight \in DOMAIN fights
          /\ frames[j].row = Projection(fights'[frames[j].fight])
    BY <1>6, <1>7, <1>9
  <2>. QED BY <1>8, <2>1, <2>2 DEF FightNews
<1>12. TillNews(frames)
  <2>1. \A j \in DOMAIN frames : frames[j].about # "till"
    BY <1>6, <1>7, <1>9
  <2>. QED BY <1>8, <2>1, NoTillNews DEF Balance
<1>13. Carries(frames, "board")
  <2>1. Len(live) + 2 \in DOMAIN frames
    BY <1>2, <1>5
  <2>. QED BY <1>5, <1>7, <2>1 DEF Carries
<1>. QED BY <1>5, <1>11, <1>12, <1>13 DEF News, BoardNews, frames, a, b, live


-----------------------------------------------------------------------------
(* The routes of bets and of cash                                          *)

\* The pools of one fight moved, and a row was posted for a teller.
LEMMA OddsNews ==
  ASSUME TypeOK, TypeOK', NEW f \in DOMAIN fights, DOMAIN fights' = DOMAIN fights,
         \A g \in DOMAIN fights \ {f} : fights'[g] = fights[g],
         fights'[f].status = fights[f].status, fights'[f].accepting = fights[f].accepting,
         NothingEarned,
         NEW t, NEW row, row.teller = t, row.amount \in Int, ledger' = Posted({row})
  PROVE  News(<<OddsFrame(f), BalanceLater(t)>>)
<1>. DEFINE frames == <<OddsFrame(f), BalanceLater(t)>>
<1>1. DOMAIN frames = {1, 2} /\ frames[1] = OddsFrame(f) /\ frames[2] = BalanceLater(t)
  BY TwoFrames
<1>. HIDE DEF frames
<1>2. /\ OddsFrame(f).about = "fight" /\ OddsFrame(f).fight = f
      /\ DOMAIN OddsFrame(f).row = {"pool"}
      /\ OddsFrame(f).row["pool"] = fights'[f].pool
  BY DEF OddsFrame
<1>3. BalanceLater(t).about = "till" /\ BalanceLater(t).teller = t /\ ~BalanceLater(t).known
  BY DEF BalanceLater
<1>4. FightNews(frames)
  <2>1. \A c \in DOMAIN frames[1].row : frames[1].row[c] = Projection(fights'[f])[c]
    BY <1>1, <1>2, ProjectionAre
  <2>2. \A c \in Columns : \/ c \in DOMAIN frames[1].row
                           \/ Projection(fights'[f])[c] = Projection(fights[f])[c]
    BY <1>1, <1>2, ProjectionAre DEF Columns
  <2>. QED BY <1>1, <1>2, <1>3, <2>1, <2>2, OneFightNews
<1>5. TillNews(frames)
  <2>1. TellsTill(frames, row.teller)
    BY <1>1, <1>3 DEF TellsTill
  <2>2. \A j \in DOMAIN frames :
           frames[j].about = "till" /\ frames[j].known =>
             frames[j].balance = BalanceIn(ledger', frames[j].teller)
    BY <1>1, <1>2, <1>3
  <2>. QED BY <2>1, <2>2, PostedTillNews
<1>6. Leaderboard' = Leaderboard
  BY LeaderboardKept
<1>. QED BY <1>4, <1>5, <1>6 DEF News, BoardNews, frames

LEMMA PlaceNews ==
  ASSUME TypeOK, TypeOK', NEW b, NEW f \in DOMAIN fights, NEW t, NEW side, NEW amount \in Stakes,
         PlaceBet(b, f, t, side, amount)
  PROVE  News(<<OddsFrame(f), BalanceLater(t)>>)
<1>. DEFINE pool == [fights[f].pool EXCEPT ![side] = @ + amount]
            row == LedgerRow(t, "BET_PLACED", amount, b)
<1>1. /\ DOMAIN fights' = DOMAIN fights
      /\ \A g \in DOMAIN fights \ {f} : fights'[g] = fights[g]
      /\ fights'[f] = [fights[f] EXCEPT !.pool = pool]
      /\ ledger' = Posted({row})
  BY DEF PlaceBet
<1>. HIDE DEF pool
<1>2. /\ fights'[f].status = fights[f].status /\ fights'[f].accepting = fights[f].accepting
      /\ fights'[f].rate = fights[f].rate
  BY <1>1, RowsInHand DEF Fight
<1>3. row.teller = t /\ row.amount \in Int
  BY ConstantTypes DEF LedgerRow
<1>4. NothingEarned
  <2>1. /\ DOMAIN bets' = DOMAIN bets \cup {b} /\ b \notin DOMAIN bets
        /\ bets'[b] = NewTicket(f, t, side, amount)
        /\ \A x \in DOMAIN bets : bets'[x] = bets[x]
    BY DEF PlaceBet
  <2>2. bets'[b].status \notin Counted
    BY <2>1 DEF NewTicket, Counted
  <2>. QED BY <1>1, <1>2, <2>1, <2>2 DEF NothingEarned, CountedIn, SameBet
<1>. HIDE DEF row
<1>. QED BY <1>1, <1>2, <1>3, <1>4, OddsNews

LEMMA VoidNews ==
  ASSUME TypeOK, TypeOK', NEW b \in DOMAIN bets, VoidBet(b)
  PROVE  News(<<OddsFrame(bets[b].fight), BalanceLater(bets[b].teller)>>)
<1>. DEFINE f == bets[b].fight  t == bets[b].teller
            pool == [fights[f].pool EXCEPT ![bets[b].side] = @ - bets[b].amount]
            row == LedgerRow(t, "BET_VOIDED", -bets[b].amount, b)
<1>0. bets[b] \in Ticket /\ f \in DOMAIN fights /\ fights[f] \in Fight /\ bets[b].amount \in Int
  BY RowsInHand DEF Ticket, Money
<1>1. /\ DOMAIN fights' = DOMAIN fights
      /\ \A g \in DOMAIN fights \ {f} : fights'[g] = fights[g]
      /\ fights'[f] = [fights[f] EXCEPT !.pool = pool]
      /\ ledger' = Posted({row})
  BY <1>0 DEF VoidBet
<1>. HIDE DEF pool
<1>2. /\ fights'[f].status = fights[f].status /\ fights'[f].accepting = fights[f].accepting
      /\ fights'[f].rate = fights[f].rate
  BY <1>0, <1>1 DEF Fight
<1>3. row.teller = t /\ row.amount \in Int
  BY <1>0 DEF LedgerRow
<1>4. NothingEarned
  <2>1. /\ DOMAIN bets' = DOMAIN bets /\ bets[b].status \notin Counted
        /\ bets'[b].status = "VOIDED"
        /\ \A x \in DOMAIN bets \ {b} : bets'[x] = bets[x]
    BY <1>0 DEF VoidBet, Ticket, Counted
  <2>2. bets'[b].status \notin Counted
    BY <2>1 DEF Counted
  <2>. QED BY <1>1, <1>2, <2>1, <2>2 DEF NothingEarned, CountedIn, SameBet
<1>. HIDE DEF row
<1>. QED BY <1>0, <1>1, <1>2, <1>3, <1>4, OddsNews

\* A row was posted for a teller, and no fight changed.
LEMMA TillFrameNews ==
  ASSUME TypeOK, TypeOK', fights' = fights, NothingEarned,
         NEW row, row.amount \in Int, ledger' = Posted({row}),
         NEW a, a.about = "till", a.teller = row.teller,
         a.known => a.balance = BalanceIn(ledger', a.teller)
  PROVE  News(<<a>>)
<1>. DEFINE frames == <<a>>
<1>1. DOMAIN frames = {1} /\ frames[1] = a
  BY OneFrame
<1>. HIDE DEF frames
<1>2. FightNews(frames)
  BY <1>1, NoFightNews
<1>3. TillNews(frames)
  <2>1. TellsTill(frames, row.teller)
    BY <1>1 DEF TellsTill
  <2>. QED BY <1>1, <2>1, PostedTillNews
<1>4. Leaderboard' = Leaderboard
  BY LeaderboardKept
<1>. QED BY <1>2, <1>3, <1>4 DEF News, BoardNews, frames

LEMMA PayNews ==
  ASSUME TypeOK, TypeOK', NEW b \in DOMAIN bets, PayBet(b)
  PROVE  News(<<BalanceLater(bets[b].teller)>>)
<1>. DEFINE t == bets[b].teller  refund == bets[b].status = "PENDING_REFUND"
            row == LedgerRow(t, IF refund THEN "BET_REFUNDED" ELSE "PAYOUT", -bets[b].payout, b)
            a == BalanceLater(t)
<1>0. bets[b] \in Ticket /\ bets[b].payout # Null /\ bets[b].payout \in Int
  BY RowsInHand DEF PayBet, Ticket, Money
<1>1. fights' = fights /\ ledger' = Posted({row})
  BY DEF PayBet
<1>2. row.teller = t /\ row.amount \in Int
  BY <1>0 DEF LedgerRow
<1>3. NothingEarned
  <2>1. /\ DOMAIN bets' = DOMAIN bets
        /\ bets[b].status \in {"WON", "PENDING_REFUND"}
        /\ bets'[b].status = IF refund THEN "REFUNDED" ELSE "PAID"
        /\ SameBet(bets'[b], bets[b])
        /\ \A x \in DOMAIN bets \ {b} : bets'[x] = bets[x]
    BY <1>0 DEF PayBet, Ticket, SameBet
  <2>2. bets'[b].status \in Counted <=> bets[b].status \in Counted
    BY <2>1 DEF Counted
  <2>3. CountedIn(bets') = CountedIn(bets)
    BY <2>1, <2>2 DEF CountedIn
  <2>4. \A x \in CountedIn(bets) : SameBet(bets'[x], bets[x])
    BY <2>1 DEF CountedIn, SameBet
  <2>. QED BY <1>1, <2>3, <2>4 DEF NothingEarned
<1>4. a.about = "till" /\ a.teller = t /\ ~a.known
  BY DEF BalanceLater
<1>. HIDE DEF row, a
<1>5. News(<<a>>)
  BY <1>1, <1>2, <1>3, <1>4, TillFrameNews
<1>. QED BY <1>5 DEF a

LEMMA PurgeNews ==
  ASSUME TypeOK, NEW b \in DOMAIN bets, PurgeBet(b)
  PROVE  News(<<BalanceLater(bets[b].teller), CommissionsFrame>>)
<1>. DEFINE frames == <<BalanceLater(bets[b].teller), CommissionsFrame>>
<1>1. /\ DOMAIN frames = {1, 2} /\ frames[1] = BalanceLater(bets[b].teller)
      /\ frames[2] = CommissionsFrame
  BY TwoFrames
<1>. HIDE DEF frames
<1>2. /\ BalanceLater(bets[b].teller).about = "till" /\ ~BalanceLater(bets[b].teller).known
      /\ CommissionsFrame.about = "board"
  BY DEF BalanceLater, CommissionsFrame
<1>3. FightNews(frames)
  BY <1>1, <1>2, NoFightNews DEF PurgeBet
<1>4. TillNews(frames)
  <2>1. ASSUME NEW t \in Tellers PROVE BalanceIn(ledger', t) = Balance(t)
    BY BalancePurged DEF PurgeBet, TypeOK
  <2>. QED BY <1>1, <1>2, <2>1, NoTillNews
<1>5. Carries(frames, "board")
  BY <1>1, <1>2 DEF Carries
<1>. QED BY <1>3, <1>4, <1>5 DEF News, BoardNews, frames

LEMMA CashNews ==
  ASSUME TypeOK, TypeOK', NEW t \in Tellers, NEW amount \in CashAmounts,
         CashAdvance(t, amount) \/ CashRemit(t, amount)
  PROVE  News(<<BalanceFrame(t)>>)
<1>. DEFINE in == LedgerRow(t, "CASH_ADVANCE", amount, NoBet)
            out == LedgerRow(t, "REMIT", -amount, NoBet)
            a == BalanceFrame(t)
<1>0. amount \in Int
  BY ConstantTypes
<1>1. fights' = fights /\ bets' = bets /\ (ledger' = Posted({in}) \/ ledger' = Posted({out}))
  BY DEF CashAdvance, CashRemit
<1>2. in.teller = t /\ in.amount \in Int /\ out.teller = t /\ out.amount \in Int
  BY <1>0 DEF LedgerRow
<1>3. NothingEarned
  BY <1>1 DEF NothingEarned, CountedIn, SameBet
<1>4. a.about = "till" /\ a.teller = t /\ a.balance = BalanceIn(ledger', t)
  BY DEF BalanceFrame
<1>. HIDE DEF in, out, a
<1>5. News(<<a>>)
  BY <1>1, <1>2, <1>3, <1>4, TillFrameNews
<1>. QED BY <1>5 DEF a

LEMMA DeleteNews ==
  ASSUME TypeOK, TypeOK', NEW r \in DOMAIN ledger, DeleteRemit(r)
  PROVE  News(<<BalanceFrame(r.teller)>>)
<1>. DEFINE frames == <<BalanceFrame(r.teller)>>
<1>1. DOMAIN frames = {1} /\ frames[1] = BalanceFrame(r.teller)
  BY OneFrame
<1>. HIDE DEF frames
<1>2. /\ BalanceFrame(r.teller).about = "till" /\ BalanceFrame(r.teller).teller = r.teller
      /\ BalanceFrame(r.teller).balance = BalanceIn(ledger', r.teller)
  BY DEF BalanceFrame
<1>3. fights' = fights /\ bets' = bets
  BY DEF DeleteRemit
<1>4. FightNews(frames)
  BY <1>1, <1>2, <1>3, NoFightNews
<1>5. TillNews(frames)
  BY <1>1, <1>2, RewrittenBalance DEF TillNews
<1>6. Leaderboard' = Leaderboard
  <2>1. NothingEarned
    BY <1>3 DEF NothingEarned, CountedIn, SameBet
  <2>. QED BY <2>1, LeaderboardKept
<1>. QED BY <1>4, <1>5, <1>6 DEF News, BoardNews, frames

-----------------------------------------------------------------------------
(* A request                                                               *)

FrameNews(frames) ==
  \/ Carries(frames, "reset") /\ fights' = << >>
  \/ News(frames)

LEMMA FightRouteNews ==
  ASSUME TypeOK, TypeOK', FightRoutes
  PROVE  \E frames : IsList(frames) /\ Answer(frames) /\ News(frames)
<1>1. CASE PostFight
  <2>1. PICK f \in DOMAIN fights' \ DOMAIN fights : Answer(<<FightFrame(f)>>)
    BY <1>1 DEF PostFight
  <2>2. News(<<FightFrame(f)>>)
    BY <1>1, CreateNews DEF PostFight
  <2>. QED BY <2>1, <2>2, OneFrame
<1>2. ASSUME NEW f \in DOMAIN fights,
             PostClose(f) \/ PostLastCall(f) \/ PostResumeOpen(f) \/ PostReopen(f)
      PROVE  \E frames : IsList(frames) /\ Answer(frames) /\ News(frames)
  <2>1. Answer(<<FightFrame(f)>>)
    BY <1>2 DEF PostClose, PostLastCall, PostResumeOpen, PostReopen
  <2>2. \E from, to : MoveFight(f, from, to)
    BY <1>2 DEF PostClose, PostLastCall, PostResumeOpen, PostReopen, CloseFight, SetFightLastCall,
      ResumeFightOpen, ReopenFight
  <2>3. News(<<FightFrame(f)>>)
    BY <2>2, MoveNews
  <2>. QED BY <2>1, <2>3, OneFrame
<1>3. ASSUME NEW f \in DOMAIN fights, NEW o \in Outcomes,
             PostSettle(f, o) \/ PostCorrect(f, o) \/ PostCancel(f)
      PROVE  \E frames : IsList(frames) /\ Answer(frames) /\ News(frames)
  <2>1. Answer(<<FightFrame(f), CommissionsFrame>>)
    BY <1>3 DEF PostSettle, PostCorrect, PostCancel
  <2>2. SettleFight(f, o) \/ CorrectFight(f, o) \/ CancelFight(f)
    BY <1>3 DEF PostSettle, PostCorrect, PostCancel
  <2>3. News(<<FightFrame(f), CommissionsFrame>>)
    BY <2>2, DeclareNews
  <2>. QED BY <2>1, <2>3, TwoFrames
<1>4. ASSUME NEW f \in DOMAIN fights, PostUnsettle(f)
      PROVE  \E frames : IsList(frames) /\ Answer(frames) /\ News(frames)
  BY <1>4, RevertNews DEF PostUnsettle
<1>5. ASSUME NEW f \in DOMAIN fights, NEW s \in Sides, PostHold(f, s) \/ PostUnhold(f, s)
      PROVE  \E frames : IsList(frames) /\ Answer(frames) /\ News(frames)
  <2>1. Answer(<<SideFrame(f, s)>>) /\ \E a : ToggleSide(f, s, a)
    BY <1>5 DEF PostHold, PostUnhold
  <2>2. News(<<SideFrame(f, s)>>)
    BY <2>1, ToggleNews
  <2>. QED BY <2>1, <2>2, OneFrame
<1>6. "DRAW" \in Outcomes
  BY DEF Outcomes
<1>. QED BY <1>1, <1>2, <1>3, <1>4, <1>5, <1>6 DEF FightRoutes

LEMMA BetRouteNews ==
  ASSUME TypeOK, TypeOK', BetRoutes
  PROVE  \E frames : IsList(frames) /\ Answer(frames) /\ News(frames)
<1>1. ASSUME NEW b \in BetIds, NEW f \in DOMAIN fights, NEW t \in Tellers, NEW s \in Sides,
             NEW a \in Stakes, PostBet(b, f, t, s, a)
      PROVE  \E frames : IsList(frames) /\ Answer(frames) /\ News(frames)
  BY <1>1, PlaceNews, TwoFrames DEF PostBet
<1>2. ASSUME NEW b \in DOMAIN bets, PostVoid(b)
      PROVE  \E frames : IsList(frames) /\ Answer(frames) /\ News(frames)
  BY <1>2, VoidNews, TwoFrames DEF PostVoid
<1>3. ASSUME NEW b \in DOMAIN bets, PostPay(b)
      PROVE  \E frames : IsList(frames) /\ Answer(frames) /\ News(frames)
  BY <1>3, PayNews, OneFrame DEF PostPay
<1>4. ASSUME NEW b \in DOMAIN bets, DeletePurge(b)
      PROVE  \E frames : IsList(frames) /\ Answer(frames) /\ News(frames)
  BY <1>4, PurgeNews, TwoFrames DEF DeletePurge
<1>. QED BY <1>1, <1>2, <1>3, <1>4 DEF BetRoutes

LEMMA CashRouteNews ==
  ASSUME TypeOK, TypeOK', CashRoutes
  PROVE  \E frames : IsList(frames) /\ Answer(frames) /\ News(frames)
<1>1. ASSUME NEW t \in Tellers, NEW a \in CashAmounts, PostAdvance(t, a) \/ PostRemit(t, a)
      PROVE  \E frames : IsList(frames) /\ Answer(frames) /\ News(frames)
  BY <1>1, CashNews, OneFrame DEF PostAdvance, PostRemit
<1>2. ASSUME NEW r \in DOMAIN ledger, DeleteRemitRow(r)
      PROVE  \E frames : IsList(frames) /\ Answer(frames) /\ News(frames)
  BY <1>2, DeleteNews, OneFrame DEF DeleteRemitRow
<1>. QED BY <1>1, <1>2 DEF CashRoutes

\* Every request but the reset is a step of the book, and the reset starts it
\* again.
LEMMA RequestSteps == TypeOK /\ Requesting => Next \/ Init'
<1>. SUFFICES ASSUME TypeOK, Requesting PROVE Next \/ Init'
  OBVIOUS
<1>1. CASE FightRoutes
  BY <1>1 DEF FightRoutes, PostFight, PostClose, PostLastCall, PostResumeOpen, PostReopen,
    PostSettle, PostCorrect, PostUnsettle, PostCancel, PostHold, PostUnhold,
    Next, Lifecycle, Holding, Declaring, Correcting, Reverting
<1>2. CASE BetRoutes
  BY <1>2 DEF BetRoutes, PostBet, PostVoid, PostPay, DeletePurge, Next, Betting, Paying, Purging
<1>3. CASE CashRoutes
  BY <1>3 DEF CashRoutes, PostAdvance, PostRemit, DeleteRemitRow, Next, Cash
<1>4. CASE PostReset
  BY <1>4 DEF PostReset, Init, TypeOK, FightsTyped
<1>. QED BY <1>1, <1>2, <1>3, <1>4 DEF Requesting

LEMMA RequestType == TypeOK /\ Requesting => TypeOK'
<1>1. Init' => TypeOK'
  BY InitType, PTL
<1>. QED BY <1>1, RequestSteps, NextType

\* Every request queues an answer that tells all that it changed.
LEMMA RequestNews ==
  ASSUME TypeOK, Requesting
  PROVE  TypeOK' /\ \E frames : IsList(frames) /\ Answer(frames) /\ FrameNews(frames)
<1>1. TypeOK'
  BY RequestType
<1>2. CASE FightRoutes
  BY <1>1, <1>2, FightRouteNews DEF FrameNews
<1>3. CASE BetRoutes
  BY <1>1, <1>3, BetRouteNews DEF FrameNews
<1>4. CASE CashRoutes
  BY <1>1, <1>4, CashRouteNews DEF FrameNews
<1>5. CASE PostReset
  <2>1. Answer(<<ResetFrame>>) /\ fights' = << >>
    BY <1>5 DEF PostReset
  <2>2. Carries(<<ResetFrame>>, "reset")
    BY OneFrame DEF Carries, ResetFrame
  <2>. QED BY <1>1, <2>1, <2>2, OneFrame DEF FrameNews
<1>. QED BY <1>1, <1>2, <1>3, <1>4, <1>5 DEF Requesting

-----------------------------------------------------------------------------
(* The queue                                                               *)

QueueFits == IsList(answers) /\ \A i \in DOMAIN answers : IsList(answers[i])

\* A request is the last in the queue.
LEMMA QueueGrows ==
  ASSUME QueueFits, NEW frames, IsList(frames), Answer(frames)
  PROVE  /\ QueueFits' /\ DOMAIN answers = 1 .. Len(answers) /\ Len(answers) \in Nat
         /\ DOMAIN answers' = 1 .. Len(answers) + 1 /\ Len(answers') = Len(answers) + 1
         /\ \A k \in 1 .. Len(answers) : answers'[k] = answers[k]
         /\ answers'[Len(answers) + 1] = frames
<1>1. Len(answers) \in Nat /\ DOMAIN answers = 1 .. Len(answers) /\ IsList(answers)
  BY Listed DEF QueueFits
<1>2. answers' = Append(answers, frames)
  BY DEF Answer
<1>3. /\ IsList(answers') /\ DOMAIN answers' = 1 .. Len(answers) + 1
      /\ Len(answers') = Len(answers) + 1
      /\ \A k \in 1 .. Len(answers) : answers'[k] = answers[k]
      /\ answers'[Len(answers) + 1] = frames
  BY <1>1, <1>2, ListAppend
<1>4. \A k \in DOMAIN answers' : IsList(answers'[k])
  BY <1>1, <1>3 DEF QueueFits
<1>. QED BY <1>1, <1>3, <1>4 DEF QueueFits

LEMMA Indexed ==
  ASSUME NEW s, NEW n \in Nat, DOMAIN s = 1 .. n, s = [i \in 1 .. n |-> s[i]]
  PROVE  IsList(s) /\ Len(s) = n
<1>. DEFINE S == {s[i] : i \in 1 .. n}
<1>1. \A i \in 1 .. n : s[i] \in S
  OBVIOUS
<1>. HIDE DEF S
<1>2. s \in Seq(S) /\ Len(s) = n
  BY <1>1
<1>. QED BY <1>2, Listed

LEMMA ReadFrame ==
  ASSUME NEW frame
  PROVE  /\ WithBalance(frame).about = frame.about
         /\ frame.about # "till" => WithBalance(frame) = frame
         /\ ~Unread(frame) => WithBalance(frame) = frame
         /\ Unread(frame) => /\ WithBalance(frame).teller = frame.teller
                             /\ WithBalance(frame).balance = Balance(frame.teller)
BY DEF WithBalance, Unread

\* A balance is read, and the queue is the same otherwise.
LEMMA QueueRead ==
  ASSUME QueueFits, NEW i \in DOMAIN answers, ReadBalances(i)
  PROVE  /\ QueueFits' /\ DOMAIN answers' = DOMAIN answers /\ Len(answers') = Len(answers)
         /\ \A k \in DOMAIN answers : k # i => answers'[k] = answers[k]
         /\ DOMAIN answers'[i] = DOMAIN answers[i]
         /\ \A j \in DOMAIN answers[i] : answers'[i][j] = WithBalance(answers[i][j])
<1>1. Len(answers) \in Nat /\ DOMAIN answers = 1 .. Len(answers) /\ IsList(answers[i])
  BY Listed DEF QueueFits
<1>2. Len(answers[i]) \in Nat /\ DOMAIN answers[i] = 1 .. Len(answers[i])
  BY <1>1, Listed
<1>. DEFINE read == [j \in DOMAIN answers[i] |-> WithBalance(answers[i][j])]
<1>3. answers' = [answers EXCEPT ![i] = read]
  BY DEF ReadBalances
<1>4. /\ DOMAIN read = DOMAIN answers[i]
      /\ \A j \in DOMAIN answers[i] : read[j] = WithBalance(answers[i][j])
      /\ read = [j \in 1 .. Len(answers[i]) |-> read[j]]
  BY <1>2
<1>. HIDE DEF read
<1>5. IsList(read)
  BY <1>2, <1>4, Indexed
<1>6. answers = [k \in 1 .. Len(answers) |-> answers[k]]
  BY <1>1 DEF QueueFits, IsList
<1>7. /\ DOMAIN answers' = 1 .. Len(answers)
      /\ answers' = [k \in 1 .. Len(answers) |-> answers'[k]]
      /\ \A k \in DOMAIN answers : k # i => answers'[k] = answers[k]
      /\ answers'[i] = read
  BY <1>1, <1>3, <1>6
<1>8. IsList(answers') /\ Len(answers') = Len(answers)
  BY <1>1, <1>7, Indexed
<1>9. \A k \in DOMAIN answers' : IsList(answers'[k])
  BY <1>1, <1>5, <1>7 DEF QueueFits
<1>. QED BY <1>1, <1>4, <1>7, <1>8, <1>9 DEF QueueFits

\* An answer leaves the queue.
LEMMA QueueSent ==
  ASSUME QueueFits, NEW i \in DOMAIN answers, Send(i)
  PROVE  /\ QueueFits' /\ DOMAIN answers = 1 .. Len(answers) /\ Len(answers) \in Nat
         /\ Len(answers') = Len(answers) - 1 /\ DOMAIN answers' = 1 .. Len(answers) - 1
         /\ \A k \in 1 .. Len(answers) - 1 :
              answers'[k] = IF k < i THEN answers[k] ELSE answers[k + 1]
<1>1. Len(answers) \in Nat /\ DOMAIN answers = 1 .. Len(answers) /\ IsList(answers)
  BY Listed DEF QueueFits
<1>2. answers' = RemoveAt(answers, i)
  BY DEF Send
<1>3. /\ IsList(answers') /\ Len(answers') = Len(answers) - 1
      /\ \A k \in 1 .. Len(answers) - 1 :
              answers'[k] = IF k < i THEN answers[k] ELSE answers[k + 1]
  BY <1>1, <1>2, ListRemove
<1>4. DOMAIN answers' = 1 .. Len(answers) - 1
  BY <1>3, Listed
<1>5. \A k \in DOMAIN answers' : IsList(answers'[k])
  <2>1. ASSUME NEW k \in DOMAIN answers' PROVE IsList(answers'[k])
    <3>1. k \in 1 .. Len(answers) - 1 /\ k \in DOMAIN answers /\ k + 1 \in DOMAIN answers
      BY <1>1, <1>4
    <3>2. answers'[k] = answers[k] \/ answers'[k] = answers[k + 1]
      BY <1>3, <3>1
    <3>. QED BY <3>1, <3>2 DEF QueueFits
  <2>. QED BY <2>1
<1>. QED BY <1>1, <1>3, <1>4, <1>5 DEF QueueFits

LEMMA NothingCommitted ==
  ASSUME TypeOK, UNCHANGED vars
  PROVE  TypeOK' /\ fights' = fights /\ Leaderboard' = Leaderboard /\ \A t : Balance(t)' = Balance(t)
<1>1. fights' = fights /\ bets' = bets /\ ledger' = ledger
  BY DEF vars
<1>2. TypeOK'
  BY NextType
<1>3. NothingEarned
  BY <1>1 DEF NothingEarned, CountedIn, SameBet
<1>. QED BY <1>1, <1>2, <1>3, LeaderboardKept DEF Balance

-----------------------------------------------------------------------------
(* The leaderboard                                                         *)

\* An answer that makes the dashboard fetch the leaderboard again.
Refetches(frames) == Carries(frames, "board") \/ Carries(frames, "reset")

BoardInv ==
  /\ TypeOK
  /\ QueueFits
  /\ board = Leaderboard \/ \E k \in DOMAIN answers : Refetches(answers[k])

LEMMA InitBoard == ApiInit => BoardInv
<1>. SUFFICES ASSUME ApiInit PROVE BoardInv
  OBVIOUS
<1>1. TypeOK
  BY InitType DEF ApiInit
<1>2. QueueFits
  BY DEF ApiInit, QueueFits, IsList
<1>3. board = Leaderboard
  BY SumEmpty DEF ApiInit, Init, Leaderboard
<1>. QED BY <1>1, <1>2, <1>3 DEF BoardInv

LEMMA NextBoard == BoardInv /\ [ApiNext]_apiVars => BoardInv'
<1>. SUFFICES ASSUME BoardInv, [ApiNext]_apiVars PROVE BoardInv'
  OBVIOUS
<1>. USE DEF BoardInv
<1>1. CASE Requesting
  <2>1. PICK frames : IsList(frames) /\ Answer(frames) /\ FrameNews(frames)
    BY <1>1, RequestNews
  <2>2. /\ QueueFits' /\ DOMAIN answers = 1 .. Len(answers) /\ Len(answers) \in Nat
        /\ DOMAIN answers' = 1 .. Len(answers) + 1
        /\ \A k \in 1 .. Len(answers) : answers'[k] = answers[k]
        /\ answers'[Len(answers) + 1] = frames
    BY <2>1, QueueGrows
  <2>3. board' = board
    BY <2>1 DEF Answer
  <2>4. CASE \E k \in DOMAIN answers : Refetches(answers[k])
    <3>1. PICK k \in DOMAIN answers : Refetches(answers[k])
      BY <2>4
    <3>2. k \in DOMAIN answers' /\ Refetches(answers'[k])
      BY <2>2, <3>1
    <3>. QED BY <1>1, <2>2, <3>2, RequestNews
  <2>5. CASE Refetches(frames)
    <3>1. Len(answers) + 1 \in DOMAIN answers'
      BY <2>2
    <3>. QED BY <1>1, <2>2, <2>5, <3>1, RequestNews
  <2>6. CASE board = Leaderboard /\ ~Refetches(frames)
    <3>1. Leaderboard' = Leaderboard
      BY <2>1, <2>6 DEF FrameNews, News, BoardNews, Refetches
    <3>. QED BY <1>1, <2>2, <2>3, <2>6, <3>1, RequestNews
  <2>. QED BY <2>4, <2>5, <2>6
<1>2. ASSUME NEW i \in DOMAIN answers, ReadBalances(i) PROVE BoardInv'
  <2>1. /\ QueueFits' /\ DOMAIN answers' = DOMAIN answers
        /\ \A k \in DOMAIN answers : k # i => answers'[k] = answers[k]
        /\ DOMAIN answers'[i] = DOMAIN answers[i]
        /\ \A j \in DOMAIN answers[i] : answers'[i][j] = WithBalance(answers[i][j])
    BY <1>2, QueueRead
  <2>2. Refetches(answers[i]) => Refetches(answers'[i])
    BY <2>1, ReadFrame DEF Refetches, Carries
  <2>3. TypeOK' /\ Leaderboard' = Leaderboard /\ board' = board
    BY <1>2, NothingCommitted DEF ReadBalances
  <2>4. \A k \in DOMAIN answers : Refetches(answers[k]) => Refetches(answers'[k])
    BY <2>1, <2>2
  <2>. QED BY <2>1, <2>3, <2>4
<1>3. ASSUME NEW i \in DOMAIN answers, Send(i) PROVE BoardInv'
  <2>1. /\ QueueFits' /\ DOMAIN answers = 1 .. Len(answers) /\ Len(answers) \in Nat
        /\ DOMAIN answers' = 1 .. Len(answers) - 1
        /\ \A k \in 1 .. Len(answers) - 1 :
             answers'[k] = IF k < i THEN answers[k] ELSE answers[k + 1]
    BY <1>3, QueueSent
  <2>2. TypeOK' /\ Leaderboard' = Leaderboard
    BY <1>3, NothingCommitted DEF Send
  <2>3. CASE Refetches(answers[i])
    <3>1. board' = Leaderboard
      BY <1>3, <2>3 DEF Send, FetchesAgain, Shows, Refetches
    <3>. QED BY <2>1, <2>2, <3>1
  <2>4. CASE ~Refetches(answers[i]) /\ board = Leaderboard
    <3>1. board' = board
      BY <1>3, <2>4 DEF Send, Shows, Refetches
    <3>. QED BY <2>1, <2>2, <2>4, <3>1
  <2>5. ASSUME NEW k \in DOMAIN answers, Refetches(answers[k]), ~Refetches(answers[i])
        PROVE  BoardInv'
    <3>1. CASE k < i
      <4>1. k \in DOMAIN answers' /\ answers'[k] = answers[k]
        BY <2>1, <3>1
      <4>. QED BY <2>1, <2>2, <2>5, <4>1
    <3>2. CASE ~(k < i)
      <4>1. k # i
        BY <2>5
      <4>2. k - 1 \in DOMAIN answers' /\ ~(k - 1 < i) /\ (k - 1) + 1 = k
        BY <2>1, <3>2, <4>1
      <4>3. answers'[k - 1] = answers[k]
        BY <2>1, <4>2
      <4>. QED BY <2>1, <2>2, <2>5, <4>2, <4>3
    <3>. QED BY <3>1, <3>2
  <2>. QED BY <2>3, <2>4, <2>5
<1>4. CASE UNCHANGED apiVars
  <2>1. UNCHANGED <<vars, answers, board>>
    BY <1>4 DEF apiVars
  <2>2. TypeOK' /\ Leaderboard' = Leaderboard
    BY <2>1, NothingCommitted
  <2>3. answers' = answers
    BY <2>1
  <2>. QED BY <2>1, <2>2, <2>3 DEF QueueFits
<1>. QED BY <1>1, <1>2, <1>3, <1>4 DEF ApiNext, Answering

(***************************************************************************)
(* However many requests overlap, and in whatever order their frames go    *)
(* out, once everything is broadcast the dashboard has fetched the         *)
(* leaderboard of the tables: every route that moves a realized commission *)
(* makes it fetch again after its commit.                                  *)
(***************************************************************************)
THEOREM LeaderboardFollows == ApiSpec => []LeaderboardInSync
<1>1. ApiInit => BoardInv
  BY InitBoard
<1>2. BoardInv /\ [ApiNext]_apiVars => BoardInv'
  BY NextBoard
<1>3. BoardInv => LeaderboardInSync
  BY DEF BoardInv, LeaderboardInSync, Settling
<1>. QED BY <1>1, <1>2, <1>3, PTL DEF ApiSpec

-----------------------------------------------------------------------------
(* The kiosks                                                              *)

\* A kiosk that gets the frames knows the column of the fight anew.
Says(frames, f, c) == Carries(frames, "reset") \/ Telling(frames, f, c) # {}

\* The last answer to speak of a column tells it as it is in the table, and
\* where none does the screen shows it.
ColumnTold(f, c) ==
  /\ \A k \in DOMAIN answers :
       (/\ ~Carries(answers[k], "reset")
        /\ \A m \in k + 1 .. Len(answers) : ~Says(answers[m], f, c))
       => \A j \in Telling(answers[k], f, c) :
            answers[k][j].row[c] = Projection(fights[f])[c]
  /\ (\A k \in DOMAIN answers : ~Says(answers[k], f, c))
       => f \in DOMAIN screen /\ screen[f][c] = Projection(fights[f])[c]

\* What is queued after the last reset is about fights of the table ...
FramesHaveFights ==
  \A k \in DOMAIN answers :
    (\A m \in k .. Len(answers) : ~Carries(answers[m], "reset"))
    => FightsOf(answers[k]) \subseteq DOMAIN fights

\* ... and so is what the kiosks show, if no reset is queued.
ScreenHasFights ==
  (\A k \in DOMAIN answers : ~Carries(answers[k], "reset"))
  => DOMAIN screen \subseteq DOMAIN fights

ScreenTyped ==
  /\ screen = [f \in DOMAIN screen |-> screen[f]]
  /\ \A f \in DOMAIN screen : screen[f] = [c \in Columns |-> screen[f][c]]

KioskInv ==
  /\ TypeOK
  /\ QueueFits
  /\ ScreenTyped
  /\ FramesHaveFights
  /\ ScreenHasFights
  /\ \A f \in DOMAIN fights, c \in Columns : ColumnTold(f, c)

\* The last answer to speak of a drawer that tells the balance tells it as it
\* is in the ledger, and where none speaks of it the dashboard shows it.
Speaks(frames, t) == Carries(frames, "reset") \/ TellsTill(frames, t)

TillTold(t) ==
  /\ \A k \in DOMAIN answers :
       (/\ ~Carries(answers[k], "reset")
        /\ \A m \in k + 1 .. Len(answers) : ~Speaks(answers[m], t))
       => \A j \in DOMAIN answers[k] :
            answers[k][j].about = "till" /\ answers[k][j].teller = t /\ answers[k][j].known
              => answers[k][j].balance = Balance(t)
  /\ (\A k \in DOMAIN answers : ~Speaks(answers[k], t)) => tills[t] = Balance(t)

TillInv == TypeOK /\ QueueFits /\ \A t \in Tellers : TillTold(t)

LEMMA Greatest ==
  ASSUME NEW n \in Nat, NEW S, S \subseteq 1 .. n, S # {}
  PROVE  Max(S) \in S
<1>. DEFINE T == {n - x : x \in S}
<1>1. T \subseteq Nat /\ T # {}
  <2>1. T # {}
    OBVIOUS
  <2>2. ASSUME NEW x \in S PROVE n - x \in Nat
    <3>1. x \in Int /\ x <= n
      OBVIOUS
    <3>. QED BY <3>1
  <2>. QED BY <2>1, <2>2
<1>2. PICK m \in T : \A y \in T : m <= y
  BY <1>1, LeastNatural
<1>3. PICK x \in S : m = n - x
  BY <1>2
<1>4. \A y \in S : x >= y
  <2>1. ASSUME NEW y \in S PROVE x >= y
    <3>1. m <= n - y /\ x \in Int /\ y \in Int
      BY <1>2, <2>1
    <3>. QED BY <1>3, <3>1
  <2>. QED BY <2>1
<1>. QED BY <1>4 DEF Max

LEMMA InitKiosks == ApiInit => KioskInv
<1>. SUFFICES ASSUME ApiInit PROVE KioskInv
  OBVIOUS
<1>1. TypeOK
  BY InitType DEF ApiInit
<1>2. QueueFits /\ answers = << >> /\ screen = << >> /\ fights = << >>
  BY DEF ApiInit, Init, QueueFits, IsList
<1>. QED BY <1>1, <1>2 DEF KioskInv, ScreenTyped, FramesHaveFights, ScreenHasFights

LEMMA RequestKiosks == KioskInv /\ Requesting => KioskInv'
<1>. SUFFICES ASSUME KioskInv, Requesting PROVE KioskInv'
  OBVIOUS
<1>. DEFINE n == Len(answers)
<1>0. TypeOK /\ QueueFits
  BY DEF KioskInv
<1>1. PICK frames : IsList(frames) /\ Answer(frames) /\ FrameNews(frames)
  BY <1>0, RequestNews
<1>2. TypeOK'
  BY <1>0, RequestNews
<1>3. /\ QueueFits' /\ DOMAIN answers = 1 .. n /\ n \in Nat
      /\ DOMAIN answers' = 1 .. n + 1 /\ Len(answers') = n + 1
      /\ \A k \in 1 .. n : answers'[k] = answers[k]
      /\ answers'[n + 1] = frames
  BY <1>0, <1>1, QueueGrows
<1>4. screen' = screen
  BY <1>1 DEF Answer
<1>5. ScreenTyped'
  BY <1>4 DEF KioskInv, ScreenTyped
<1>. HIDE DEF n
<1>6. n + 1 \in DOMAIN answers' /\ \A k \in DOMAIN answers' : n + 1 \in k .. Len(answers')
  BY <1>3
<1>7. CASE Carries(frames, "reset") /\ fights' = << >>
  <2>1. DOMAIN fights' = {}
    BY <1>7
  <2>2. FramesHaveFights' /\ ScreenHasFights'
    BY <1>3, <1>6, <1>7 DEF FramesHaveFights, ScreenHasFights
  <2>. QED BY <1>2, <1>3, <1>5, <2>1, <2>2 DEF KioskInv
<1>8. CASE News(frames)
  <2>1. /\ DOMAIN fights \subseteq DOMAIN fights'
        /\ FightsOf(frames) \subseteq DOMAIN fights'
    BY <1>8 DEF News, FightNews, FightsOf
  <2>2. FramesHaveFights'
    <3>1. ASSUME NEW k \in DOMAIN answers',
                 \A m \in k .. Len(answers') : ~Carries(answers'[m], "reset")
          PROVE  FightsOf(answers'[k]) \subseteq DOMAIN fights'
      <4>1. CASE k = n + 1
        BY <1>3, <2>1, <4>1
      <4>2. CASE k # n + 1
        <5>1. k \in DOMAIN answers /\ answers'[k] = answers[k]
          BY <1>3, <4>2
        <5>2. \A m \in k .. n : m \in k .. Len(answers') /\ answers'[m] = answers[m]
          BY <1>3, <5>1
        <5>3. FightsOf(answers[k]) \subseteq DOMAIN fights
          BY <3>1, <5>1, <5>2 DEF KioskInv, FramesHaveFights, n
        <5>. QED BY <2>1, <5>1, <5>3
      <4>. QED BY <4>1, <4>2
    <3>. QED BY <3>1 DEF FramesHaveFights
  <2>3. ScreenHasFights'
    <3>1. ASSUME \A k \in DOMAIN answers' : ~Carries(answers'[k], "reset")
          PROVE  DOMAIN screen' \subseteq DOMAIN fights'
      <4>1. \A k \in DOMAIN answers : k \in DOMAIN answers' /\ answers'[k] = answers[k]
        BY <1>3
      <4>. QED BY <1>4, <2>1, <3>1, <4>1 DEF KioskInv, ScreenHasFights
    <3>. QED BY <3>1 DEF ScreenHasFights
  <2>4. ASSUME NEW f \in DOMAIN fights', NEW c \in Columns PROVE ColumnTold(f, c)'
    <3>1. \/ Telling(frames, f, c) # {}
          \/ f \in DOMAIN fights /\ Projection(fights'[f])[c] = Projection(fights[f])[c]
      BY <1>8 DEF News, FightNews
    <3>2. ~Says(frames, f, c) => ColumnTold(f, c)
      BY <3>1 DEF Says, KioskInv
    <3>3. ASSUME NEW k \in DOMAIN answers', ~Carries(answers'[k], "reset"),
                 \A m \in k + 1 .. Len(answers') : ~Says(answers'[m], f, c),
                 NEW j \in Telling(answers'[k], f, c)
          PROVE  answers'[k][j].row[c] = Projection(fights'[f])[c]
      <4>1. CASE k = n + 1
        <5>1. answers'[k] = frames
          BY <1>3, <4>1
        <5>. QED BY <1>8, <3>3, <5>1 DEF News, FightNews, Telling
      <4>2. CASE k # n + 1
        <5>1. k \in DOMAIN answers /\ answers'[k] = answers[k] /\ n + 1 \in k + 1 .. Len(answers')
          BY <1>3, <4>2
        <5>2. \A m \in k + 1 .. n : m \in k + 1 .. Len(answers') /\ answers'[m] = answers[m]
          BY <1>3, <5>1
        <5>3. ~Says(frames, f, c)
          BY <1>3, <3>3, <5>1
        <5>4. \A m \in k + 1 .. Len(answers) : ~Says(answers[m], f, c)
          BY <3>3, <5>2 DEF n
        <5>5. answers[k][j].row[c] = Projection(fights[f])[c]
          BY <3>2, <3>3, <5>1, <5>3, <5>4 DEF ColumnTold
        <5>6. Projection(fights'[f])[c] = Projection(fights[f])[c]
          BY <3>1, <5>3 DEF Says
        <5>. QED BY <5>1, <5>5, <5>6
      <4>. QED BY <4>1, <4>2
    <3>4. ASSUME \A k \in DOMAIN answers' : ~Says(answers'[k], f, c)
          PROVE  f \in DOMAIN screen' /\ screen'[f][c] = Projection(fights'[f])[c]
      <4>1. ~Says(frames, f, c)
        BY <1>3, <1>6, <3>4
      <4>2. \A k \in DOMAIN answers : ~Says(answers[k], f, c)
        <5>1. \A k \in DOMAIN answers : k \in DOMAIN answers' /\ answers'[k] = answers[k]
          BY <1>3
        <5>. QED BY <3>4, <5>1
      <4>3. f \in DOMAIN screen /\ screen[f][c] = Projection(fights[f])[c]
        BY <3>2, <4>1, <4>2 DEF ColumnTold
      <4>4. Projection(fights'[f])[c] = Projection(fights[f])[c]
        BY <3>1, <4>1 DEF Says
      <4>. QED BY <1>4, <4>3, <4>4
    <3>. QED BY <3>3, <3>4 DEF ColumnTold
  <2>. QED BY <1>2, <1>3, <1>5, <2>2, <2>3, <2>4 DEF KioskInv
<1>. QED BY <1>1, <1>7, <1>8 DEF FrameNews

\* Reading a balance changes no frame about a fight.
LEMMA ReadKiosks ==
  ASSUME KioskInv, NEW i \in DOMAIN answers, ReadBalances(i)
  PROVE  KioskInv'
<1>0. TypeOK /\ QueueFits
  BY DEF KioskInv
<1>1. /\ QueueFits' /\ DOMAIN answers' = DOMAIN answers /\ Len(answers') = Len(answers)
      /\ \A k \in DOMAIN answers : k # i => answers'[k] = answers[k]
      /\ DOMAIN answers'[i] = DOMAIN answers[i]
      /\ \A j \in DOMAIN answers[i] : answers'[i][j] = WithBalance(answers[i][j])
  BY <1>0, QueueRead
<1>2. TypeOK' /\ fights' = fights /\ screen' = screen
  BY <1>0, NothingCommitted DEF ReadBalances
<1>3. ASSUME NEW k \in DOMAIN answers
      PROVE  /\ DOMAIN answers'[k] = DOMAIN answers[k]
             /\ \A j \in DOMAIN answers[k] :
                  /\ answers'[k][j].about = answers[k][j].about
                  /\ answers[k][j].about = "fight" => answers'[k][j] = answers[k][j]
  <2>1. CASE k = i
    <3>1. ASSUME NEW j \in DOMAIN answers[i]
          PROVE  /\ answers'[i][j].about = answers[i][j].about
                 /\ answers[i][j].about = "fight" => answers'[i][j] = answers[i][j]
      BY <1>1, ReadFrame
    <3>. QED BY <1>1, <2>1, <3>1
  <2>2. CASE k # i
    BY <1>1, <2>2
  <2>. QED BY <2>1, <2>2
<1>4. ASSUME NEW k \in DOMAIN answers
      PROVE  /\ Carries(answers'[k], "reset") <=> Carries(answers[k], "reset")
             /\ FightsOf(answers'[k]) = FightsOf(answers[k])
             /\ \A f, c : Telling(answers'[k], f, c) = Telling(answers[k], f, c)
  <2>1. Carries(answers'[k], "reset") <=> Carries(answers[k], "reset")
    BY <1>3 DEF Carries
  <2>2. FightsOf(answers'[k]) = FightsOf(answers[k])
    <3>1. {j \in DOMAIN answers'[k] : answers'[k][j].about = "fight"}
            = {j \in DOMAIN answers[k] : answers[k][j].about = "fight"}
      BY <1>3
    <3>. QED BY <1>3, <3>1 DEF FightsOf
  <2>3. ASSUME NEW f, NEW c PROVE Telling(answers'[k], f, c) = Telling(answers[k], f, c)
    BY <1>3 DEF Telling
  <2>. QED BY <2>1, <2>2, <2>3
<1>5. ScreenTyped'
  BY <1>2 DEF KioskInv, ScreenTyped
<1>6. DOMAIN answers = 1 .. Len(answers) /\ Len(answers) \in Nat
  BY <1>0, Listed DEF QueueFits
<1>7. FramesHaveFights'
  <2>1. ASSUME NEW k \in DOMAIN answers,
               \A m \in k .. Len(answers) : ~Carries(answers'[m], "reset")
        PROVE  FightsOf(answers'[k]) \subseteq DOMAIN fights
    <3>1. \A m \in k .. Len(answers) : m \in DOMAIN answers
      BY <1>6
    <3>2. \A m \in k .. Len(answers) : ~Carries(answers[m], "reset")
      BY <1>4, <2>1, <3>1
    <3>. QED BY <1>4, <2>1, <3>2 DEF KioskInv, FramesHaveFights
  <2>. QED BY <1>1, <1>2, <2>1 DEF FramesHaveFights
<1>8. ScreenHasFights'
  BY <1>1, <1>2, <1>4 DEF KioskInv, ScreenHasFights
<1>9. ASSUME NEW f \in DOMAIN fights, NEW c \in Columns PROVE ColumnTold(f, c)'
  <2>0. ColumnTold(f, c)
    BY DEF KioskInv
  <2>1. \A k \in DOMAIN answers : Says(answers'[k], f, c) <=> Says(answers[k], f, c)
    BY <1>4 DEF Says
  <2>2. ASSUME NEW k \in DOMAIN answers, ~Carries(answers'[k], "reset"),
               \A m \in k + 1 .. Len(answers) : ~Says(answers'[m], f, c),
               NEW j \in Telling(answers'[k], f, c)
        PROVE  answers'[k][j].row[c] = Projection(fights[f])[c]
    <3>1. \A m \in k + 1 .. Len(answers) : m \in DOMAIN answers
      BY <1>6
    <3>2. \A m \in k + 1 .. Len(answers) : ~Says(answers[m], f, c)
      BY <2>1, <2>2, <3>1
    <3>3. j \in Telling(answers[k], f, c) /\ ~Carries(answers[k], "reset")
      BY <1>4, <2>2
    <3>4. answers[k][j].row[c] = Projection(fights[f])[c]
      BY <2>0, <3>2, <3>3 DEF ColumnTold
    <3>5. j \in DOMAIN answers[k] /\ answers[k][j].about = "fight"
      BY <3>3 DEF Telling
    <3>. QED BY <1>3, <3>4, <3>5
  <2>3. (\A k \in DOMAIN answers : ~Says(answers'[k], f, c))
          => f \in DOMAIN screen /\ screen[f][c] = Projection(fights[f])[c]
    BY <2>0, <2>1 DEF ColumnTold
  <2>. QED BY <1>1, <1>2, <2>2, <2>3 DEF ColumnTold
<1>. QED BY <1>1, <1>2, <1>5, <1>7, <1>8, <1>9 DEF KioskInv

\* The oldest answer goes out.
LEMMA SendKiosks ==
  ASSUME KioskInv, answers # << >>, Send(1)
  PROVE  KioskInv'
<1>. DEFINE n == Len(answers)  sent == answers[1]
<1>0. TypeOK /\ QueueFits
  BY DEF KioskInv
<1>1. DOMAIN answers = 1 .. n /\ n \in Nat
  BY <1>0, Listed DEF QueueFits
<1>2. 1 \in DOMAIN answers
  BY <1>0, <1>1 DEF QueueFits, IsList
<1>3. /\ QueueFits' /\ Len(answers') = n - 1 /\ DOMAIN answers' = 1 .. n - 1
      /\ \A k \in 1 .. n - 1 : answers'[k] = IF k < 1 THEN answers[k] ELSE answers[k + 1]
  BY <1>0, <1>2, QueueSent
<1>4. \A k \in 1 .. n - 1 : answers'[k] = answers[k + 1] /\ k + 1 \in DOMAIN answers
  BY <1>1, <1>3
<1>5. TypeOK' /\ fights' = fights
  BY <1>0, NothingCommitted DEF Send
<1>6. IsList(sent)
  BY <1>0, <1>2 DEF QueueFits
<1>. HIDE DEF n, sent
<1>7. \A m \in DOMAIN answers : m # 1 => m - 1 \in 1 .. n - 1 /\ answers'[m - 1] = answers[m]
  <2>1. ASSUME NEW m \in DOMAIN answers, m # 1
        PROVE  m - 1 \in 1 .. n - 1 /\ answers'[m - 1] = answers[m]
    <3>1. m - 1 \in 1 .. n - 1 /\ (m - 1) + 1 = m
      BY <1>1, <2>1
    <3>. QED BY <1>4, <3>1
  <2>. QED BY <2>1
<1>8. \/ Carries(sent, "reset") /\ FetchesAgain
      \/ ~Carries(sent, "reset") /\ Shows(sent)
  BY DEF Send, sent
<1>9. ScreenTyped'
  <2>1. CASE FetchesAgain
    BY <2>1, ProjectionAre DEF FetchesAgain, ScreenTyped
  <2>2. CASE Shows(sent)
    <3>1. screen' = [f \in DOMAIN screen \cup FightsOf(sent) |-> Shown(f, sent)]
      BY <2>2 DEF Shows
    <3>2. \A f : Shown(f, sent) = [c \in Columns |-> Shown(f, sent)[c]]
      BY DEF Shown
    <3>. HIDE DEF sent
    <3>. QED BY <3>1, <3>2 DEF ScreenTyped
  <2>. QED BY <1>8, <2>1, <2>2
<1>10. FramesHaveFights'
  <2>1. ASSUME NEW k \in 1 .. n - 1,
               \A m \in k .. n - 1 : ~Carries(answers'[m], "reset")
        PROVE  FightsOf(answers'[k]) \subseteq DOMAIN fights
    <3>1. ASSUME NEW m \in k + 1 .. n PROVE ~Carries(answers[m], "reset")
      <4>1. m \in DOMAIN answers /\ m # 1 /\ m - 1 \in k .. n - 1
        BY <1>1
      <4>. QED BY <1>7, <2>1, <4>1
    <3>2. FightsOf(answers[k + 1]) \subseteq DOMAIN fights
      BY <1>4, <3>1 DEF KioskInv, FramesHaveFights, n
    <3>. QED BY <1>4, <3>2
  <2>. QED BY <1>3, <1>5, <2>1 DEF FramesHaveFights
<1>11. ScreenHasFights'
  <2>1. ASSUME \A k \in 1 .. n - 1 : ~Carries(answers'[k], "reset")
        PROVE  DOMAIN screen' \subseteq DOMAIN fights
    <3>1. CASE FetchesAgain
      BY <3>1 DEF FetchesAgain
    <3>2. CASE ~Carries(sent, "reset") /\ Shows(sent)
      <4>1. \A k \in DOMAIN answers : ~Carries(answers[k], "reset")
        BY <1>7, <2>1, <3>2 DEF sent
      <4>2. DOMAIN screen \subseteq DOMAIN fights
        BY <4>1 DEF KioskInv, ScreenHasFights
      <4>3. \A m \in 1 .. n : m \in DOMAIN answers
        BY <1>1
      <4>4. FightsOf(sent) \subseteq DOMAIN fights
        BY <1>2, <4>1, <4>3 DEF KioskInv, FramesHaveFights, sent, n
      <4>5. DOMAIN screen' = DOMAIN screen \cup FightsOf(sent)
        BY <3>2 DEF Shows
      <4>. QED BY <4>2, <4>4, <4>5
    <3>. QED BY <1>8, <3>1, <3>2
  <2>. QED BY <1>3, <1>5, <2>1 DEF ScreenHasFights
<1>12. ASSUME NEW f \in DOMAIN fights, NEW c \in Columns PROVE ColumnTold(f, c)'
  <2>0. ColumnTold(f, c)
    BY DEF KioskInv
  <2>1. ASSUME NEW k \in 1 .. n - 1, ~Carries(answers'[k], "reset"),
               \A m \in k + 1 .. n - 1 : ~Says(answers'[m], f, c),
               NEW j \in Telling(answers'[k], f, c)
        PROVE  answers'[k][j].row[c] = Projection(fights[f])[c]
    <3>1. ASSUME NEW m \in (k + 1) + 1 .. n PROVE ~Says(answers[m], f, c)
      <4>1. m \in DOMAIN answers /\ m # 1 /\ m - 1 \in k + 1 .. n - 1
        BY <1>1
      <4>. QED BY <1>7, <2>1, <4>1
    <3>2. k + 1 \in DOMAIN answers /\ answers'[k] = answers[k + 1]
      BY <1>4
    <3>. QED BY <2>0, <2>1, <3>1, <3>2 DEF ColumnTold, n
  <2>2. ASSUME \A k \in 1 .. n - 1 : ~Says(answers'[k], f, c)
        PROVE  f \in DOMAIN screen' /\ screen'[f][c] = Projection(fights[f])[c]
    <3>1. \A m \in DOMAIN answers : m # 1 => ~Says(answers[m], f, c)
      BY <1>7, <2>2
    <3>2. CASE FetchesAgain
      BY <3>2 DEF FetchesAgain
    <3>3. CASE ~Carries(sent, "reset") /\ Shows(sent)
      <4>1. screen' = [g \in DOMAIN screen \cup FightsOf(sent) |-> Shown(g, sent)]
        BY <3>3 DEF Shows
      <4>2. CASE Telling(sent, f, c) = {}
        <5>1. \A m \in DOMAIN answers : ~Says(answers[m], f, c)
          BY <3>1, <3>3, <4>2 DEF Says, sent
        <5>2. f \in DOMAIN screen /\ screen[f][c] = Projection(fights[f])[c]
          BY <2>0, <5>1 DEF ColumnTold
        <5>3. Shown(f, sent)[c] = screen[f][c]
          BY <4>2, <5>2 DEF Shown
        <5>. QED BY <4>1, <5>2, <5>3
      <4>3. CASE Telling(sent, f, c) # {}
        <5>1. \A m \in 1 + 1 .. n : m \in DOMAIN answers /\ m # 1
          BY <1>1
        <5>2. \A j \in Telling(sent, f, c) : sent[j].row[c] = Projection(fights[f])[c]
          BY <1>2, <2>0, <3>1, <3>3, <5>1 DEF ColumnTold, n, sent
        <5>3. Max(Telling(sent, f, c)) \in Telling(sent, f, c)
          <6>1. Len(sent) \in Nat /\ Telling(sent, f, c) \subseteq 1 .. Len(sent)
            BY <1>6, Listed DEF Telling
          <6>. QED BY <4>3, <6>1, Greatest
        <5>4. Shown(f, sent)[c] = sent[Max(Telling(sent, f, c))].row[c]
          BY <4>3 DEF Shown
        <5>5. f \in FightsOf(sent)
          BY <4>3 DEF FightsOf, Telling
        <5>. QED BY <4>1, <5>2, <5>3, <5>4, <5>5
      <4>. QED BY <4>2, <4>3
    <3>. QED BY <1>8, <3>2, <3>3
  <2>. QED BY <1>3, <1>5, <2>1, <2>2 DEF ColumnTold
<1>. QED BY <1>3, <1>5, <1>9, <1>10, <1>11, <1>12 DEF KioskInv

LEMMA NextKiosks == KioskInv /\ [OrderlyNext]_apiVars => KioskInv'
<1>. SUFFICES ASSUME KioskInv, [OrderlyNext]_apiVars PROVE KioskInv'
  OBVIOUS
<1>1. CASE UNCHANGED apiVars
  <2>1. UNCHANGED vars /\ answers' = answers /\ screen' = screen
    BY <1>1 DEF apiVars
  <2>2. TypeOK' /\ fights' = fights
    BY <2>1, NothingCommitted DEF KioskInv
  <2>. QED BY <2>1, <2>2 DEF KioskInv, QueueFits, ScreenTyped, FramesHaveFights, ScreenHasFights,
         ColumnTold
<1>. QED BY <1>1, RequestKiosks, ReadKiosks, SendKiosks DEF OrderlyNext, AnsweringInOrder

(***************************************************************************)
(* When requests broadcast in the order in which they committed, however   *)
(* many overlap, the kiosks end up showing of each fight the status, the   *)
(* pools and the held sides that are in the table: no route changes one of *)
(* them without a frame that tells, and no frame tells of a fight that a   *)
(* reset has removed.                                                      *)
(***************************************************************************)
THEOREM KiosksFollow == OrderlySpec => []KiosksInSync
<1>1. ApiInit => KioskInv
  BY InitKiosks
<1>2. KioskInv /\ [OrderlyNext]_apiVars => KioskInv'
  BY NextKiosks
<1>3. KioskInv => KiosksInSync
  <2>. SUFFICES ASSUME KioskInv, answers = << >>
                PROVE  screen = [f \in DOMAIN fights |-> Projection(fights[f])]
    BY DEF KiosksInSync, Settling
  <2>1. DOMAIN answers = {}
    OBVIOUS
  <2>2. \A f \in DOMAIN fights, c \in Columns :
          f \in DOMAIN screen /\ screen[f][c] = Projection(fights[f])[c]
    BY <2>1 DEF KioskInv, ColumnTold
  <2>3. DOMAIN screen \subseteq DOMAIN fights
    BY <2>1 DEF KioskInv, ScreenHasFights
  <2>4. DOMAIN screen = DOMAIN fights
    BY <2>2, <2>3 DEF Columns
  <2>5. ASSUME NEW f \in DOMAIN fights PROVE screen[f] = Projection(fights[f])
    <3>1. screen[f] = [c \in Columns |-> screen[f][c]]
      BY <2>4 DEF KioskInv, ScreenTyped
    <3>2. Projection(fights[f]) = [c \in Columns |-> Projection(fights[f])[c]]
      BY ProjectionAre
    <3>. QED BY <2>2, <3>1, <3>2
  <2>. QED BY <2>4, <2>5 DEF KioskInv, ScreenTyped
<1>. QED BY <1>1, <1>2, <1>3, PTL DEF OrderlySpec

-----------------------------------------------------------------------------
(* The dashboard's drawers                                                 *)

LEMMA InitTills == ApiInit => TillInv
<1>. SUFFICES ASSUME ApiInit PROVE TillInv
  OBVIOUS
<1>1. TypeOK
  BY InitType DEF ApiInit
<1>2. QueueFits /\ answers = << >>
  BY DEF ApiInit, QueueFits, IsList
<1>3. \A t \in Tellers : tills[t] = 0
  BY DEF ApiInit
<1>4. ASSUME NEW t \in Tellers PROVE Balance(t) = 0
  <2>1. LedgerIsCash /\ drawer[t] = 0
    BY InitCash DEF ApiInit, Init
  <2>. QED BY <2>1 DEF LedgerIsCash
<1>5. DOMAIN answers = {}
  BY <1>2
<1>. QED BY <1>1, <1>2, <1>3, <1>4, <1>5 DEF TillInv, TillTold

LEMMA RequestTills == TillInv /\ Requesting => TillInv'
<1>. SUFFICES ASSUME TillInv, Requesting PROVE TillInv'
  OBVIOUS
<1>. DEFINE n == Len(answers)
<1>0. TypeOK /\ QueueFits
  BY DEF TillInv
<1>1. PICK frames : IsList(frames) /\ Answer(frames) /\ FrameNews(frames)
  BY <1>0, RequestNews
<1>2. TypeOK'
  BY <1>0, RequestNews
<1>3. /\ QueueFits' /\ DOMAIN answers = 1 .. n /\ n \in Nat
      /\ DOMAIN answers' = 1 .. n + 1 /\ Len(answers') = n + 1
      /\ \A k \in 1 .. n : answers'[k] = answers[k]
      /\ answers'[n + 1] = frames
  BY <1>0, <1>1, QueueGrows
<1>4. tills' = tills
  BY <1>1 DEF Answer
<1>. HIDE DEF n
<1>5. n + 1 \in DOMAIN answers'
  BY <1>3
<1>6. Carries(frames, "reset") \/ TillNews(frames)
  BY <1>1 DEF FrameNews, News
<1>7. ASSUME NEW t \in Tellers PROVE TillTold(t)'
  <2>0. TillTold(t)
    BY DEF TillInv
  <2>1. ~Speaks(frames, t) => Balance(t)' = Balance(t)
    BY <1>6 DEF TillNews, Speaks, Balance
  <2>2. ASSUME NEW k \in DOMAIN answers', ~Carries(answers'[k], "reset"),
               \A m \in k + 1 .. Len(answers') : ~Speaks(answers'[m], t),
               NEW j \in DOMAIN answers'[k], answers'[k][j].about = "till",
               answers'[k][j].teller = t, answers'[k][j].known
        PROVE  answers'[k][j].balance = Balance(t)'
    <3>1. CASE k = n + 1
      <4>1. answers'[k] = frames
        BY <1>3, <3>1
      <4>. QED BY <1>6, <2>2, <4>1 DEF TillNews, Balance
    <3>2. CASE k # n + 1
      <4>1. k \in DOMAIN answers /\ answers'[k] = answers[k] /\ n + 1 \in k + 1 .. Len(answers')
        BY <1>3, <3>2
      <4>2. \A m \in k + 1 .. n : m \in k + 1 .. Len(answers') /\ answers'[m] = answers[m]
        BY <1>3, <4>1
      <4>3. ~Speaks(frames, t)
        BY <1>3, <2>2, <4>1
      <4>4. \A m \in k + 1 .. Len(answers) : ~Speaks(answers[m], t)
        BY <2>2, <4>2 DEF n
      <4>5. answers[k][j].balance = Balance(t)
        BY <2>0, <2>2, <4>1, <4>4 DEF TillTold
      <4>. QED BY <2>1, <4>1, <4>3, <4>5
    <3>. QED BY <3>1, <3>2
  <2>3. ASSUME \A k \in DOMAIN answers' : ~Speaks(answers'[k], t)
        PROVE  tills'[t] = Balance(t)'
    <3>1. ~Speaks(frames, t)
      BY <1>3, <1>5, <2>3
    <3>2. \A k \in DOMAIN answers : ~Speaks(answers[k], t)
      <4>1. \A k \in DOMAIN answers : k \in DOMAIN answers' /\ answers'[k] = answers[k]
        BY <1>3
      <4>. QED BY <2>3, <4>1
    <3>3. tills[t] = Balance(t)
      BY <2>0, <3>2 DEF TillTold
    <3>. QED BY <1>4, <2>1, <3>1, <3>3
  <2>. QED BY <2>2, <2>3 DEF TillTold
<1>. QED BY <1>2, <1>3, <1>7 DEF TillInv

\* The balance that is read is the ledger's.
LEMMA ReadTills ==
  ASSUME TillInv, NEW i \in DOMAIN answers, ReadBalances(i)
  PROVE  TillInv'
<1>0. TypeOK /\ QueueFits
  BY DEF TillInv
<1>1. /\ QueueFits' /\ DOMAIN answers' = DOMAIN answers /\ Len(answers') = Len(answers)
      /\ \A k \in DOMAIN answers : k # i => answers'[k] = answers[k]
      /\ DOMAIN answers'[i] = DOMAIN answers[i]
      /\ \A j \in DOMAIN answers[i] : answers'[i][j] = WithBalance(answers[i][j])
  BY <1>0, QueueRead
<1>2. TypeOK' /\ tills' = tills /\ \A t : Balance(t)' = Balance(t)
  BY <1>0, NothingCommitted DEF ReadBalances
<1>3. ASSUME NEW k \in DOMAIN answers
      PROVE  /\ DOMAIN answers'[k] = DOMAIN answers[k]
             /\ \A j \in DOMAIN answers[k] :
                  /\ answers'[k][j].about = answers[k][j].about
                  /\ answers[k][j].about = "till" => answers'[k][j].teller = answers[k][j].teller
                  /\ \/ answers'[k][j] = answers[k][j]
                     \/ answers'[k][j].balance = Balance(answers[k][j].teller)
  <2>1. CASE k = i
    <3>1. ASSUME NEW j \in DOMAIN answers[i]
          PROVE  /\ answers'[i][j].about = answers[i][j].about
                 /\ answers[i][j].about = "till" => answers'[i][j].teller = answers[i][j].teller
                 /\ \/ answers'[i][j] = answers[i][j]
                    \/ answers'[i][j].balance = Balance(answers[i][j].teller)
      <4>1. CASE Unread(answers[i][j])
        BY <1>1, <4>1, ReadFrame
      <4>2. CASE ~Unread(answers[i][j])
        BY <1>1, <4>2, ReadFrame
      <4>. QED BY <4>1, <4>2
    <3>. QED BY <1>1, <2>1, <3>1
  <2>2. CASE k # i
    BY <1>1, <2>2
  <2>. QED BY <2>1, <2>2
<1>4. ASSUME NEW k \in DOMAIN answers
      PROVE  /\ Carries(answers'[k], "reset") <=> Carries(answers[k], "reset")
             /\ \A t : TellsTill(answers'[k], t) <=> TellsTill(answers[k], t)
  BY <1>3 DEF Carries, TellsTill
<1>5. DOMAIN answers = 1 .. Len(answers) /\ Len(answers) \in Nat
  BY <1>0, Listed DEF QueueFits
<1>6. ASSUME NEW t \in Tellers PROVE TillTold(t)'
  <2>0. TillTold(t)
    BY DEF TillInv
  <2>1. \A k \in DOMAIN answers : Speaks(answers'[k], t) <=> Speaks(answers[k], t)
    BY <1>4 DEF Speaks
  <2>2. ASSUME NEW k \in DOMAIN answers, ~Carries(answers'[k], "reset"),
               \A m \in k + 1 .. Len(answers) : ~Speaks(answers'[m], t),
               NEW j \in DOMAIN answers'[k], answers'[k][j].about = "till",
               answers'[k][j].teller = t, answers'[k][j].known
        PROVE  answers'[k][j].balance = Balance(t)
    <3>1. \A m \in k + 1 .. Len(answers) : m \in DOMAIN answers
      BY <1>5
    <3>2. \A m \in k + 1 .. Len(answers) : ~Speaks(answers[m], t)
      BY <2>1, <2>2, <3>1
    <3>3. j \in DOMAIN answers[k] /\ ~Carries(answers[k], "reset")
          /\ answers[k][j].about = "till" /\ answers[k][j].teller = t
      BY <1>3, <1>4, <2>2
    <3>4. CASE answers'[k][j] = answers[k][j]
      BY <2>0, <2>2, <3>2, <3>3, <3>4 DEF TillTold
    <3>5. CASE answers'[k][j].balance = Balance(answers[k][j].teller)
      BY <3>3, <3>5
    <3>. QED BY <1>3, <3>3, <3>4, <3>5
  <2>3. (\A k \in DOMAIN answers : ~Speaks(answers'[k], t)) => tills[t] = Balance(t)
    BY <2>0, <2>1 DEF TillTold
  <2>. QED BY <1>1, <1>2, <2>2, <2>3 DEF TillTold
<1>. QED BY <1>1, <1>2, <1>6 DEF TillInv

LEMMA SendTills ==
  ASSUME TillInv, answers # << >>, Send(1)
  PROVE  TillInv'
<1>. DEFINE n == Len(answers)  sent == answers[1]
<1>0. TypeOK /\ QueueFits
  BY DEF TillInv
<1>1. DOMAIN answers = 1 .. n /\ n \in Nat
  BY <1>0, Listed DEF QueueFits
<1>2. 1 \in DOMAIN answers
  BY <1>0, <1>1 DEF QueueFits, IsList
<1>3. /\ QueueFits' /\ Len(answers') = n - 1 /\ DOMAIN answers' = 1 .. n - 1
      /\ \A k \in 1 .. n - 1 : answers'[k] = IF k < 1 THEN answers[k] ELSE answers[k + 1]
  BY <1>0, <1>2, QueueSent
<1>4. \A k \in 1 .. n - 1 : answers'[k] = answers[k + 1] /\ k + 1 \in DOMAIN answers
  BY <1>1, <1>3
<1>5. TypeOK' /\ \A t : Balance(t)' = Balance(t)
  BY <1>0, NothingCommitted DEF Send
<1>6. \A j \in DOMAIN sent : ~Unread(sent[j])
  BY DEF Send
<1>. HIDE DEF n, sent
<1>7. \A m \in DOMAIN answers : m # 1 => m - 1 \in 1 .. n - 1 /\ answers'[m - 1] = answers[m]
  <2>1. ASSUME NEW m \in DOMAIN answers, m # 1
        PROVE  m - 1 \in 1 .. n - 1 /\ answers'[m - 1] = answers[m]
    <3>1. m - 1 \in 1 .. n - 1 /\ (m - 1) + 1 = m
      BY <1>1, <2>1
    <3>. QED BY <1>4, <3>1
  <2>. QED BY <2>1
<1>8. \/ Carries(sent, "reset") /\ FetchesAgain
      \/ ~Carries(sent, "reset") /\ Shows(sent)
  BY DEF Send, sent
<1>9. ASSUME NEW t \in Tellers PROVE TillTold(t)'
  <2>0. TillTold(t)
    BY DEF TillInv
  <2>1. ASSUME NEW k \in 1 .. n - 1, ~Carries(answers'[k], "reset"),
               \A m \in k + 1 .. n - 1 : ~Speaks(answers'[m], t),
               NEW j \in DOMAIN answers'[k], answers'[k][j].about = "till",
               answers'[k][j].teller = t, answers'[k][j].known
        PROVE  answers'[k][j].balance = Balance(t)
    <3>1. ASSUME NEW m \in (k + 1) + 1 .. n PROVE ~Speaks(answers[m], t)
      <4>1. m \in DOMAIN answers /\ m # 1 /\ m - 1 \in k + 1 .. n - 1
        BY <1>1
      <4>. QED BY <1>7, <2>1, <4>1
    <3>2. k + 1 \in DOMAIN answers /\ answers'[k] = answers[k + 1]
      BY <1>4
    <3>. QED BY <2>0, <2>1, <3>1, <3>2 DEF TillTold, n
  <2>2. ASSUME \A k \in 1 .. n - 1 : ~Speaks(answers'[k], t)
        PROVE  tills'[t] = Balance(t)
    <3>1. \A m \in DOMAIN answers : m # 1 => ~Speaks(answers[m], t)
      BY <1>7, <2>2
    <3>2. CASE FetchesAgain
      BY <3>2 DEF FetchesAgain
    <3>3. CASE ~Carries(sent, "reset") /\ Shows(sent)
      <4>1. tills'[t] = IF TillIn(sent, t) = {} THEN tills[t] ELSE CHOOSE a \in TillIn(sent, t) : TRUE
        BY <3>3 DEF Shows
      <4>2. CASE TillIn(sent, t) = {}
        <5>1. ~TellsTill(sent, t)
          BY <4>2 DEF TillIn, TellsTill
        <5>2. \A m \in DOMAIN answers : ~Speaks(answers[m], t)
          BY <3>1, <3>3, <5>1 DEF Speaks, sent
        <5>. QED BY <2>0, <4>1, <4>2, <5>2 DEF TillTold
      <4>3. CASE TillIn(sent, t) # {}
        <5>1. \A m \in 1 + 1 .. n : m \in DOMAIN answers /\ m # 1
          BY <1>1
        <5>2. \A j \in DOMAIN sent :
                sent[j].about = "till" /\ sent[j].teller = t => sent[j].balance = Balance(t)
          BY <1>2, <1>6, <2>0, <3>1, <3>3, <5>1 DEF TillTold, Unread, n, sent
        <5>3. \A a \in TillIn(sent, t) : a = Balance(t)
          BY <5>2 DEF TillIn
        <5>. QED BY <4>1, <4>3, <5>3
      <4>. QED BY <4>2, <4>3
    <3>. QED BY <1>8, <3>2, <3>3
  <2>. QED BY <1>3, <1>5, <2>1, <2>2 DEF TillTold
<1>. QED BY <1>3, <1>5, <1>9 DEF TillInv

LEMMA NextTills == TillInv /\ [OrderlyNext]_apiVars => TillInv'
<1>. SUFFICES ASSUME TillInv, [OrderlyNext]_apiVars PROVE TillInv'
  OBVIOUS
<1>1. CASE UNCHANGED apiVars
  <2>1. UNCHANGED vars /\ answers' = answers /\ tills' = tills
    BY <1>1 DEF apiVars
  <2>2. TypeOK' /\ \A t : Balance(t)' = Balance(t)
    BY <2>1, NothingCommitted DEF TillInv
  <2>. QED BY <2>1, <2>2 DEF TillInv, QueueFits, TillTold
<1>. QED BY <1>1, RequestTills, ReadTills, SendTills DEF OrderlyNext, AnsweringInOrder

(***************************************************************************)
(* In that order too, the dashboard ends up showing every drawer's balance *)
(* of the ledger, whether the balance was read in the transaction or, as   *)
(* the ticket routes do, between the commit and the broadcast, when the    *)
(* next request may have moved it already.                                 *)
(***************************************************************************)
THEOREM DashboardFollows == OrderlySpec => []DashboardInSync
<1>1. ApiInit => TillInv
  BY InitTills
<1>2. TillInv /\ [OrderlyNext]_apiVars => TillInv'
  BY NextTills
<1>3. TillInv => DashboardInSync
  <2>. SUFFICES ASSUME TillInv, answers = << >>, NEW t \in Tellers PROVE tills[t] = Balance(t)
    BY DEF DashboardInSync, Settling
  <2>1. DOMAIN answers = {}
    OBVIOUS
  <2>. QED BY <2>1 DEF TillInv, TillTold
<1>. QED BY <1>1, <1>2, <1>3, PTL DEF OrderlySpec

-----------------------------------------------------------------------------
(* The tables behind the routes                                            *)

EveningInv == LedgerIsCash /\ PoolInv /\ LedgerInv /\ ReportInv

LEMMA InitEvening == Init => EveningInv
<1>1. Init => PoolInv
  BY InitType DEF Init, PoolInv, PoolsMatchStakes, NothingPurgedEarly
<1>2. Init => LedgerInv
  BY InitType DEF Init, LedgerInv, TicketInv, SettledHasOutcome, TicketsFollowFight,
    LedgerMatchesTickets
<1>. QED BY <1>1, <1>2, InitCash, InitReport DEF EveningInv

LEMMA NextEvening == EveningInv /\ [Next]_vars => EveningInv'
<1>1. LedgerInv => TypeOK
  BY DEF LedgerInv, TicketInv
<1>2. LedgerInv /\ [Next]_vars => LedgerInv'
  BY NextFits, NextMatches DEF LedgerInv
<1>. QED BY <1>1, <1>2, NextCash, NextPools, NextReport DEF EveningInv

(***************************************************************************)
(* The routes do to the tables what the services do, or, at the end of an  *)
(* evening, empty them: however many evenings and requests, every drawer   *)
(* holds what the ledger says, every pool the stakes, the ledger one row   *)
(* for every movement of a ticket, and the drawers half the commission.    *)
(***************************************************************************)
THEOREM EveningsSound ==
  ApiSpec => [](TypeOK /\ LedgerIsCash /\ PoolsMatchStakes /\ LedgerMatchesTickets
                  /\ HalfIsWithheld)
<1>1. ApiInit => EveningInv
  BY InitEvening DEF ApiInit
<1>2. EveningInv /\ [ApiNext]_apiVars => EveningInv'
  <2>. SUFFICES ASSUME EveningInv, [ApiNext]_apiVars PROVE EveningInv'
    OBVIOUS
  <2>1. TypeOK
    BY DEF EveningInv, PoolInv
  <2>2. CASE Requesting
    <3>1. Init' => EveningInv'
      BY InitEvening, PTL
    <3>. QED BY <2>1, <2>2, <3>1, RequestSteps, NextEvening
  <2>3. CASE UNCHANGED vars
    BY <2>3, NextEvening
  <2>4. Answering \/ UNCHANGED apiVars => UNCHANGED vars
    BY DEF Answering, ReadBalances, Send, apiVars
  <2>. QED BY <2>2, <2>3, <2>4 DEF ApiNext
<1>3. EveningInv => TypeOK /\ LedgerIsCash /\ PoolsMatchStakes /\ LedgerMatchesTickets
                    /\ HalfIsWithheld
  BY InvWithheld DEF EveningInv, PoolInv, LedgerInv
<1>. QED BY <1>1, <1>2, <1>3, PTL DEF ApiSpec

-----------------------------------------------------------------------------
(* Lists: what the invariants say                                          *)

Keys == BetIds \cup Nat

\* The places are a numbering of tickets, with those in the table among them.
Placed ==
  /\ IsFiniteSet(DOMAIN created)
  /\ DOMAIN created \subseteq BetIds
  /\ created \in [DOMAIN created -> Nat]
  /\ \A x, y \in DOMAIN created : created[x] = created[y] => x = y
  /\ DOMAIN bets \subseteq DOMAIN created

Walks ==
  [step : {"more", "over"}, cursor : SUBSET Keys, list : Lists, filter : Filters,
   limit : Limits, seen : Seq(Keys), staying : SUBSET Keys]

\* Listed so far: rows of the list, each newer than the next.
Descends(list, ids) ==
  /\ \A i \in DOMAIN ids : ids[i] \in DOMAIN When(list)
  /\ \A i, j \in DOMAIN ids : i < j => When(list)[ids[j]] < When(list)[ids[i]]

\* A row that stays is on a page already, or older than the cursor.
Ahead(list, ids, x) ==
  \/ \E i \in DOMAIN ids : ids[i] = x
  \/ ids # << >> /\ When(list)[x] < When(list)[ids[Len(ids)]]

WalkFits(w) ==
  /\ w \in Walks
  /\ Descends(w.list, w.seen)
  /\ w.staying \subseteq Passing(w.list, w.filter)
  /\ w.step = "more" =>
       /\ w.seen # << >> /\ w.cursor = {w.seen[Len(w.seen)]}
       /\ w.cursor \subseteq Passing(w.list, w.filter)
       /\ \A x \in w.staying : Ahead(w.list, w.seen, x)
  /\ w.step = "over" => \A x \in w.staying : \E i \in DOMAIN w.seen : w.seen[i] = x

WalkInv == TypeOK /\ Placed /\ (walk = AtHome \/ WalkFits(walk))

QueryRows == [group : DOMAIN Groups, rows : Seq(Nat)]

\* A fight that has been live since the first query is found by the query
\* for live ones, or may still be.
ReadsInv ==
  /\ TypeOK
  /\ reads \in [limit : Nat, queries : Seq(QueryRows), live : SUBSET Nat]
  /\ reads.live \subseteq Live
  /\ \A i, j \in DOMAIN reads.queries :
       reads.queries[i].group = reads.queries[j].group => i = j
  /\ reads.queries # << >> => reads.limit > 0
  /\ \A i \in DOMAIN reads.queries :
       reads.queries[i].group = "live" /\ reads.live # {} => reads.queries[i].rows # << >>

-----------------------------------------------------------------------------
(* Pages of a list                                                         *)

\* The rows of a list differ in what it is ordered by.
Ordered(list, rows) ==
  /\ IsFiniteSet(rows)
  /\ \A x \in rows : When(list)[x] \in Nat
  /\ \A x, y \in rows : When(list)[x] = When(list)[y] => x = y

Descending(list, ids, n) ==
  \A i, j \in 1 .. n : i < j => When(list)[ids[j]] < When(list)[ids[i]]

\* They can be put in order: the oldest goes to the end.
LEMMA OrderExists ==
  ASSUME NEW list, NEW rows, Ordered(list, rows)
  PROVE  \E ids \in [1 .. Cardinality(rows) -> rows] : Descending(list, ids, Cardinality(rows))
<1>. DEFINE at(x) == When(list)[x]
            Good(T) == \E ids \in [1 .. Cardinality(T) -> T] : Descending(list, ids, Cardinality(T))
            G == {T \in SUBSET rows : Good(T)}
<1>0. /\ IsFiniteSet(rows)
      /\ \A x \in rows : at(x) \in Nat
      /\ \A x, y \in rows : at(x) = at(y) => x = y
  BY DEF Ordered
<1>. HIDE DEF Good
<1>1. ASSUME NEW T \in SUBSET rows, \A x \in T : T \ {x} \in G PROVE T \in G
  <2>1. CASE T = {}
    <3>1. Cardinality(T) = 0
      BY <2>1, FS_EmptySet
    <3>2. [i \in 1 .. 0 |-> i] \in [1 .. Cardinality(T) -> T]
      BY <3>1
    <3>3. Descending(list, [i \in 1 .. 0 |-> i], Cardinality(T))
      BY <3>1 DEF Descending
    <3>4. Good(T)
      BY <3>2, <3>3 DEF Good
    <3>. QED BY <3>4
  <2>2. CASE T # {}
    <3>. DEFINE A == {at(x) : x \in T}
    <3>1. A \subseteq Nat /\ A # {}
      BY <1>0, <2>2
    <3>. HIDE DEF A
    <3>2. PICK a \in A : \A c \in A : a <= c
      BY <3>1, LeastNatural
    <3>3. PICK m \in T : a = at(m)
      BY <3>2 DEF A
    <3>4. \A x \in T : at(m) <= at(x)
      BY <3>2, <3>3 DEF A
    <3>. DEFINE U == T \ {m}  n == Cardinality(T)
    <3>5. IsFiniteSet(T) /\ n \in Nat /\ Cardinality(U) = n - 1 /\ Cardinality(U) \in Nat
      <4>1. IsFiniteSet(T) /\ n \in Nat
        BY <1>0, FS_Subset, FS_CardinalityType
      <4>2. IsFiniteSet(U) /\ Cardinality(U) = n - 1
        BY <4>1, FS_RemoveElement
      <4>. QED BY <4>1, <4>2, FS_CardinalityType
    <3>6. PICK old \in [1 .. n - 1 -> U] : Descending(list, old, n - 1)
      BY <1>1, <3>5 DEF Good
    <3>. DEFINE ids == [i \in 1 .. n |-> IF i = n THEN m ELSE old[i]]
    <3>. HIDE DEF n, U
    <3>7. \A i \in 1 .. n : i # n => i \in 1 .. n - 1
      BY <3>5
    <3>8. \A i \in 1 .. n : ids[i] \in T
      <4>1. U \subseteq T
        BY DEF U
      <4>. QED BY <3>6, <3>7, <4>1
    <3>9. Descending(list, ids, n)
      <4>1. SUFFICES ASSUME NEW i \in 1 .. n, NEW j \in 1 .. n, i < j
                     PROVE  at(ids[j]) < at(ids[i])
        BY DEF Descending
      <4>2. i \in 1 .. n - 1 /\ ids[i] = old[i] /\ old[i] \in U
        BY <3>5, <3>6, <4>1
      <4>3. CASE j = n
        <5>1. old[i] \in T /\ old[i] # m
          BY <4>2 DEF U
        <5>2. at(m) <= at(old[i]) /\ at(m) # at(old[i]) /\ at(m) \in Nat /\ at(old[i]) \in Nat
          BY <1>0, <3>4, <5>1
        <5>3. ids[j] = m
          BY <4>3
        <5>. HIDE DEF at, ids
        <5>. QED BY <4>2, <5>2, <5>3
      <4>4. CASE j # n
        <5>1. j \in 1 .. n - 1 /\ ids[j] = old[j]
          BY <3>7, <4>4
        <5>. QED BY <3>6, <4>1, <4>2, <5>1 DEF Descending
      <4>. QED BY <4>3, <4>4
    <3>10. ids \in [1 .. n -> T]
      BY <3>8
    <3>11. Good(T)
      BY <3>9, <3>10 DEF Good, n
    <3>. QED BY <3>11
  <2>. QED BY <2>1, <2>2
<1>2. rows \in G
  <2>. HIDE DEF G
  <2>. QED BY <1>0, <1>1, SubsetInduction
<1>. QED BY <1>2 DEF Good

\* NewestFirst lists every row once, in order.
LEMMA NewestFirstLists ==
  ASSUME NEW list, NEW rows, Ordered(list, rows)
  PROVE  /\ IsList(NewestFirst(list, rows))
         /\ Len(NewestFirst(list, rows)) = Cardinality(rows)
         /\ DOMAIN NewestFirst(list, rows) = 1 .. Cardinality(rows)
         /\ \A i \in 1 .. Cardinality(rows) : NewestFirst(list, rows)[i] \in rows
         /\ Descending(list, NewestFirst(list, rows), Cardinality(rows))
         /\ \A x \in rows : \E i \in 1 .. Cardinality(rows) : NewestFirst(list, rows)[i] = x
<1>. DEFINE ids == NewestFirst(list, rows)  n == Cardinality(rows)
<1>1. n \in Nat /\ IsFiniteSet(rows)
  BY FS_CardinalityType DEF Ordered
<1>2. ids \in [1 .. n -> rows] /\ Descending(list, ids, n)
  <2>1. \E s \in [1 .. n -> rows] :
          \A i, j \in 1 .. n : i < j => When(list)[s[j]] < When(list)[s[i]]
    BY OrderExists DEF Descending
  <2>. QED BY <2>1 DEF NewestFirst, Descending
<1>. HIDE DEF ids
<1>3. IsList(ids) /\ Len(ids) = n
  <2>. HIDE DEF n
  <2>1. DOMAIN ids = 1 .. n /\ ids = [i \in 1 .. n |-> ids[i]]
    BY <1>2
  <2>. QED BY <1>1, <2>1, Indexed
<1>4. ids \in Injection(1 .. n, rows)
  <2>1. ASSUME NEW i \in 1 .. n, NEW j \in 1 .. n, ids[i] = ids[j] PROVE i = j
    <3>. HIDE DEF n
    <3>1. ids[i] \in rows
      BY <1>2
    <3>2. When(list)[ids[i]] \in Nat
      BY <3>1 DEF Ordered
    <3>3. ~(i < j)
      BY <1>2, <2>1, <3>2 DEF Descending
    <3>4. ~(j < i)
      BY <1>2, <2>1, <3>2 DEF Descending
    <3>. QED BY <1>1, <3>3, <3>4
  <2>. QED BY <1>2, <2>1 DEF Injection, IsInjective
<1>5. ids \in Surjection(1 .. n, rows)
  <2>1. Cardinality(1 .. n) = n /\ IsFiniteSet(1 .. n)
    BY <1>1, FS_Interval
  <2>. HIDE DEF n
  <2>2. Cardinality(1 .. n) = Cardinality(rows)
    BY <2>1 DEF n
  <2>. QED BY <1>1, <1>4, <2>2, FS_Injection
<1>6. \A x \in rows : \E i \in 1 .. n : ids[i] = x
  BY <1>5 DEF Surjection
<1>. QED BY <1>2, <1>3, <1>6 DEF ids

\* What is left of a list after some rows, up to a limit.
LEMMA TakenLists ==
  ASSUME NEW ids, IsList(ids), NEW skip \in Nat, NEW limit \in Nat
  PROVE  LET n == Len(Taken(ids, skip, limit)) IN
         /\ IsList(Taken(ids, skip, limit)) /\ n \in Nat
         /\ n <= limit
         /\ \A i \in 1 .. n : Taken(ids, skip, limit)[i] = ids[skip + i]
         /\ \A i \in 1 .. n : skip + i \in 1 .. Len(ids)
         /\ n < limit => \A k \in 1 .. Len(ids) : skip < k => k - skip \in 1 .. n
         /\ n = limit \/ Len(ids) <= skip + n
<1>. DEFINE upto == IF skip + limit < Len(ids) THEN skip + limit ELSE Len(ids)
            S == {ids[i] : i \in DOMAIN ids}
            t == Taken(ids, skip, limit)
<1>1. Len(ids) \in Nat /\ DOMAIN ids = 1 .. Len(ids)
  BY Listed
<1>2. upto \in Nat /\ upto <= Len(ids) /\ upto <= skip + limit
  BY <1>1
<1>3. upto = skip + limit \/ upto = Len(ids)
  OBVIOUS
<1>4. t = SubSeq(ids, skip + 1, upto)
  BY DEF Taken
<1>. HIDE DEF upto, t
<1>5. /\ t \in Seq(S)
      /\ Len(t) = IF skip + 1 <= upto THEN upto - (skip + 1) + 1 ELSE 0
      /\ \A i \in 1 .. upto - (skip + 1) + 1 : t[i] = ids[(skip + 1) + i - 1]
  <2>1. \A i \in skip + 1 .. upto : ids[i] \in S
    <3>1. \A i \in skip + 1 .. upto : i \in 1 .. Len(ids)
      BY <1>1, <1>2
    <3>. QED BY <1>1, <3>1
  <2>2. skip + 1 \in Int /\ upto \in Int
    BY <1>2
  <2>. HIDE DEF S
  <2>. QED BY <1>4, <2>1, <2>2, SubSeqProperties
<1>6. IsList(t)
  BY <1>5, Listed
<1>7. Len(t) = IF skip < upto THEN upto - skip ELSE 0
  BY <1>2, <1>5
<1>8. ASSUME NEW i \in 1 .. Len(t) PROVE t[i] = ids[skip + i] /\ skip + i \in 1 .. Len(ids)
  <2>1. skip < upto /\ Len(t) = upto - skip
    BY <1>2, <1>7
  <2>2. i \in 1 .. upto - (skip + 1) + 1
    BY <1>2, <2>1
  <2>3. (skip + 1) + i - 1 = skip + i
    OBVIOUS
  <2>4. t[i] = ids[(skip + 1) + i - 1]
    BY <1>5, <2>2
  <2>5. skip + i \in 1 .. Len(ids)
    BY <1>1, <1>2, <2>1
  <2>. QED BY <2>3, <2>4, <2>5
<1>9. Len(t) \in Nat /\ Len(t) <= limit
  BY <1>2, <1>7
<1>10. Len(t) = limit \/ Len(ids) <= skip + Len(t)
  <2>0. Len(ids) \in Nat
    BY <1>1
  <2>1. CASE upto = skip + limit
    <3>1. limit = 0 \/ skip < upto
      BY <2>1
    <3>2. skip < upto => Len(t) = limit
      BY <1>7, <2>1
    <3>3. limit = 0 => Len(t) = limit
      BY <1>7, <2>1
    <3>. QED BY <3>1, <3>2, <3>3
  <2>2. CASE upto = Len(ids)
    <3>1. skip < upto => Len(ids) = skip + Len(t)
      BY <1>2, <1>7, <2>2
    <3>2. ~(skip < upto) => Len(ids) <= skip /\ Len(t) = 0
      BY <1>2, <1>7, <2>0, <2>2
    <3>. QED BY <2>0, <3>1, <3>2
  <2>. QED BY <1>3, <2>1, <2>2
<1>11. ASSUME Len(t) < limit, NEW k \in 1 .. Len(ids), skip < k PROVE k - skip \in 1 .. Len(t)
  BY <1>1, <1>9, <1>10, <1>11
<1>. QED BY <1>6, <1>8, <1>9, <1>10, <1>11 DEF t

LEMMA ListRows ==
  ASSUME TypeOK, Placed, NEW list \in {"bets", "fights"}
  PROVE  /\ DOMAIN Table(list) \subseteq DOMAIN When(list)
         /\ DOMAIN When(list) \subseteq Keys
         /\ \A x \in DOMAIN When(list) : When(list)[x] \in Nat
         /\ \A rows \in SUBSET DOMAIN Table(list) : Ordered(list, rows)
<1>1. /\ DOMAIN fights \subseteq 1 .. MaxFights /\ IsFiniteSet(DOMAIN fights)
      /\ \A f \in DOMAIN fights : f \in Nat
  <2>1. IsFiniteSet(1 .. MaxFights)
    BY ConstantTypes, FS_Interval
  <2>2. DOMAIN fights \subseteq 1 .. MaxFights
    BY DEF TypeOK, FightsTyped
  <2>3. IsFiniteSet(DOMAIN fights)
    BY <2>1, <2>2, FS_Subset
  <2>4. \A f \in 1 .. MaxFights : f \in Nat
    OBVIOUS
  <2>. QED BY <2>2, <2>3, <2>4
<1>2. CASE list = "bets"
  <2>1. When(list) = created /\ Table(list) = bets
    BY <1>2 DEF When, Table
  <2>2. /\ DOMAIN bets \subseteq DOMAIN created /\ IsFiniteSet(DOMAIN created)
        /\ \A x \in DOMAIN created : created[x] \in Nat /\ x \in Keys
        /\ \A x, y \in DOMAIN created : created[x] = created[y] => x = y
    BY DEF Placed, Keys
  <2>3. \A rows \in SUBSET DOMAIN bets : IsFiniteSet(rows)
    BY <2>2, FS_Subset
  <2>. QED BY <2>1, <2>2, <2>3 DEF Ordered
<1>3. CASE list = "fights"
  <2>1. When(list) = [f \in DOMAIN fights |-> f] /\ Table(list) = fights
    BY <1>3 DEF When, Table
  <2>2. \A rows \in SUBSET DOMAIN fights : IsFiniteSet(rows)
    BY <1>1, FS_Subset
  <2>3. /\ DOMAIN When(list) = DOMAIN fights
        /\ \A f \in DOMAIN fights : When(list)[f] = f /\ f \in Nat
    BY <1>1, <2>1
  <2>4. \A rows \in SUBSET DOMAIN fights : Ordered(list, rows)
    <3>1. SUFFICES ASSUME NEW rows \in SUBSET DOMAIN fights PROVE Ordered(list, rows)
      OBVIOUS
    <3>2. \A f \in rows : When(list)[f] = f /\ f \in Nat
      BY <2>3
    <3>3. IsFiniteSet(rows)
      BY <2>2
    <3>. QED BY <3>2, <3>3 DEF Ordered
  <2>5. DOMAIN fights \subseteq Keys
    BY <1>1 DEF Keys
  <2>. QED BY <2>1, <2>3, <2>4, <2>5
<1>. QED BY <1>2, <1>3

\* From a cursor that passes on, the rows that pass: the first is the cursor's
\* own, and the rest are older.
FoundFrom(list, filter, cursor, c) ==
  LET found == From(list, filter, cursor)
      ids == NewestFirst(list, found)
      skip == IF cursor = {} THEN 0 ELSE 1
  IN  /\ IsList(ids) /\ Len(ids) \in Nat /\ DOMAIN ids = 1 .. Len(ids)
      /\ \A i \in 1 .. Len(ids) : ids[i] \in Passing(list, filter)
      /\ Descending(list, ids, Len(ids))
      /\ \A i \in 1 .. Len(ids) :
           skip < i /\ cursor # {} => When(list)[ids[i]] < When(list)[c]
      /\ \A x \in Passing(list, filter) :
           cursor = {} \/ When(list)[x] < When(list)[c] =>
             \E k \in 1 .. Len(ids) : skip < k /\ ids[k] = x

LEMMA FoundAfter ==
  ASSUME TypeOK, Placed, NEW list \in {"bets", "fights"}, NEW filter, NEW cursor,
         NEW c, cursor = {} \/ (cursor = {c} /\ c \in Passing(list, filter))
  PROVE  FoundFrom(list, filter, cursor, c)
<1>. DEFINE found == From(list, filter, cursor)
            ids == NewestFirst(list, found)
            skip == IF cursor = {} THEN 0 ELSE 1
            at(x) == When(list)[x]
<1>1. /\ Passing(list, filter) \subseteq DOMAIN Table(list)
      /\ found \subseteq Passing(list, filter)
      /\ found \in SUBSET DOMAIN Table(list)
  BY DEF Passing, PassingIn, From
<1>2. Ordered(list, found) /\ \A x \in DOMAIN Table(list) : at(x) \in Nat
  BY <1>1, ListRows
<1>3. /\ IsList(ids) /\ Len(ids) = Cardinality(found)
      /\ DOMAIN ids = 1 .. Len(ids)
      /\ \A i \in 1 .. Len(ids) : ids[i] \in found
      /\ Descending(list, ids, Len(ids))
      /\ \A x \in found : \E i \in 1 .. Len(ids) : ids[i] = x
  BY <1>2, NewestFirstLists
<1>4. Len(ids) \in Nat
  BY <1>3, Listed
<1>5. cursor = {} => found = Passing(list, filter)
  BY DEF From
<1>6. ASSUME cursor # {}
      PROVE  /\ \A x \in found : at(x) <= at(c)
             /\ \A x \in Passing(list, filter) : at(x) <= at(c) => x \in found
             /\ c \in found /\ at(c) \in Nat
  <2>1. cursor = {c} /\ c \in DOMAIN Table(list) /\ at(c) \in Nat
    BY <1>1, <1>2, <1>6
  <2>2. \A x \in Passing(list, filter) : x \in found <=> at(x) <= at(c)
    BY <2>1 DEF From
  <2>3. at(c) <= at(c)
    BY <2>1
  <2>4. c \in found
    BY <1>6, <2>2, <2>3
  <2>. QED BY <1>1, <2>1, <2>2, <2>4
<1>. HIDE DEF ids, found
<1>7. ASSUME cursor # {} PROVE Len(ids) >= 1 /\ ids[1] = c
  <2>1. PICK k \in 1 .. Len(ids) : ids[k] = c
    BY <1>3, <1>6, <1>7
  <2>2. ASSUME k # 1 PROVE FALSE
    <3>1. 1 \in 1 .. Len(ids) /\ 1 < k
      BY <1>4, <2>1, <2>2
    <3>2. at(ids[k]) < at(ids[1])
      BY <1>3, <3>1 DEF Descending
    <3>3. ids[1] \in found
      BY <1>3, <3>1
    <3>4. at(ids[1]) <= at(c) /\ at(ids[1]) \in Nat /\ at(c) \in Nat
      BY <1>1, <1>2, <1>6, <1>7, <3>3
    <3>. HIDE DEF at
    <3>. QED BY <2>1, <3>2, <3>4
  <2>. QED BY <1>4, <2>1, <2>2
<1>8. ASSUME NEW i \in 1 .. Len(ids), skip < i, cursor # {} PROVE at(ids[i]) < at(c)
  <2>1. 1 < i /\ 1 \in 1 .. Len(ids)
    BY <1>4, <1>8
  <2>. QED BY <1>3, <1>7, <1>8, <2>1 DEF Descending
<1>9. ASSUME NEW x \in Passing(list, filter), cursor = {} \/ at(x) < at(c)
      PROVE  \E k \in 1 .. Len(ids) : skip < k /\ ids[k] = x
  <2>1. x \in found
    <3>1. CASE cursor = {}
      BY <1>5, <1>9, <3>1
    <3>2. CASE cursor # {}
      <4>1. at(x) \in Nat /\ at(c) \in Nat
        BY <1>1, <1>2, <1>6, <1>9, <3>2
      <4>2. at(x) <= at(c)
        <5>. HIDE DEF at
        <5>. QED BY <1>9, <3>2, <4>1
      <4>. QED BY <1>6, <1>9, <3>2, <4>2
    <3>. QED BY <3>1, <3>2
  <2>2. PICK k \in 1 .. Len(ids) : ids[k] = x
    BY <1>3, <2>1
  <2>3. CASE cursor = {}
    BY <1>4, <2>2, <2>3
  <2>4. CASE cursor # {}
    <3>1. at(c) \in Nat /\ at(x) < at(c)
      BY <1>6, <1>9, <2>4
    <3>2. x # c
      <4>. HIDE DEF at
      <4>. QED BY <3>1
    <3>3. k # 1
      BY <1>7, <2>2, <2>4, <3>2
    <3>. QED BY <1>4, <2>2, <2>4, <3>3
  <2>. QED BY <2>3, <2>4
<1>10. \A i \in 1 .. Len(ids) : ids[i] \in Passing(list, filter)
  BY <1>1, <1>3
<1>. QED BY <1>3, <1>4, <1>8, <1>9, <1>10 DEF FoundFrom, ids, found

\* One page more, from the cursor of the one before.
LEMMA PageFits ==
  ASSUME TypeOK, Placed, NEW list \in Lists, NEW filter \in Filters, NEW limit \in Limits,
         NEW seen \in Seq(Keys), Descends(list, seen),
         NEW cursor,
         \/ cursor = {} /\ seen = << >>
         \/ /\ seen # << >> /\ cursor = {seen[Len(seen)]}
            /\ cursor \subseteq Passing(list, filter),
         NEW staying \in SUBSET Keys, staying \subseteq Passing(list, filter),
         \A x \in staying : seen = << >> \/ Ahead(list, seen, x)
  PROVE  WalkFits(Walked(list, filter, limit, seen, Page(list, filter, cursor, limit), staying))
<1>. DEFINE ids == NewestFirst(list, From(list, filter, cursor))
            skip == IF cursor = {} THEN 0 ELSE 1
            page == Page(list, filter, cursor, limit)
            n == Len(page)
            m == Len(seen)
            all == seen \o page
            c == seen[m]
            at(x) == When(list)[x]
<1>0. list \in {"bets", "fights"} /\ limit \in Nat \ {0} /\ skip \in Nat
  BY PageConstants
<1>1. /\ IsList(seen) /\ m \in Nat /\ DOMAIN seen = 1 .. m
      /\ seen = << >> <=> m = 0
  <2>1. seen = << >> <=> m = 0
    BY EmptySeq
  <2>. QED BY <2>1, Listed
<1>2. cursor = {} \/ (cursor = {c} /\ c \in Passing(list, filter))
  <2>1. cursor = {} \/ (cursor = {c} /\ cursor \subseteq Passing(list, filter))
    OBVIOUS
  <2>. HIDE DEF c
  <2>. QED BY <2>1
<1>3. cursor = {} <=> m = 0
  BY <1>1
<1>4. /\ IsList(ids) /\ Len(ids) \in Nat /\ DOMAIN ids = 1 .. Len(ids)
      /\ \A i \in 1 .. Len(ids) : ids[i] \in Passing(list, filter)
      /\ Descending(list, ids, Len(ids))
      /\ \A i \in 1 .. Len(ids) : skip < i /\ cursor # {} => at(ids[i]) < at(c)
      /\ \A x \in Passing(list, filter) :
           cursor = {} \/ at(x) < at(c) => \E k \in 1 .. Len(ids) : skip < k /\ ids[k] = x
  <2>. HIDE DEF c, page, n, m, all
  <2>1. list \in {"bets", "fights"}
    BY <1>0
  <2>2. FoundFrom(list, filter, cursor, c)
    BY <1>2, <2>1, FoundAfter
  <2>. QED BY <2>2 DEF FoundFrom
<1>5. /\ \A x \in Passing(list, filter) :
           x \in DOMAIN When(list) /\ x \in Keys /\ at(x) \in Nat
      /\ \A x \in DOMAIN When(list) : at(x) \in Nat
  <2>1. Passing(list, filter) \subseteq DOMAIN Table(list)
    BY DEF Passing, PassingIn
  <2>. QED BY <1>0, <2>1, ListRows
<1>. HIDE DEF ids, skip
<1>6. page = Taken(ids, skip, limit)
  BY DEF Page, ids, skip
<1>7. /\ IsList(page) /\ n \in Nat /\ n <= limit /\ DOMAIN page = 1 .. n
      /\ \A i \in 1 .. n : page[i] = ids[skip + i]
      /\ \A i \in 1 .. n : skip + i \in 1 .. Len(ids)
      /\ n < limit => \A k \in 1 .. Len(ids) : skip < k => k - skip \in 1 .. n
      /\ n = limit \/ Len(ids) <= skip + n
  <2>. HIDE DEF page
  <2>1. limit \in Nat
    BY <1>0
  <2>2. /\ IsList(page) /\ n \in Nat /\ n <= limit
        /\ \A i \in 1 .. n : page[i] = ids[skip + i]
        /\ \A i \in 1 .. n : skip + i \in 1 .. Len(ids)
        /\ n < limit => \A k \in 1 .. Len(ids) : skip < k => k - skip \in 1 .. n
        /\ n = limit \/ Len(ids) <= skip + n
    <3>1. IsList(ids) /\ skip \in Nat
      BY <1>0, <1>4
    <3>2. LET t == Taken(ids, skip, limit) IN
          /\ IsList(t) /\ Len(t) \in Nat /\ Len(t) <= limit
          /\ \A i \in 1 .. Len(t) : t[i] = ids[skip + i]
          /\ \A i \in 1 .. Len(t) : skip + i \in 1 .. Len(ids)
          /\ Len(t) < limit => \A k \in 1 .. Len(ids) : skip < k => k - skip \in 1 .. Len(t)
          /\ Len(t) = limit \/ Len(ids) <= skip + Len(t)
      BY <2>1, <3>1, TakenLists
    <3>. QED BY <1>6, <3>2
  <2>3. DOMAIN page = 1 .. n
    BY <2>2, Listed
  <2>. QED BY <2>2, <2>3
<1>. HIDE DEF page
<1>8. ASSUME NEW i \in 1 .. n
      PROVE  /\ page[i] \in Passing(list, filter) /\ page[i] \in DOMAIN When(list)
             /\ page[i] \in Keys /\ at(page[i]) \in Nat
             /\ m # 0 => at(page[i]) < at(c)
  <2>1. skip + i \in 1 .. Len(ids) /\ page[i] = ids[skip + i] /\ skip < skip + i
    BY <1>0, <1>7
  <2>2. ids[skip + i] \in Passing(list, filter)
    BY <1>4, <2>1
  <2>3. m # 0 => at(ids[skip + i]) < at(c)
    BY <1>3, <1>4, <2>1
  <2>. HIDE DEF at
  <2>. QED BY <1>5, <2>1, <2>2, <2>3
<1>9. \A i, j \in 1 .. n : i < j => at(page[j]) < at(page[i])
  <2>1. SUFFICES ASSUME NEW i \in 1 .. n, NEW j \in 1 .. n, i < j
                 PROVE  at(page[j]) < at(page[i])
    OBVIOUS
  <2>2. /\ skip + i \in 1 .. Len(ids) /\ skip + j \in 1 .. Len(ids)
        /\ page[i] = ids[skip + i] /\ page[j] = ids[skip + j]
    BY <1>7
  <2>3. skip + i < skip + j
    BY <1>0, <2>1
  <2>4. at(ids[skip + j]) < at(ids[skip + i])
    BY <1>4, <2>2, <2>3 DEF Descending
  <2>. HIDE DEF at
  <2>. QED BY <2>2, <2>4
<1>10. /\ IsList(all) /\ Len(all) = m + n /\ DOMAIN all = 1 .. m + n
       /\ \A i \in 1 .. m : all[i] = seen[i]
       /\ \A i \in 1 .. n : all[m + i] = page[i]
  <2>. HIDE DEF m, n
  <2>1. /\ IsList(all) /\ Len(all) = Len(seen) + Len(page)
        /\ \A i \in 1 .. Len(seen) : all[i] = seen[i]
        /\ \A i \in 1 .. Len(page) : all[Len(seen) + i] = page[i]
    BY <1>1, <1>7, ListConcat
  <2>2. DOMAIN all = 1 .. Len(all)
    BY <2>1, Listed
  <2>. QED BY <2>1, <2>2 DEF m, n
<1>. HIDE DEF all, n
<1>11. \A k \in 1 .. m + n : k \in 1 .. m \/ (k - m \in 1 .. n /\ all[k] = page[k - m])
  <2>1. SUFFICES ASSUME NEW k \in 1 .. m + n, k \notin 1 .. m
                 PROVE  k - m \in 1 .. n /\ all[k] = page[k - m]
    OBVIOUS
  <2>. HIDE DEF m
  <2>2. k - m \in 1 .. n /\ m + (k - m) = k
    BY <1>1, <1>7, <2>1
  <2>3. all[m + (k - m)] = page[k - m]
    BY <1>10, <2>2
  <2>. QED BY <2>2, <2>3
<1>12. \A i \in 1 .. m : seen[i] \in DOMAIN When(list) /\ seen[i] \in Keys /\ at(seen[i]) \in Nat
  BY <1>1, <1>5 DEF Descends
<1>13. \A i, j \in 1 .. m : i < j => at(seen[j]) < at(seen[i])
  BY <1>1 DEF Descends
<1>. HIDE DEF at, m
<1>14. Descends(list, all)
  <2>1. ASSUME NEW k \in 1 .. m + n PROVE all[k] \in DOMAIN When(list)
    BY <1>8, <1>10, <1>11, <1>12
  <2>2. ASSUME NEW i \in 1 .. m + n, NEW j \in 1 .. m + n, i < j
        PROVE  at(all[j]) < at(all[i])
    <3>1. CASE i \in 1 .. m /\ j \in 1 .. m
      BY <1>10, <1>13, <2>2, <3>1
    <3>2. CASE i \in 1 .. m /\ j \notin 1 .. m
      <4>1. j - m \in 1 .. n /\ all[j] = page[j - m] /\ all[i] = seen[i] /\ m # 0
        BY <1>1, <1>10, <1>11, <3>2
      <4>2. at(page[j - m]) < at(c) /\ at(page[j - m]) \in Nat
        BY <1>8, <4>1
      <4>3. m \in 1 .. m /\ (i = m \/ i < m)
        BY <1>1, <3>2
      <4>4. at(seen[m]) <= at(seen[i]) /\ at(seen[m]) \in Nat /\ at(seen[i]) \in Nat
        BY <1>12, <1>13, <3>2, <4>3
      <4>. QED BY <4>1, <4>2, <4>4
    <3>3. CASE i \notin 1 .. m /\ j \in 1 .. m
      BY <1>1, <2>2, <3>3
    <3>4. CASE i \notin 1 .. m /\ j \notin 1 .. m
      <4>1. /\ i - m \in 1 .. n /\ all[i] = page[i - m]
            /\ j - m \in 1 .. n /\ all[j] = page[j - m]
        BY <1>11, <3>4
      <4>2. i - m < j - m
        BY <1>1, <2>2
      <4>. QED BY <1>9, <4>1, <4>2
    <3>. QED BY <3>1, <3>2, <3>3, <3>4
  <2>. QED BY <1>10, <2>1, <2>2 DEF Descends, at
<1>15. all \in Seq(Keys)
  <2>1. \A k \in 1 .. m + n : all[k] \in Keys
    BY <1>8, <1>10, <1>11, <1>12
  <2>2. all = [k \in 1 .. Len(all) |-> all[k]]
    <3>1. all \in Seq({all[i] : i \in DOMAIN all})
      BY <1>10 DEF IsList
    <3>. HIDE DEF IsList
    <3>. QED BY <3>1
  <2>3. Len(all) \in Nat
    BY <1>1, <1>7, <1>10
  <2>. QED BY <1>10, <2>1, <2>2, <2>3
\* A row that stays is listed already, or among those found after the cursor.
<1>16. ASSUME NEW x \in staying
       PROVE  \/ \E i \in 1 .. m : seen[i] = x
              \/ \E k \in 1 .. Len(ids) : skip < k /\ ids[k] = x
  <2>1. x \in Passing(list, filter)
    OBVIOUS
  <2>2. CASE m = 0
    BY <1>3, <1>4, <2>1, <2>2
  <2>3. CASE m # 0
    <3>1. Ahead(list, seen, x)
      BY <1>1, <2>3
    <3>2. (\E i \in 1 .. m : seen[i] = x) \/ at(x) < at(c)
      BY <1>1, <3>1 DEF Ahead, at, m
    <3>. QED BY <1>4, <2>1, <3>2
  <2>. QED BY <2>2, <2>3
<1>17. \A i \in 1 .. m : i \in DOMAIN all
  BY <1>1, <1>7, <1>10
<1>18. \A i \in 1 .. n : m + i \in DOMAIN all
  BY <1>1, <1>7, <1>10
<1>. DEFINE w == Walked(list, filter, limit, seen, page, staying)
<1>19. /\ w = [step |-> IF n = limit THEN "more" ELSE "over",
               cursor |-> IF n = limit THEN {page[n]} ELSE {},
               list |-> list, filter |-> filter, limit |-> limit,
               seen |-> all, staying |-> staying]
  BY DEF Walked, Last, n, all
<1>20. /\ w.step = (IF n = limit THEN "more" ELSE "over")
       /\ w.cursor = (IF n = limit THEN {page[n]} ELSE {})
       /\ w.list = list /\ w.filter = filter /\ w.limit = limit
       /\ w.seen = all /\ w.staying = staying
  BY <1>19
<1>21. n = limit => n \in 1 .. n
  BY <1>0, <1>7
<1>22. w \in Walks
  <2>1. (IF n = limit THEN {page[n]} ELSE {}) \in SUBSET Keys
    BY <1>8, <1>21
  <2>2. (IF n = limit THEN "more" ELSE "over") \in {"more", "over"}
    OBVIOUS
  <2>. HIDE DEF w
  <2>. QED BY <1>15, <1>19, <2>1, <2>2 DEF Walks
<1>. HIDE DEF w
<1>23. ASSUME n = limit
       PROVE  /\ all # << >> /\ all[Len(all)] = page[n]
              /\ page[n] \in Passing(list, filter)
              /\ \A x \in staying : Ahead(list, all, x)
  <2>1. all[m + n] = page[n] /\ page[n] \in Passing(list, filter)
    BY <1>8, <1>10, <1>21, <1>23
  <2>2. m + n # 0
    BY <1>0, <1>1, <1>23
  <2>3. all # << >>
    <3>1. Len(all) # 0
      BY <1>10, <2>2
    <3>. QED BY <3>1
  <2>4. ASSUME NEW x \in staying PROVE Ahead(list, all, x)
    <3>1. CASE \E i \in 1 .. m : seen[i] = x
      BY <1>10, <1>17, <3>1 DEF Ahead
    <3>2. ASSUME NEW k \in 1 .. Len(ids), skip < k, ids[k] = x PROVE Ahead(list, all, x)
      <4>1. CASE k <= skip + n
        <5>1. k - skip \in 1 .. n /\ skip + (k - skip) = k
          BY <1>0, <1>4, <1>7, <3>2, <4>1
        <5>2. page[k - skip] = x
          BY <1>7, <3>2, <5>1
        <5>3. all[m + (k - skip)] = x
          BY <1>10, <5>1, <5>2
        <5>4. m + (k - skip) \in DOMAIN all
          BY <1>18, <5>1
        <5>. QED BY <5>3, <5>4 DEF Ahead
      <4>2. CASE ~(k <= skip + n)
        <5>1. skip + n \in 1 .. Len(ids) /\ skip + n < k
          BY <1>0, <1>4, <1>7, <1>21, <1>23, <4>2
        <5>2. at(ids[k]) < at(ids[skip + n])
          BY <1>4, <5>1 DEF Descending, at
        <5>3. ids[skip + n] = page[n]
          BY <1>7, <1>21, <1>23
        <5>. QED BY <1>10, <2>1, <2>3, <3>2, <5>2, <5>3 DEF Ahead, at
      <4>. QED BY <4>1, <4>2
    <3>. QED BY <1>16, <3>1, <3>2
  <2>. QED BY <1>10, <2>1, <2>3, <2>4
<1>24. ASSUME n # limit, NEW x \in staying PROVE \E i \in DOMAIN all : all[i] = x
  <2>1. CASE \E i \in 1 .. m : seen[i] = x
    BY <1>10, <1>17, <2>1
  <2>2. ASSUME NEW k \in 1 .. Len(ids), skip < k, ids[k] = x
        PROVE  \E i \in DOMAIN all : all[i] = x
    <3>0. n < limit
      BY <1>0, <1>7, <1>24
    <3>1. k - skip \in 1 .. n /\ skip + (k - skip) = k
      <4>1. k - skip \in 1 .. n
        BY <1>7, <2>2, <3>0
      <4>2. skip + (k - skip) = k
        BY <1>0, <1>4, <2>2
      <4>. QED BY <4>1, <4>2
    <3>2. page[k - skip] = x
      BY <1>7, <2>2, <3>1
    <3>. QED BY <1>10, <1>18, <3>1, <3>2
  <2>. QED BY <1>16, <2>1, <2>2
<1>25. staying \subseteq Passing(list, filter)
  OBVIOUS
<1>26. WalkFits(w)
  BY <1>14, <1>20, <1>22, <1>23, <1>24, <1>25 DEF WalkFits
<1>. QED BY <1>26 DEF w, page

-----------------------------------------------------------------------------
(* The book meanwhile                                                      *)

\* No fight goes and no two tickets come in one step.
LEMMA NextKeys ==
  ASSUME TypeOK, Next
  PROVE  /\ DOMAIN fights \subseteq DOMAIN fights'
         /\ \A b, c \in DOMAIN bets' \ DOMAIN bets : b = c
<1>. DEFINE Kept == /\ DOMAIN fights \subseteq DOMAIN fights'
                    /\ \A b, c \in DOMAIN bets' \ DOMAIN bets : b = c
<1>0. DOMAIN fights' = DOMAIN fights /\ DOMAIN bets' \subseteq DOMAIN bets => Kept
  OBVIOUS
<1>1. CASE Tuning \/ Holding \/ Cash
  <2>1. DOMAIN fights' = DOMAIN fights /\ bets' = bets
    BY <1>1 DEF Tuning, Holding, Cash, UpdateSetting, CashAdvance, CashRemit, DeleteRemit, ToggleSide
  <2>. QED BY <1>0, <2>1
<1>2. CASE Lifecycle
  <2>1. CASE CreateFight
    BY <2>1 DEF CreateFight
  <2>2. ASSUME NEW f \in DOMAIN fights,
               CloseFight(f) \/ ReopenFight(f) \/ SetFightLastCall(f) \/ ResumeFightOpen(f)
        PROVE  Kept
    BY <1>0, <2>2 DEF CloseFight, ReopenFight, SetFightLastCall, ResumeFightOpen, MoveFight
  <2>. QED BY <1>2, <2>1, <2>2 DEF Lifecycle
<1>3. CASE Betting
  <2>1. ASSUME NEW b \in BetIds, NEW f \in DOMAIN fights, NEW t, NEW s, NEW a,
               PlaceBet(b, f, t, s, a)
        PROVE  Kept
    <3>1. DOMAIN bets' = DOMAIN bets \cup {b} /\ DOMAIN fights' = DOMAIN fights
      BY <2>1 DEF PlaceBet
    <3>. QED BY <3>1
  <2>2. ASSUME NEW b \in DOMAIN bets, VoidBet(b) PROVE Kept
    BY <1>0, <2>2 DEF VoidBet
  <2>. QED BY <1>3, <2>1, <2>2 DEF Betting
<1>4. CASE Declaring \/ Correcting \/ Reverting
  <2>1. DOMAIN fights' = DOMAIN fights /\ DOMAIN bets' = DOMAIN bets
    BY <1>4 DEF Declaring, Correcting, Reverting, CancelFight, SettleFight, CorrectFight,
      UnsettleFight
  <2>. QED BY <1>0, <2>1
<1>5. CASE Paying \/ Purging
  <2>1. DOMAIN fights' = DOMAIN fights /\ DOMAIN bets' \subseteq DOMAIN bets
    BY <1>5 DEF Paying, Purging, PayBet, PurgeBet, Restrict
  <2>. QED BY <1>0, <2>1
<1>. QED BY <1>1, <1>2, <1>3, <1>4, <1>5 DEF Next

\* A step of the book puts rows in between, and leaves the others in order.
LEMMA OrderKept ==
  ASSUME TypeOK, Placed, Next, Changing
  PROVE  /\ Placed'
         /\ \A list \in {"bets", "fights"} :
              /\ DOMAIN When(list) \subseteq DOMAIN When(list)'
              /\ \A x, y \in DOMAIN When(list) :
                   When(list)[x] < When(list)[y] => When(list)'[x] < When(list)'[y]
<1>. DEFINE n == Cardinality(DOMAIN created)
            Kept == /\ DOMAIN created \subseteq DOMAIN created'
                    /\ \A x, y \in DOMAIN created :
                         created[x] < created[y] => created'[x] < created'[y]
<1>0. TypeOK' /\ DOMAIN bets' \subseteq BetIds
  <2>1. TypeOK'
    BY NextType
  <2>. QED BY <2>1 DEF TypeOK, TicketsTyped
<1>1. /\ IsFiniteSet(DOMAIN created) /\ n \in Nat
      /\ \A x \in DOMAIN created : created[x] \in Nat
      /\ \A x, y \in DOMAIN created : created[x] = created[y] => x = y
      /\ DOMAIN bets \subseteq DOMAIN created /\ DOMAIN created \subseteq BetIds
  BY FS_CardinalityType DEF Placed
<1>2. ASSUME DOMAIN bets' \subseteq DOMAIN created PROVE Placed' /\ Kept
  <2>1. created' = created
    BY <1>2 DEF Changing, Dated
  <2>. QED BY <1>1, <1>2, <2>1 DEF Placed
<1>3. ASSUME ~(DOMAIN bets' \subseteq DOMAIN created) PROVE Placed' /\ Kept
  <2>1. PICK b \in DOMAIN bets' \ DOMAIN created, place \in {n, n + 1} \ {0} :
          created' = [x \in DOMAIN created \cup {b} |->
                        IF x = b THEN place
                        ELSE IF created[x] < place THEN created[x] ELSE created[x] + 1]
    BY <1>3 DEF Changing, Dated
  <2>2. place \in Nat /\ b \notin DOMAIN created
    BY <1>1
  <2>. HIDE DEF n
  <2>3. /\ DOMAIN created' = DOMAIN created \cup {b}
        /\ created'[b] = place
        /\ \A x \in DOMAIN created :
             created'[x] = IF created[x] < place THEN created[x] ELSE created[x] + 1
    BY <2>1, <2>2
  <2>4. \A x \in DOMAIN created : created'[x] \in Nat /\ created'[x] # place
    BY <1>1, <2>2, <2>3
  <2>5. Kept
    BY <1>1, <2>2, <2>3
  <2>6. DOMAIN bets' \subseteq DOMAIN created'
    <3>1. b \notin DOMAIN bets
      BY <1>1, <2>2
    <3>2. \A c \in DOMAIN bets' \ DOMAIN bets : c = b
      BY <2>1, <3>1, NextKeys
    <3>. QED BY <1>1, <2>3, <3>2
  <2>7. \A x, y \in DOMAIN created' : created'[x] = created'[y] => x = y
    <3>1. \A x, y \in DOMAIN created : created'[x] = created'[y] => created[x] = created[y]
      BY <1>1, <2>2, <2>3
    <3>. QED BY <1>1, <2>3, <2>4, <3>1
  <2>8. created' \in [DOMAIN created' -> Nat]
    <3>1. \A x \in DOMAIN created \cup {b} : created'[x] \in Nat
      BY <2>2, <2>3, <2>4
    <3>2. created' = [x \in DOMAIN created \cup {b} |-> created'[x]]
      BY <2>1
    <3>. QED BY <2>3, <3>1, <3>2
  <2>9. IsFiniteSet(DOMAIN created') /\ DOMAIN created' \subseteq BetIds
    <3>1. IsFiniteSet(DOMAIN created \cup {b})
      BY <1>1, FS_AddElement
    <3>. QED BY <1>0, <1>1, <2>1, <2>3, <3>1
  <2>. QED BY <2>5, <2>6, <2>7, <2>8, <2>9 DEF Placed
<1>4. Placed' /\ Kept
  BY <1>2, <1>3
<1>5. ASSUME NEW list \in {"bets", "fights"}
      PROVE  /\ DOMAIN When(list) \subseteq DOMAIN When(list)'
             /\ \A x, y \in DOMAIN When(list) :
                  When(list)[x] < When(list)[y] => When(list)'[x] < When(list)'[y]
  <2>1. CASE list = "bets"
    BY <1>4, <2>1 DEF When
  <2>2. CASE list = "fights"
    <3>1. DOMAIN fights \subseteq DOMAIN fights'
      BY NextKeys
    <3>2. When(list) = [f \in DOMAIN fights |-> f] /\ When(list)' = [f \in DOMAIN fights' |-> f]
      BY <2>2 DEF When
    <3>. QED BY <3>1, <3>2
  <2>. QED BY <2>1, <2>2
<1>. QED BY <1>4, <1>5

-----------------------------------------------------------------------------
(* A walk is complete                                                      *)

LEMMA InitWalk == PagesInit => WalkInv
<1>. SUFFICES ASSUME PagesInit PROVE WalkInv
  OBVIOUS
<1>1. TypeOK
  BY InitType DEF PagesInit
<1>2. DOMAIN created = {} /\ DOMAIN bets = {} /\ created = [x \in {} |-> x]
  BY DEF PagesInit, Init
<1>3. Placed
  BY <1>2, FS_EmptySet DEF Placed
<1>. QED BY <1>1, <1>3 DEF WalkInv, PagesInit

\* A page is read and nothing is written.
LEMMA WalkRead ==
  ASSUME NEW w, walk' = w, UNCHANGED <<vars, created>>, WalkFits(w)
  PROVE  WalkFits(walk)'
BY DEF WalkFits, Walks, Keys, Descends, Passing, PassingIn, Table, When, Ahead, vars

LEMMA WalkKept ==
  ASSUME TypeOK, Placed, WalkFits(walk), walk # AtHome, Next, Changing, CursorStays
  PROVE  WalkFits(walk)'
<1>1. PICK w : w = walk
  OBVIOUS
<1>2. PICK l \in {"bets", "fights"} : l = walk.list
  BY PageConstants DEF WalkFits, Walks
<1>. DEFINE at(x) == When(l)[x]
            later(x) == When(l)'[x]
<1>17. PICK still : still = Passing(l, w.filter)'
  OBVIOUS
<1>18. PICK v : v = [w EXCEPT !.staying = w.staying \cap still]
  OBVIOUS
<1>3. WalkFits(w) /\ w \in Walks /\ w.list = l
  BY <1>1, <1>2 DEF WalkFits
<1>4. still = StillPassing
  BY <1>1, <1>2, <1>17 DEF StillPassing, Passing, Table
<1>5. walk' = v
  BY <1>1, <1>4, <1>18 DEF Changing, Staying
<1>6. /\ v.step = w.step /\ v.cursor = w.cursor /\ v.list = l /\ v.filter = w.filter
      /\ v.limit = w.limit /\ v.seen = w.seen /\ v.staying = w.staying \cap still
      /\ v \in Walks
  BY <1>3, <1>18 DEF Walks
<1>7. /\ DOMAIN When(l) \subseteq DOMAIN When(l)'
      /\ \A x, y \in DOMAIN When(l) : at(x) < at(y) => later(x) < later(y)
  BY OrderKept
<1>8. /\ \A i \in DOMAIN w.seen : w.seen[i] \in DOMAIN When(l)
      /\ \A i, j \in DOMAIN w.seen : i < j => at(w.seen[j]) < at(w.seen[i])
      /\ w.staying \subseteq DOMAIN When(l)
  <2>1. Passing(l, w.filter) \subseteq DOMAIN Table(l)
    BY DEF Passing, PassingIn
  <2>2. DOMAIN Table(l) \subseteq DOMAIN When(l)
    BY ListRows
  <2>. QED BY <1>3, <2>1, <2>2 DEF WalkFits, Descends
<1>9. /\ \A i \in DOMAIN w.seen : w.seen[i] \in DOMAIN When(l)'
      /\ \A i, j \in DOMAIN w.seen : i < j => later(w.seen[j]) < later(w.seen[i])
  <2>. HIDE DEF at, later
  <2>. QED BY <1>7, <1>8
<1>10. ASSUME w.step = "more"
       PROVE  /\ w.seen # << >> /\ w.cursor = {w.seen[Len(w.seen)]}
              /\ w.cursor \subseteq still
              /\ \A x \in v.staying :
                   \/ \E i \in DOMAIN w.seen : w.seen[i] = x
                   \/ later(x) < later(w.seen[Len(w.seen)])
  <2>1. w.seen # << >> /\ w.cursor = {w.seen[Len(w.seen)]}
    BY <1>3, <1>10 DEF WalkFits
  <2>2. w.cursor \subseteq still
    BY <1>1, <1>4, <1>10 DEF CursorStays
  <2>3. Len(w.seen) \in DOMAIN w.seen
    <3>1. w.seen \in Seq(Keys)
      BY <1>3 DEF Walks
    <3>2. Len(w.seen) \in Nat \ {0} /\ DOMAIN w.seen = 1 .. Len(w.seen)
      BY <2>1, <3>1, EmptySeq
    <3>. QED BY <3>2
  <2>4. ASSUME NEW x \in v.staying
        PROVE  \/ \E i \in DOMAIN w.seen : w.seen[i] = x
               \/ later(x) < later(w.seen[Len(w.seen)])
    <3>1. x \in w.staying /\ x \in DOMAIN When(l)
      BY <1>6, <1>8
    <3>2. \/ \E i \in DOMAIN w.seen : w.seen[i] = x
          \/ at(x) < at(w.seen[Len(w.seen)])
      BY <1>3, <1>10, <3>1 DEF WalkFits, Ahead
    <3>. HIDE DEF at, later
    <3>. QED BY <1>7, <1>8, <2>3, <3>1, <3>2
  <2>. QED BY <2>1, <2>2, <2>4
<1>11. ASSUME w.step = "over", NEW x \in v.staying
       PROVE  \E i \in DOMAIN w.seen : w.seen[i] = x
  BY <1>3, <1>6, <1>11 DEF WalkFits
<1>12. v.staying \subseteq still
  BY <1>6
<1>13. Descends(v.list, v.seen)'
  BY <1>6, <1>9 DEF Descends
<1>14. still = Passing(v.list, v.filter)'
  BY <1>6, <1>17
<1>15. \A x \in v.staying : w.step = "more" => Ahead(v.list, v.seen, x)'
  BY <1>6, <1>10 DEF Ahead
<1>16. WalkFits(v)'
  BY <1>6, <1>10, <1>11, <1>12, <1>13, <1>14, <1>15 DEF WalkFits
<1>. QED BY <1>5, <1>16

LEMMA NextWalk == WalkInv /\ [PagesNext /\ CursorStays]_pageVars => WalkInv'
<1>. SUFFICES ASSUME WalkInv, [PagesNext /\ CursorStays]_pageVars PROVE WalkInv'
  OBVIOUS
<1>0. TypeOK /\ Placed /\ (walk = AtHome \/ WalkFits(walk))
  BY DEF WalkInv
<1>1. UNCHANGED <<vars, created>> => TypeOK' /\ Placed'
  BY <1>0 DEF TypeOK, FightsTyped, TicketsTyped, RowsTyped, HistoryTyped, Placed, vars
<1>2. CASE UNCHANGED <<vars, created, walk>>
  <2>1. walk = AtHome => walk' = AtHome
    BY <1>2 DEF AtHome
  <2>2. WalkFits(walk) => WalkFits(walk)'
    BY <1>2 DEF WalkFits, Walks, Keys, Descends, Passing, PassingIn, Table, When, Ahead, vars
  <2>3. walk' = AtHome \/ WalkFits(walk)'
    BY <1>0, <2>1, <2>2
  <2>. QED BY <1>1, <1>2, <2>3 DEF WalkInv, AtHome
<1>3. ASSUME NEW l \in Lists, NEW s \in Filters, NEW n \in Limits, FirstPage(l, s, n)
      PROVE  WalkInv'
  <2>1. /\ walk' = Walked(l, s, n, << >>, Page(l, s, {}, n), Passing(l, s))
        /\ UNCHANGED <<vars, created>>
    BY <1>3 DEF FirstPage
  <2>2. Passing(l, s) \in SUBSET Keys
    <3>1. l \in {"bets", "fights"} /\ Passing(l, s) \subseteq DOMAIN Table(l)
      BY PageConstants DEF Passing, PassingIn
    <3>. QED BY <1>0, <3>1, ListRows
  <2>3. << >> \in Seq(Keys) /\ Descends(l, << >>)
    BY DEF Descends
  <2>4. WalkFits(Walked(l, s, n, << >>, Page(l, s, {}, n), Passing(l, s)))
    BY <1>0, <2>2, <2>3, PageFits
  <2>5. WalkFits(walk)'
    BY <2>1, <2>4, WalkRead
  <2>. QED BY <1>1, <2>1, <2>5 DEF WalkInv
<1>4. CASE NextPage
  <2>1. /\ walk.step = "more" /\ UNCHANGED <<vars, created>>
        /\ walk' = Walked(walk.list, walk.filter, walk.limit, walk.seen,
                          Page(walk.list, walk.filter, walk.cursor, walk.limit), walk.staying)
    BY <1>4 DEF NextPage
  <2>2. WalkFits(walk)
    <3>1. walk # AtHome
      BY <2>1 DEF AtHome
    <3>. QED BY <1>0, <3>1
  <2>3. /\ walk.list \in Lists /\ walk.filter \in Filters /\ walk.limit \in Limits
        /\ walk.seen \in Seq(Keys) /\ walk.staying \in SUBSET Keys
    BY <2>2 DEF WalkFits, Walks
  <2>4. /\ Descends(walk.list, walk.seen)
        /\ walk.staying \subseteq Passing(walk.list, walk.filter)
        /\ walk.seen # << >> /\ walk.cursor = {walk.seen[Len(walk.seen)]}
        /\ walk.cursor \subseteq Passing(walk.list, walk.filter)
        /\ \A x \in walk.staying : Ahead(walk.list, walk.seen, x)
    BY <2>1, <2>2 DEF WalkFits
  <2>5. WalkFits(Walked(walk.list, walk.filter, walk.limit, walk.seen,
                        Page(walk.list, walk.filter, walk.cursor, walk.limit), walk.staying))
    BY <1>0, <2>3, <2>4, PageFits
  <2>6. WalkFits(walk)'
    BY <2>1, <2>5, WalkRead
  <2>. QED BY <1>1, <2>1, <2>6 DEF WalkInv
<1>5. CASE Leave
  BY <1>1, <1>5 DEF Leave, WalkInv, AtHome
<1>6. CASE Showing
  <2>1. UNCHANGED <<vars, created, walk>>
    BY <1>6 DEF Showing, Present, Query
  <2>. QED BY <1>2, <2>1
<1>7. CASE Next /\ Changing /\ CursorStays
  <2>1. TypeOK' /\ Placed'
    BY <1>0, <1>7, NextType, OrderKept
  <2>2. CASE walk = AtHome
    <3>1. walk' = AtHome
      BY <1>7, <2>2 DEF Changing, Staying
    <3>. QED BY <2>1, <3>1 DEF WalkInv, AtHome
  <2>3. CASE walk # AtHome
    <3>1. WalkFits(walk)'
      BY <1>0, <1>7, <2>3, WalkKept
    <3>. QED BY <2>1, <3>1 DEF WalkInv
  <2>. QED BY <2>2, <2>3
<1>8. CASE UNCHANGED pageVars
  BY <1>2, <1>8 DEF pageVars
<1>. QED BY <1>3, <1>4, <1>5, <1>6, <1>7, <1>8 DEF PagesNext, Walking

(***************************************************************************)
(* A walk through a list is complete and repeats nothing, for any number   *)
(* of rows, any filter and page size, and whatever operations run between  *)
(* two pages, as long as the cursor stays in the list.                     *)
(***************************************************************************)
THEOREM WalksAreComplete == SteadySpec => []WalkIsComplete
<1>1. PagesInit => WalkInv
  BY InitWalk
<1>2. WalkInv /\ [PagesNext /\ CursorStays]_pageVars => WalkInv'
  BY NextWalk
<1>3. WalkInv => WalkIsComplete
  <2>. SUFFICES ASSUME WalkInv PROVE WalkIsComplete
    OBVIOUS
  <2>0. walk = AtHome \/ WalkFits(walk)
    BY DEF WalkInv
  <2>1. CASE walk = AtHome
    BY <2>1 DEF WalkIsComplete, AtHome
  <2>2. CASE WalkFits(walk)
    <3>1. PICK l \in {"bets", "fights"} : l = walk.list
      BY <2>2, PageConstants DEF WalkFits, Walks
    <3>2. walk.seen \in Seq(Keys)
      BY <2>2 DEF WalkFits, Walks
    <3>3. DOMAIN walk.seen \subseteq Nat
      BY <3>2
    <3>4. /\ \A i \in DOMAIN walk.seen : When(l)[walk.seen[i]] \in Nat
          /\ \A i, j \in DOMAIN walk.seen : i < j =>
               When(l)[walk.seen[j]] < When(l)[walk.seen[i]]
      BY <2>2, <3>1, ListRows DEF WalkFits, Descends, WalkInv
    <3>5. \A i, j \in DOMAIN walk.seen : walk.seen[i] = walk.seen[j] => i = j
      BY <3>3, <3>4
    <3>6. walk.step = "over" => walk.staying \subseteq ToSet(walk.seen)
      BY <2>2 DEF WalkFits, ToSet
    <3>. QED BY <3>5, <3>6 DEF WalkIsComplete, IsInjective
  <2>. QED BY <2>0, <2>1, <2>2
<1>. QED BY <1>1, <1>2, <1>3, PTL DEF SteadySpec

-----------------------------------------------------------------------------
(* The list of current fights                                              *)

\* A query for fights finds what it should, unless there is none.
LEMMA FightsFound ==
  ASSUME TypeOK, NEW statuses, NEW limit \in Nat \ {0}, NEW ids,
         \/ ids = NewestFirst("fights", FightsIn(statuses))
         \/ ids = Reverse(NewestFirst("fights", FightsIn(statuses)))
  PROVE  /\ Taken(ids, 0, limit) \in Seq(Nat)
         /\ FightsIn(statuses) # {} => Taken(ids, 0, limit) # << >>
<1>. DEFINE rows == FightsIn(statuses)
            new == NewestFirst("fights", rows)
            n == Cardinality(rows)
<1>1. /\ IsFiniteSet(rows)
      /\ \A f \in rows : f \in Nat /\ When("fights")[f] = f
  <2>1. IsFiniteSet(1 .. MaxFights)
    BY ConstantTypes, FS_Interval
  <2>2. DOMAIN fights \subseteq 1 .. MaxFights /\ rows \subseteq DOMAIN fights
    BY DEF TypeOK, FightsTyped, FightsIn
  <2>3. IsFiniteSet(DOMAIN fights) /\ rows \subseteq DOMAIN fights
    BY <2>1, <2>2, FS_Subset
  <2>4. IsFiniteSet(rows)
    BY <2>3, FS_Subset
  <2>5. \A f \in 1 .. MaxFights : f \in Nat
    OBVIOUS
  <2>6. \A f \in DOMAIN fights : When("fights")[f] = f
    BY DEF When
  <2>. QED BY <2>2, <2>4, <2>5, <2>6
<1>. HIDE DEF rows
<1>2. Ordered("fights", rows)
  BY <1>1 DEF Ordered
<1>3. /\ IsList(new) /\ Len(new) = n /\ DOMAIN new = 1 .. n
      /\ \A i \in 1 .. n : new[i] \in rows
  BY <1>2, NewestFirstLists
<1>4. n \in Nat
  BY <1>1, FS_CardinalityType
<1>. HIDE DEF new, n
<1>5. IsList(ids) /\ Len(ids) = n /\ \A i \in 1 .. n : ids[i] \in Nat
  <2>1. CASE ids = new
    BY <1>1, <1>3, <2>1
  <2>2. CASE ids = Reverse(new)
    <3>1. ids = [i \in 1 .. n |-> new[(n - i) + 1]]
      BY <1>3, <2>2 DEF Reverse
    <3>2. \A i \in 1 .. n : (n - i) + 1 \in 1 .. n
      BY <1>4
    <3>3. \A i \in 1 .. n : ids[i] \in Nat
      BY <1>1, <1>3, <3>1, <3>2
    <3>4. DOMAIN ids = 1 .. n /\ ids = [i \in 1 .. n |-> ids[i]]
      BY <3>1
    <3>5. IsList(ids) /\ Len(ids) = n
      BY <1>4, <3>4, Indexed
    <3>. QED BY <3>3, <3>5
  <2>. QED BY <2>1, <2>2 DEF new, rows
<1>. DEFINE t == Taken(ids, 0, limit)  m == Len(t)
<1>6. /\ IsList(t) /\ m \in Nat
      /\ \A i \in 1 .. m : t[i] = ids[0 + i]
      /\ \A i \in 1 .. m : 0 + i \in 1 .. Len(ids)
      /\ m = limit \/ Len(ids) <= 0 + m
  <2>1. limit \in Nat /\ 0 \in Nat
    OBVIOUS
  <2>. QED BY <1>5, <2>1, TakenLists
<1>7. \A i \in 1 .. m : t[i] \in Nat
  <2>. HIDE DEF t, m
  <2>1. \A i \in 1 .. m : 0 + i \in 1 .. n
    BY <1>5, <1>6
  <2>. QED BY <1>5, <1>6, <2>1
<1>8. DOMAIN t = 1 .. m /\ t = [i \in 1 .. m |-> t[i]]
  <2>1. t \in Seq({t[i] : i \in DOMAIN t})
    BY <1>6 DEF IsList
  <2>. HIDE DEF t
  <2>. QED BY <2>1
<1>9. t \in Seq(Nat)
  <2>. HIDE DEF t, m
  <2>. QED BY <1>6, <1>7, <1>8
<1>10. ASSUME rows # {} PROVE m # 0
  <2>1. n # 0
    BY <1>1, <1>10, FS_EmptySet DEF n
  <2>. HIDE DEF m
  <2>. QED BY <1>4, <1>5, <1>6, <2>1
<1>11. m # 0 => t # << >>
  <2>. HIDE DEF t
  <2>. QED OBVIOUS
<1>. QED BY <1>9, <1>10, <1>11 DEF rows

LEMMA InitReads == PagesInit => ReadsInv
<1>. SUFFICES ASSUME PagesInit PROVE ReadsInv
  OBVIOUS
<1>1. TypeOK
  BY InitType DEF PagesInit
<1>2. reads = [limit |-> 0, queries |-> << >>, live |-> {}]
  BY DEF PagesInit, NotRead
<1>3. << >> \in Seq(QueryRows) /\ DOMAIN << >> = {}
  OBVIOUS
<1>. QED BY <1>1, <1>2, <1>3 DEF ReadsInv

\* The answer of a query is added to those before.
LEMMA QueryReads ==
  ASSUME ReadsInv, NEW group \in DOMAIN Groups, NEW limit \in Limits, Query(group, limit)
  PROVE  ReadsInv'
<1>. DEFINE new == NewestFirst("fights", FightsIn(Groups[group]))
            rows == Taken(IF group = "closed" THEN Reverse(new) ELSE new, 0, limit)
            qs == reads.queries
            q == [group |-> group, rows |-> rows]
            live == IF qs = << >> THEN Live ELSE reads.live
<1>1. /\ \A i \in DOMAIN qs : qs[i].group # group
      /\ qs # << >> => limit = reads.limit
      /\ reads' = [limit |-> limit, queries |-> Append(qs, q), live |-> live]
      /\ UNCHANGED vars
  BY DEF Query
<1>2. limit \in Nat \ {0}
  BY PageConstants
<1>3. rows \in Seq(Nat) /\ (FightsIn(Groups[group]) # {} => rows # << >>)
  BY <1>2, FightsFound DEF ReadsInv
<1>4. /\ qs \in Seq(QueryRows) /\ reads.live \subseteq Live /\ reads.live \in SUBSET Nat
      /\ \A i, j \in DOMAIN qs : qs[i].group = qs[j].group => i = j
      /\ \A i \in DOMAIN qs : qs[i].group = "live" /\ reads.live # {} => qs[i].rows # << >>
  BY DEF ReadsInv
<1>5. Live \in SUBSET Nat /\ live \subseteq Live
  <2>1. Live \subseteq DOMAIN fights /\ DOMAIN fights \subseteq 1 .. MaxFights
    BY DEF ReadsInv, TypeOK, FightsTyped, Live, FightsIn
  <2>2. \A f \in 1 .. MaxFights : f \in Nat
    OBVIOUS
  <2>. QED BY <1>4, <2>1, <2>2
<1>. HIDE DEF rows
<1>6. q \in QueryRows /\ q.group = group /\ q.rows = rows
  BY <1>3 DEF QueryRows
<1>7. group = "live" /\ live # {} => rows # << >>
  <2>1. group = "live" => FightsIn(Groups[group]) = Live
    BY DEF Groups, Live
  <2>. QED BY <1>3, <1>5, <2>1
<1>. HIDE DEF q, qs, live
<1>8. /\ Append(qs, q) \in Seq(QueryRows) /\ Len(qs) \in Nat /\ DOMAIN qs = 1 .. Len(qs)
      /\ DOMAIN Append(qs, q) = 1 .. Len(qs) + 1
      /\ \A i \in 1 .. Len(qs) : Append(qs, q)[i] = qs[i]
      /\ Append(qs, q)[Len(qs) + 1] = q
  BY <1>4, <1>6, AppendProperties
<1>. DEFINE all == Append(qs, q)
<1>. HIDE DEF all
<1>9. \A i \in DOMAIN all : (i \in DOMAIN qs /\ all[i] = qs[i]) \/ (i = Len(qs) + 1 /\ all[i] = q)
  BY <1>8 DEF all
<1>10. \A i, j \in DOMAIN all : all[i].group = all[j].group => i = j
  BY <1>1, <1>4, <1>6, <1>9 DEF qs
<1>11. ASSUME NEW i \in DOMAIN all, all[i].group = "live", live # {} PROVE all[i].rows # << >>
  <2>1. CASE i \in DOMAIN qs /\ all[i] = qs[i]
    <3>1. qs # << >>
      BY <1>8, <2>1
    <3>2. live = reads.live
      BY <3>1 DEF live
    <3>. QED BY <1>4, <1>11, <2>1, <3>2
  <2>2. CASE all[i] = q
    BY <1>6, <1>7, <1>11, <2>2
  <2>. QED BY <1>9, <2>1, <2>2
<1>12. reads' \in [limit : Nat, queries : Seq(QueryRows), live : SUBSET Nat]
  BY <1>1, <1>2, <1>5, <1>8 DEF qs, all
<1>13. reads'.queries = all /\ reads'.live = live /\ reads'.limit = limit
  BY <1>1 DEF all, qs
<1>14. TypeOK' /\ Live' = Live
  BY <1>1 DEF ReadsInv, TypeOK, FightsTyped, TicketsTyped, RowsTyped, HistoryTyped, vars,
    Live, FightsIn
<1>. QED BY <1>2, <1>5, <1>10, <1>11, <1>12, <1>13, <1>14 DEF ReadsInv, QueryRows

LEMMA NextReads == ReadsInv /\ [PagesNext]_pageVars => ReadsInv'
<1>. SUFFICES ASSUME ReadsInv, [PagesNext]_pageVars PROVE ReadsInv'
  OBVIOUS
<1>1. CASE UNCHANGED <<vars, reads>>
  <2>1. TypeOK' /\ Live' = Live
    BY <1>1 DEF ReadsInv, TypeOK, FightsTyped, TicketsTyped, RowsTyped, HistoryTyped, vars,
      Live, FightsIn
  <2>. QED BY <1>1, <2>1 DEF ReadsInv, QueryRows
<1>2. CASE Walking
  <2>1. UNCHANGED <<vars, reads>>
    BY <1>2 DEF Walking, NextPage, Leave, FirstPage
  <2>. QED BY <1>1, <2>1
<1>3. CASE Present
  <2>1. reads' = [limit |-> 0, queries |-> << >>, live |-> {}] /\ UNCHANGED vars
    BY <1>3 DEF Present, NotRead
  <2>2. TypeOK'
    BY <2>1 DEF ReadsInv, TypeOK, FightsTyped, TicketsTyped, RowsTyped, HistoryTyped, vars
  <2>3. << >> \in Seq(QueryRows) /\ DOMAIN << >> = {}
    OBVIOUS
  <2>. QED BY <2>1, <2>2, <2>3 DEF ReadsInv, QueryRows
<1>4. ASSUME NEW group \in DOMAIN Groups, NEW n \in Limits, Query(group, n) PROVE ReadsInv'
  BY <1>4, QueryReads
<1>5. CASE Next /\ Changing
  <2>1. TypeOK'
    BY <1>5, NextType DEF ReadsInv
  <2>2. reads' = [reads EXCEPT !.live = reads.live \cap Live']
    BY <1>5 DEF Changing, Staying
  <2>3. /\ reads \in [limit : Nat, queries : Seq(QueryRows), live : SUBSET Nat]
        /\ \A i, j \in DOMAIN reads.queries :
             reads.queries[i].group = reads.queries[j].group => i = j
        /\ reads.queries # << >> => reads.limit > 0
        /\ \A i \in DOMAIN reads.queries :
             reads.queries[i].group = "live" /\ reads.live # {} => reads.queries[i].rows # << >>
    BY DEF ReadsInv
  <2>4. PICK kept : kept = reads.live \cap Live'
    OBVIOUS
  <2>5. /\ reads' \in [limit : Nat, queries : Seq(QueryRows), live : SUBSET Nat]
        /\ reads'.limit = reads.limit /\ reads'.queries = reads.queries /\ reads'.live = kept
    BY <2>2, <2>3, <2>4
  <2>6. reads'.live \subseteq Live' /\ (reads'.live # {} => reads.live # {})
    BY <2>4, <2>5
  <2>. QED BY <2>1, <2>3, <2>5, <2>6 DEF ReadsInv, QueryRows
<1>. QED BY <1>1, <1>2, <1>3, <1>4, <1>5 DEF PagesNext, Showing, pageVars

\* Three queries that differ are those for live, closed and settled fights.
LEMMA EachGroupRead ==
  ASSUME ReadsInv, AllRead, NEW group \in {"live", "closed", "settled"}
  PROVE  \E i \in DOMAIN reads.queries :
           reads.queries[i].group = group /\ RowsRead(group) = reads.queries[i].rows
<1>. DEFINE qs == reads.queries
<1>1. /\ qs \in Seq(QueryRows) /\ Len(qs) = 3
      /\ \A i, j \in DOMAIN qs : qs[i].group = qs[j].group => i = j
  BY DEF ReadsInv, AllRead
<1>. HIDE DEF qs
<1>2. DOMAIN qs = 1 .. 3 /\ \A i \in 1 .. 3 : qs[i] \in QueryRows
  BY <1>1
<1>3. DOMAIN Groups = {"live", "closed", "settled"}
  BY DEF Groups
<1>4. \A i \in 1 .. 3 : qs[i].group \in {"live", "closed", "settled"}
  BY <1>2, <1>3 DEF QueryRows
<1>5. /\ 1 \in 1 .. 3 /\ 2 \in 1 .. 3 /\ 3 \in 1 .. 3
      /\ qs[1].group # qs[2].group /\ qs[1].group # qs[3].group /\ qs[2].group # qs[3].group
  BY <1>1, <1>2
<1>6. qs[1].group = group \/ qs[2].group = group \/ qs[3].group = group
  BY <1>4, <1>5
<1>7. \E i \in DOMAIN qs : qs[i].group = group
  BY <1>2, <1>5, <1>6
<1>. QED BY <1>7 DEF RowsRead, qs

LEMMA LiveHeads == ReadsInv => LiveFightIsShown
<1>. SUFFICES ASSUME ReadsInv, AllRead, reads.live # {}
              PROVE  Current # << >> /\ Head(Current) \in ToSet(RowsRead("live"))
  BY DEF LiveFightIsShown
<1>1. ASSUME NEW group \in {"live", "closed", "settled"} PROVE IsList(RowsRead(group))
  <2>1. PICK i \in DOMAIN reads.queries : RowsRead(group) = reads.queries[i].rows
    BY EachGroupRead
  <2>2. reads.queries[i].rows \in Seq(Nat)
    <3>1. PICK qs \in Seq(QueryRows) : qs = reads.queries
      BY DEF ReadsInv
    <3>2. qs[i] \in QueryRows
      BY <3>1
    <3>. QED BY <3>1, <3>2 DEF QueryRows
  <2>. QED BY <2>1, <2>2, Listed
<1>2. RowsRead("live") # << >>
  <2>1. PICK i \in DOMAIN reads.queries :
          reads.queries[i].group = "live" /\ RowsRead("live") = reads.queries[i].rows
    BY EachGroupRead
  <2>. QED BY <2>1 DEF ReadsInv
<1>3. reads.limit \in Nat /\ reads.limit > 0
  <2>1. reads.queries \in Seq(QueryRows) /\ Len(reads.queries) = 3
    BY DEF ReadsInv, AllRead
  <2>2. reads.queries # << >>
    BY <2>1
  <2>. QED BY <2>2 DEF ReadsInv
<1>. DEFINE a == RowsRead("live")  b == RowsRead("closed")  c == RowsRead("settled")
            ab == a \o b
            abc == ab \o c
            t == Taken(abc, 0, reads.limit)
<1>4. IsList(a) /\ IsList(b) /\ IsList(c) /\ a # << >>
  BY <1>1, <1>2
<1>5. Current = t
  BY DEF Current
<1>. HIDE DEF a, b, c
<1>6. Len(a) \in Nat /\ Len(a) # 0 /\ DOMAIN a = 1 .. Len(a)
  <2>1. Len(a) \in Nat /\ DOMAIN a = 1 .. Len(a) /\ a \in Seq({a[i] : i \in DOMAIN a})
    BY <1>4, Listed DEF IsList
  <2>2. Len(a) # 0
    <3>. DEFINE S == {a[i] : i \in DOMAIN a}
    <3>1. a \in Seq(S) /\ a # << >>
      BY <1>4, <2>1
    <3>. HIDE DEF S
    <3>. QED BY <3>1, EmptySeq
  <2>. QED BY <2>1, <2>2
<1>7. /\ IsList(ab) /\ Len(ab) = Len(a) + Len(b) /\ Len(b) \in Nat
      /\ \A i \in 1 .. Len(a) : ab[i] = a[i]
  BY <1>4, ListConcat, Listed
<1>. HIDE DEF ab
<1>8. /\ IsList(abc) /\ Len(abc) = Len(ab) + Len(c) /\ Len(c) \in Nat
      /\ \A i \in 1 .. Len(ab) : abc[i] = ab[i]
  BY <1>4, <1>7, ListConcat, Listed
<1>9. 1 \in 1 .. Len(a) /\ 1 \in 1 .. Len(ab) /\ Len(abc) > 0
  BY <1>6, <1>7, <1>8
<1>10. abc[1] = a[1]
  BY <1>7, <1>8, <1>9
<1>. HIDE DEF abc
<1>11. /\ IsList(t) /\ Len(t) \in Nat
       /\ \A i \in 1 .. Len(t) : t[i] = abc[0 + i]
       /\ Len(t) = reads.limit \/ Len(abc) <= 0 + Len(t)
  <2>1. 0 \in Nat
    OBVIOUS
  <2>2. PICK limit \in Nat : limit = reads.limit
    BY <1>3
  <2>3. LET u == Taken(abc, 0, limit) IN
        /\ IsList(u) /\ Len(u) \in Nat
        /\ \A i \in 1 .. Len(u) : u[i] = abc[0 + i]
        /\ Len(u) = limit \/ Len(abc) <= 0 + Len(u)
    <3>1. IsList(abc)
      BY <1>8
    <3>. QED BY <2>1, <3>1, TakenLists
  <2>4. t = Taken(abc, 0, limit)
    BY <2>2
  <2>. HIDE DEF t
  <2>. QED BY <2>2, <2>3, <2>4
<1>. HIDE DEF t
<1>12. Len(t) # 0 /\ 1 \in 1 .. Len(t)
  <2>1. Len(abc) \in Nat
    BY <1>8, Listed
  <2>. QED BY <1>3, <1>9, <1>11, <2>1
<1>13. t # << >> /\ Head(t) = t[1]
  <2>1. t \in Seq({t[i] : i \in DOMAIN t})
    BY <1>11 DEF IsList
  <2>2. t # << >>
    BY <1>12
  <2>. DEFINE S == {t[i] : i \in DOMAIN t}
  <2>3. t \in Seq(S)
    BY <2>1
  <2>. HIDE DEF S
  <2>. QED BY <2>2, <2>3
<1>14. t[1] = a[1]
  <2>1. 0 + 1 = 1
    OBVIOUS
  <2>. QED BY <1>10, <1>11, <1>12, <2>1
<1>15. a[1] \in ToSet(a)
  BY <1>6, <1>9 DEF ToSet
<1>. QED BY <1>5, <1>13, <1>14, <1>15 DEF a

(***************************************************************************)
(* The three queries run in any order, with any operations in between, and *)
(* are cut to any limit: if some fight takes bets all along, the kiosks'   *)
(* list starts with one that did when it was looked for.                   *)
(***************************************************************************)
THEOREM LiveFightsHead == PagesSpec => []LiveFightIsShown
<1>1. PagesInit => ReadsInv
  BY InitReads
<1>2. ReadsInv /\ [PagesNext]_pageVars => ReadsInv'
  BY NextReads
<1>3. ReadsInv => LiveFightIsShown
  BY LiveHeads
<1>. QED BY <1>1, <1>2, <1>3, PTL DEF PagesSpec
=============================================================================
