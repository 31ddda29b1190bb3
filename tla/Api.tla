--------------------------------- MODULE Api ---------------------------------
(***************************************************************************)
(* The routes on top of the book: every mutating endpoint runs its service *)
(* and, once the transaction has committed, broadcasts what it changed.    *)
(* The screens know the book only from these frames: the kiosks show the   *)
(* fights, the admin's dashboard the tellers' balances and the commission  *)
(* leaderboard.  Between the commit and the broadcast other requests may   *)
(* commit and broadcast; the balance a ticket endpoint announces is read   *)
(* in between as well.  A replay and a refused request broadcast nothing.  *)
(* Delivery to a socket is WsHub's matter: here every frame arrives.       *)
(***************************************************************************)
EXTENDS Reports, SequencesExt

CONSTANT MaxAnswers     \* requests that overlap between commit and broadcast

VARIABLES answers,      \* what is still to be broadcast, in commit order
          screen,       \* kiosks: fightNumber -> what they show of the fight
          tills,        \* dashboard: teller -> balance
          board         \* dashboard: teller -> commission, when last fetched

apiVars == <<vars, answers, screen, tills, board>>

\* fightProjection; the odds are those of the pools.
Columns == {"status", "pool", "accepting"}
Projection(fight) ==
  [status |-> fight.status, pool |-> fight.pool, accepting |-> fight.accepting]

Leaderboard ==
  [t \in Tellers |->
     SumFunctionOnSet([f \in DOMAIN fights |-> TellerCommission(f, t)], DOMAIN fights)]

ApiInit ==
  /\ Init
  /\ answers = << >>
  /\ screen = << >>
  /\ tills = [t \in Tellers |-> 0]
  /\ board = [t \in Tellers |-> 0]

-----------------------------------------------------------------------------
(* Frames (fights.events, cash.events, reports.events)                     *)

\* A frame about a fight carries the columns of its row that it tells of:
\* FIGHT_OPENED, FIGHT_CLOSED, FIGHT_SETTLED, FIGHT_CANCELLED,
\* FIGHT_CORRECTED and FIGHT_UNSETTLED the whole projection.
FightFrame(f) == [about |-> "fight", fight |-> f, row |-> Projection(fights'[f])]

OddsFrame(f) == [about |-> "fight", fight |-> f, row |-> [pool |-> fights'[f].pool]]

\* Fault: only the side that was toggled.
SideFrameOfOne(f, side) ==
  [about |-> "fight", fight |-> f,
   row |-> [accepting |-> [s \in Sides |-> IF s = side THEN fights'[f].accepting[s] ELSE TRUE]]]

\* SIDE_HELD, SIDE_UNHELD
SideFrame(f, side) ==
  [about |-> "fight", fight |-> f, row |-> [accepting |-> fights'[f].accepting]]

\* TELLER_BALANCE_UPDATED, with the balance read in the transaction, or not
\* read yet.
BalanceFrame(t) == [about |-> "till", teller |-> t, known |-> TRUE,
                    balance |-> BalanceIn(ledger', t)]
BalanceLater(t) == [about |-> "till", teller |-> t, known |-> FALSE, balance |-> 0]

\* TELLER_COMMISSIONS_UPDATED: the dashboard fetches the report again.
CommissionsFrame == [about |-> "board"]

\* SESSION_RESET: every client clears what it shows and fetches it again.
ResetFrame == [about |-> "reset"]

Answer(frames) ==
  /\ Len(answers) < MaxAnswers
  /\ answers' = Append(answers, frames)
  /\ UNCHANGED <<screen, tills, board>>

-----------------------------------------------------------------------------
(* fights.routes                                                           *)

PostFight ==
  /\ CreateFight
  /\ \E f \in DOMAIN fights' \ DOMAIN fights : Answer(<<FightFrame(f)>>)

PostClose(f)      == CloseFight(f) /\ Answer(<<FightFrame(f)>>)
PostLastCall(f)   == SetFightLastCall(f) /\ Answer(<<FightFrame(f)>>)
PostResumeOpen(f) == ResumeFightOpen(f) /\ Answer(<<FightFrame(f)>>)
PostReopen(f)     == ReopenFight(f) /\ Answer(<<FightFrame(f)>>)

PostSettle(f, o) == SettleFight(f, o) /\ Answer(<<FightFrame(f), CommissionsFrame>>)

\* Fault: no signal when a declaration is reverted.
PostUnsettleSilently(f) ==
  /\ UnsettleFight(f)
  /\ Answer([i \in DOMAIN SetToSeq(Live) |-> FightFrame(SetToSeq(Live)[i])]
              \o <<FightFrame(f)>>)

PostUnsettle(f) ==
  /\ UnsettleFight(f)
  /\ Answer([i \in DOMAIN SetToSeq(Live) |-> FightFrame(SetToSeq(Live)[i])]
              \o <<FightFrame(f), CommissionsFrame>>)

PostCancel(f) == CancelFight(f) /\ Answer(<<FightFrame(f), CommissionsFrame>>)

PostCorrect(f, o) == CorrectFight(f, o) /\ Answer(<<FightFrame(f), CommissionsFrame>>)

PostHold(f, side)   == ToggleSide(f, side, FALSE) /\ Answer(<<SideFrame(f, side)>>)
PostUnhold(f, side) == ToggleSide(f, side, TRUE) /\ Answer(<<SideFrame(f, side)>>)

-----------------------------------------------------------------------------
(* bets.routes                                                             *)

PostBet(b, f, t, side, amount) ==
  PlaceBet(b, f, t, side, amount) /\ Answer(<<OddsFrame(f), BalanceLater(t)>>)

\* Fault: the odds are announced and the drawer is not.
PostVoidOddsOnly(b) == VoidBet(b) /\ Answer(<<OddsFrame(bets[b].fight)>>)

\* The balance is that of the teller who took the bet, whoever voids it.
PostVoid(b) ==
  VoidBet(b) /\ Answer(<<OddsFrame(bets[b].fight), BalanceLater(bets[b].teller)>>)

PostPay(b) == PayBet(b) /\ Answer(<<BalanceLater(bets[b].teller)>>)

DeletePurge(b) ==
  PurgeBet(b) /\ Answer(<<BalanceLater(bets[b].teller), CommissionsFrame>>)

-----------------------------------------------------------------------------
(* cash.routes                                                             *)

PostAdvance(t, amount) == CashAdvance(t, amount) /\ Answer(<<BalanceFrame(t)>>)
PostRemit(t, amount)   == CashRemit(t, amount) /\ Answer(<<BalanceFrame(t)>>)
DeleteRemitRow(r)      == DeleteRemit(r) /\ Answer(<<BalanceFrame(r.teller)>>)

-----------------------------------------------------------------------------
(* session.routes                                                          *)

\* The three tables are emptied (see SessionReset for how), and the drawers
\* with them.
PostReset ==
  /\ fights' = << >>
  /\ bets' = << >>
  /\ ledger' = EmptyBag
  /\ drawer' = [t \in Tellers |-> 0]
  /\ paidOut' = [f \in 1 .. MaxFights |-> 0]
  /\ purged' = [f \in 1 .. MaxFights |-> [s \in Sides |-> 0]]
  /\ UNCHANGED setting
  /\ Answer(<<ResetFrame>>)

-----------------------------------------------------------------------------
(* After the commit                                                        *)

Unread(frame) == frame.about = "till" /\ ~frame.known

\* computeTellerBalance, after the commit and before the broadcast.
WithBalance(frame) ==
  IF Unread(frame) THEN [about |-> "till", teller |-> frame.teller, known |-> TRUE,
                         balance |-> Balance(frame.teller)]
                   ELSE frame

ReadBalances(i) ==
  /\ \E j \in DOMAIN answers[i] : Unread(answers[i][j])
  /\ answers' = [answers EXCEPT ![i] = [j \in DOMAIN answers[i] |-> WithBalance(answers[i][j])]]
  /\ UNCHANGED <<vars, screen, tills, board>>

\* The frames that tell of a column of fight f.
Telling(frames, f, column) ==
  {j \in DOMAIN frames : /\ frames[j].about = "fight" /\ frames[j].fight = f
                         /\ column \in DOMAIN frames[j].row}

\* What a kiosk shows of fight f after some frames: the last word on each column.
Shown(f, frames) ==
  LET before == IF f \in DOMAIN screen THEN screen[f] ELSE Projection(NewFight(0)) IN
  [column \in Columns |->
     LET told == Telling(frames, f, column) IN
     IF told = {} THEN before[column] ELSE frames[Max(told)].row[column]]

FightsOf(frames) ==
  {frames[j].fight : j \in {k \in DOMAIN frames : frames[k].about = "fight"}}

Carries(frames, about) == \E j \in DOMAIN frames : frames[j].about = about

\* The balance of t in the frames, if there is one.
TillIn(frames, t) ==
  {frames[j].balance : j \in {k \in DOMAIN frames :
                                frames[k].about = "till" /\ frames[k].teller = t}}

Shows(frames) ==
  /\ screen' = [f \in DOMAIN screen \cup FightsOf(frames) |-> Shown(f, frames)]
  /\ tills' = [t \in Tellers |-> IF TillIn(frames, t) = {} THEN tills[t]
                                 ELSE CHOOSE a \in TillIn(frames, t) : TRUE]
  /\ board' = IF Carries(frames, "board") THEN Leaderboard ELSE board

FetchesAgain ==
  /\ screen' = [f \in DOMAIN fights |-> Projection(fights[f])]
  /\ tills' = [t \in Tellers |-> Balance(t)]
  /\ board' = Leaderboard

\* The frames of an answer go out without a pause; any answer may be next.
Send(i) ==
  /\ \A j \in DOMAIN answers[i] : ~Unread(answers[i][j])
  /\ IF Carries(answers[i], "reset") THEN FetchesAgain ELSE Shows(answers[i])
  /\ answers' = RemoveAt(answers, i)
  /\ UNCHANGED vars

-----------------------------------------------------------------------------

FightRoutes ==
  \/ PostFight
  \/ \E f \in DOMAIN fights :
       \/ PostClose(f) \/ PostLastCall(f) \/ PostResumeOpen(f) \/ PostReopen(f)
       \/ \E o \in Outcomes : PostSettle(f, o) \/ PostCorrect(f, o)
       \/ PostUnsettle(f) \/ PostCancel(f)
       \/ \E s \in Sides : PostHold(f, s) \/ PostUnhold(f, s)

BetRoutes ==
  \/ \E b \in BetIds, f \in DOMAIN fights, t \in Tellers, s \in Sides, a \in Stakes :
       PostBet(b, f, t, s, a)
  \/ \E b \in DOMAIN bets : PostVoid(b) \/ PostPay(b) \/ DeletePurge(b)

CashRoutes ==
  \/ \E t \in Tellers, a \in CashAmounts : PostAdvance(t, a) \/ PostRemit(t, a)
  \/ \E r \in DOMAIN ledger : DeleteRemitRow(r)

Requesting == FightRoutes \/ BetRoutes \/ CashRoutes \/ PostReset

Answering == \E i \in DOMAIN answers : ReadBalances(i) \/ Send(i)

ApiNext == Requesting \/ Answering

ApiSpec == ApiInit /\ [][ApiNext]_apiVars

\* Requests that overlap, but broadcast in the order in which they committed.
AnsweringInOrder ==
  \/ \E i \in DOMAIN answers : ReadBalances(i)
  \/ answers # << >> /\ Send(1)

OrderlyNext == Requesting \/ AnsweringInOrder

OrderlySpec == ApiInit /\ [][OrderlyNext]_apiVars

-----------------------------------------------------------------------------

Settling == answers # << >>

(***************************************************************************)
(* docs/realtime-events.md gives a frame to every change after which a     *)
(* kiosk "would do the wrong thing".  Whatever sequence of endpoints ran,  *)
(* once the last one has broadcast the kiosks show of each fight the       *)
(* status, the pools and the held sides that are in the table.             *)
(***************************************************************************)
KiosksInSync ==
  Settling \/ screen = [f \in DOMAIN fights |-> Projection(fights[f])]

(***************************************************************************)
(* TELLER_BALANCE_UPDATED "fires on every TellerLedger append so the admin *)
(* dashboard can show live running balances" (docs/realtime-events.md):    *)
(* once everything is broadcast, it shows the ledger's.                    *)
(***************************************************************************)
DashboardInSync == Settling \/ \A t \in Tellers : tills[t] = Balance(t)

(***************************************************************************)
(* TELLER_COMMISSIONS_UPDATED fires "after every fight transition that     *)
(* mutates realized commission" (docs/realtime-events.md): no other        *)
(* endpoint changes the leaderboard the dashboard fetched.                 *)
(***************************************************************************)
LeaderboardInSync == Settling \/ board = Leaderboard
=============================================================================
