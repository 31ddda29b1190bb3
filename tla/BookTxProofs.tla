---------------------------- MODULE BookTxProofs ----------------------------
(***************************************************************************)
(* What the locks are good for, for every instance of BookTx: any number   *)
(* of requests in flight, of fights and of tickets.  The lock of the fight *)
(* row keeps fight rows coherent, the lock of the ticket row keeps a       *)
(* payment current, and requests that keep out of each other's way where   *)
(* there is no lock do the steps of Book.                                  *)
(***************************************************************************)
EXTENDS SessionReset, BookProofs, SequenceTheorems

Columns == {"status", "rate", "pool", "accepting",
            "outcome", "ratios", "prevOutcome", "prevRatios"}

RowCoherent(row) ==
  /\ row.status = "SETTLED" <=> row.outcome # None
  /\ row.ratios = IF row.outcome = None THEN NoRatios
                  ELSE PayoutRatios(row.pool, row.rate, row.outcome)

RowsCoherent ==
  /\ fights = [f \in DOMAIN fights |-> fights[f]]
  /\ \A f \in DOMAIN fights : DOMAIN fights[f] = Columns /\ RowCoherent(fights[f])

Amends(request) == request.op \in {"correct", "unsettle"}

\* The fights a request has locked.
Held(s) == IF Amends(tx[s]) THEN {tx[s].fight} \cup tx[s].live ELSE {}

\* A request that amends a declaration finds what it locked as it read it.
LocksHeld ==
  \A s \in Sessions : Amends(tx[s]) =>
    /\ tx[s].fight \in DOMAIN fights
    /\ fights[tx[s].fight].status = "SETTLED"
    /\ \A g \in tx[s].live : g \in DOMAIN fights /\ fights[g].status \in LiveStatuses
    /\ tx[s].op = "correct" => tx[s].live = {} /\ tx[s].outcome \in Outcomes

LocksExclusive ==
  \A r, s \in Sessions : r # s => Held(r) \cap Held(s) = {}

LockInv == DOMAIN tx = Sessions /\ LocksHeld /\ LocksExclusive

CoherenceInv == RowsCoherent /\ LockInv

-----------------------------------------------------------------------------
(* What a write of a fight row may do                                      *)

\* A row without a result goes on without one.
StaysUndeclared(row, new) ==
  /\ row.status # "SETTLED" /\ new.status # "SETTLED"
  /\ new.outcome = row.outcome /\ new.ratios = row.ratios

Declared(new) ==
  /\ new.status = "SETTLED" /\ new.outcome \in Outcomes
  /\ new.ratios = PayoutRatios(new.pool, new.rate, new.outcome)

Undeclared(new) ==
  new.status # "SETTLED" /\ new.outcome = None /\ new.ratios = NoRatios

Written(row, new) ==
  /\ DOMAIN new = Columns
  /\ StaysUndeclared(row, new) \/ Declared(new) \/ Undeclared(new)

\* One row is written, the others stay.
WritesOnly(f) ==
  /\ fights' = [fights EXCEPT ![f] = fights'[f]]
  /\ Written(fights[f], fights'[f])

LEMMA WrittenCoherent ==
  ASSUME NEW row, NEW new, RowCoherent(row), Written(row, new)
  PROVE  DOMAIN new = Columns /\ RowCoherent(new)
<1>1. None \notin Outcomes
  BY DEF None, Outcomes, Sides
<1>. QED BY <1>1 DEF RowCoherent, Written, StaysUndeclared, Declared, Undeclared

\* Rows one by one are enough.
LEMMA RowsWritten ==
  ASSUME RowsCoherent, fights' = [f \in DOMAIN fights |-> fights'[f]],
         \A f \in DOMAIN fights : fights'[f] = fights[f] \/ Written(fights[f], fights'[f])
  PROVE  RowsCoherent'
BY WrittenCoherent DEF RowsCoherent

LEMMA OneRowWritten ==
  ASSUME RowsCoherent, NEW f \in DOMAIN fights, WritesOnly(f)
  PROVE  /\ RowsCoherent'
         /\ DOMAIN fights' = DOMAIN fights
         /\ \A g \in DOMAIN fights : g # f => fights'[g] = fights[g]
<1>1. fights' = [g \in DOMAIN fights |-> fights'[g]]
  BY DEF WritesOnly, RowsCoherent
<1>2. \A g \in DOMAIN fights : g # f => fights'[g] = fights[g]
  BY DEF WritesOnly
<1>. QED BY <1>1, <1>2, RowsWritten DEF WritesOnly

-----------------------------------------------------------------------------
(* The operations that are one step                                        *)

LEMMA MoveWrites ==
  ASSUME RowsCoherent, NEW f \in DOMAIN fights, NEW from, NEW to, "SETTLED" \notin from,
         to # "SETTLED", MoveFight(f, from, to)
  PROVE  WritesOnly(f)
<1>. DEFINE new == [fights[f] EXCEPT !.status = to]
<1>1. fights' = [fights EXCEPT ![f] = new]
  BY DEF MoveFight
<1>2. Written(fights[f], new)
  BY DEF MoveFight, RowsCoherent, Columns, Written, StaysUndeclared
<1>. HIDE DEF new
<1>. QED BY <1>1, <1>2 DEF WritesOnly

LEMMA ToggleWrites ==
  ASSUME RowsCoherent, NEW f \in DOMAIN fights, NEW side, NEW a, ToggleSide(f, side, a)
  PROVE  WritesOnly(f)
<1>. DEFINE new == [fights[f] EXCEPT !.accepting[side] = a]
<1>1. fights' = [fights EXCEPT ![f] = new]
  BY DEF ToggleSide
<1>2. Written(fights[f], new)
  BY DEF ToggleSide, Live, FightsIn, LiveStatuses, RowsCoherent, Columns, Written, StaysUndeclared
<1>. HIDE DEF new
<1>. QED BY <1>1, <1>2 DEF WritesOnly

LEMMA PlaceWrites ==
  ASSUME RowsCoherent, NEW f \in DOMAIN fights, NEW b, NEW t, NEW side, NEW amount,
         PlaceBet(b, f, t, side, amount)
  PROVE  WritesOnly(f)
<1>. DEFINE new == [fights[f] EXCEPT !.pool[side] = @ + amount]
<1>1. fights' = [fights EXCEPT ![f] = new]
  BY DEF PlaceBet
<1>2. Written(fights[f], new)
  BY DEF PlaceBet, AcceptsBets, Live, FightsIn, LiveStatuses, RowsCoherent, Columns,
         Written, StaysUndeclared
<1>. HIDE DEF new
<1>. QED BY <1>1, <1>2 DEF WritesOnly

LEMMA VoidWrites ==
  ASSUME RowsCoherent, NEW f \in DOMAIN fights, NEW b \in TicketsOf(f), VoidBet(b)
  PROVE  WritesOnly(f)
<1>. DEFINE new == [fights[f] EXCEPT !.pool[bets[b].side] = @ - bets[b].amount]
<1>1. bets[b].fight = f
  BY DEF TicketsOf
<1>2. fights' = [fights EXCEPT ![f] = new]
  BY <1>1 DEF VoidBet
<1>3. Written(fights[f], new)
  BY <1>1 DEF VoidBet, Live, FightsIn, LiveStatuses, RowsCoherent, Columns,
              Written, StaysUndeclared
<1>. HIDE DEF new
<1>. QED BY <1>2, <1>3 DEF WritesOnly

LEMMA SettleWrites ==
  ASSUME RowsCoherent, NEW f \in DOMAIN fights, NEW o \in Outcomes, SettleFight(f, o)
  PROVE  WritesOnly(f)
<1>. DEFINE ratios == PayoutRatios(fights[f].pool, fights[f].rate, o)
            new == [fights[f] EXCEPT !.status = "SETTLED", !.outcome = o, !.ratios = ratios]
<1>1. fights' = [fights EXCEPT ![f] = new]
  BY DEF SettleFight
<1>2. Written(fights[f], new)
  <2>1. /\ DOMAIN new = Columns
        /\ new.status = "SETTLED" /\ new.outcome = o /\ new.ratios = ratios
        /\ new.pool = fights[f].pool /\ new.rate = fights[f].rate
    <3>. HIDE DEF ratios
    <3>. QED BY DEF RowsCoherent, Columns
  <2>. HIDE DEF new
  <2>. QED BY <2>1 DEF Written, Declared
<1>. HIDE DEF new
<1>. QED BY <1>1, <1>2 DEF WritesOnly

LEMMA CancelWrites ==
  ASSUME RowsCoherent, NEW f \in DOMAIN fights, CancelFight(f)
  PROVE  WritesOnly(f)
<1>. DEFINE new == [fights[f] EXCEPT !.status = "CANCELLED"]
<1>1. fights' = [fights EXCEPT ![f] = new]
  BY DEF CancelFight
<1>2. Written(fights[f], new)
  BY DEF CancelFight, LiveStatuses, RowsCoherent, Columns, Written, StaysUndeclared
<1>. HIDE DEF new
<1>. QED BY <1>1, <1>2 DEF WritesOnly

LEMMA FightLockWrites ==
  ASSUME RowsCoherent, NEW f \in DOMAIN fights, UnderFightLock(f)
  PROVE  WritesOnly(f)
<1>1. CASE CloseFight(f) \/ ReopenFight(f) \/ SetFightLastCall(f) \/ ResumeFightOpen(f)
  BY <1>1, MoveWrites DEF CloseFight, ReopenFight, SetFightLastCall, ResumeFightOpen, LiveStatuses
<1>2. CASE \E s \in Sides, a \in BOOLEAN : ToggleSide(f, s, a)
  BY <1>2, ToggleWrites
<1>3. CASE \E o \in Outcomes : SettleFight(f, o)
  BY <1>3, SettleWrites
<1>4. CASE CancelFight(f)
  BY <1>4, CancelWrites
<1>5. CASE \E b \in BetIds, t \in Tellers, s \in Sides, a \in Stakes : PlaceBet(b, f, t, s, a)
  BY <1>5, PlaceWrites
<1>6. CASE \E b \in TicketsOf(f) : VoidBet(b)
  BY <1>6, VoidWrites
<1>. QED BY <1>1, <1>2, <1>3, <1>4, <1>5, <1>6 DEF UnderFightLock

-----------------------------------------------------------------------------
(* Locks                                                                   *)

LEMMA LockedIsHeld ==
  ASSUME NEW f
  PROVE  FightLocked(f) <=> \E s \in Sessions : f \in Held(s)
BY DEF FightLocked, Held, Amends

\* Writes of rows that nobody else has locked keep the locks.
LEMMA LocksKept ==
  ASSUME LockInv, DOMAIN tx' = Sessions, DOMAIN fights \subseteq DOMAIN fights',
         \A s \in Sessions : \/ ~Amends(tx'[s])
                             \/ /\ tx'[s] = tx[s]
                                /\ \A g \in Held(s) : fights'[g] = fights[g]
  PROVE  LockInv'
<1>1. \A s \in Sessions : Held(s)' = {} \/ Held(s)' = Held(s)
  BY DEF Held
<1>2. LocksExclusive'
  BY <1>1 DEF LockInv, LocksExclusive
<1>3. LocksHeld'
  <2>. SUFFICES ASSUME NEW s \in Sessions, Amends(tx'[s])
                PROVE  /\ tx'[s].fight \in DOMAIN fights'
                       /\ fights'[tx'[s].fight].status = "SETTLED"
                       /\ \A g \in tx'[s].live : /\ g \in DOMAIN fights'
                                                  /\ fights'[g].status \in LiveStatuses
                       /\ tx'[s].op = "correct" => tx'[s].live = {} /\ tx'[s].outcome \in Outcomes
    BY DEF LocksHeld, Amends
  <2>1. tx'[s] = tx[s] /\ \A g \in Held(s) : fights'[g] = fights[g]
    OBVIOUS
  <2>2. Amends(tx[s])
    BY <2>1
  <2>3. tx[s].fight \in Held(s) /\ tx[s].live \subseteq Held(s)
    BY <2>2 DEF Held
  <2>. QED BY <2>1, <2>2, <2>3 DEF LockInv, LocksHeld
<1>. QED BY <1>2, <1>3 DEF LockInv

\* A request takes locks that nobody has.
LEMMA LocksTaken ==
  ASSUME LockInv, UNCHANGED fights, NEW s \in Sessions, NEW request,
         tx[s] = Idle, tx' = [tx EXCEPT ![s] = request], Amends(request),
         request.fight \in DOMAIN fights, fights[request.fight].status = "SETTLED",
         \A g \in request.live : g \in DOMAIN fights /\ fights[g].status \in LiveStatuses,
         request.op = "correct" => request.live = {} /\ request.outcome \in Outcomes,
         \A g \in {request.fight} \cup request.live : ~FightLocked(g)
  PROVE  LockInv'
<1>1. tx'[s] = request /\ \A r \in Sessions \ {s} : tx'[r] = tx[r]
  BY DEF LockInv
<1>2. Held(s)' = {request.fight} \cup request.live
  BY <1>1 DEF Held
<1>3. \A r \in Sessions \ {s} : Held(r)' = Held(r)
  BY <1>1 DEF Held
<1>4. \A r \in Sessions : Held(r) \cap ({request.fight} \cup request.live) = {}
  BY LockedIsHeld
<1>5. LocksExclusive'
  BY <1>2, <1>3, <1>4 DEF LockInv, LocksExclusive
<1>6. LocksHeld'
  <2>. SUFFICES ASSUME NEW r \in Sessions, Amends(tx'[r])
                PROVE  /\ tx'[r].fight \in DOMAIN fights
                       /\ fights[tx'[r].fight].status = "SETTLED"
                       /\ \A g \in tx'[r].live : /\ g \in DOMAIN fights
                                                  /\ fights[g].status \in LiveStatuses
                       /\ tx'[r].op = "correct" => tx'[r].live = {} /\ tx'[r].outcome \in Outcomes
    BY DEF LocksHeld, Amends
  <2>1. CASE r = s
    BY <1>1, <2>1
  <2>2. CASE r # s
    BY <1>1, <2>2 DEF LockInv, LocksHeld
  <2>. QED BY <2>1, <2>2
<1>. QED BY <1>5, <1>6 DEF LockInv

\* A request writes what it has locked, and ends.
LEMMA HolderWrites ==
  ASSUME LockInv, NEW s \in Sessions, Done(s), DOMAIN fights' = DOMAIN fights,
         \A g \in DOMAIN fights : g \notin Held(s) => fights'[g] = fights[g]
  PROVE  LockInv'
<1>1. DOMAIN tx' = Sessions /\ tx'[s] = Idle /\ \A r \in Sessions \ {s} : tx'[r] = tx[r]
  BY DEF LockInv, Done
<1>2. ~Amends(tx'[s])
  BY <1>1 DEF Amends, Idle
<1>3. ASSUME NEW r \in Sessions \ {s}, NEW g \in Held(r), Amends(tx[r])
      PROVE  fights'[g] = fights[g]
  <2>1. g \notin Held(s)
    BY DEF LockInv, LocksExclusive
  <2>2. g \in DOMAIN fights
    BY <1>3 DEF LockInv, LocksHeld, Held
  <2>. QED BY <2>1, <2>2
<1>. QED BY <1>1, <1>2, <1>3, LocksKept

\* Steps of requests that lock no fight.
LEMMA OthersKeep ==
  ASSUME CoherenceInv, UNCHANGED fights, DOMAIN tx' = Sessions,
         \A s \in Sessions : tx'[s] = tx[s] \/ ~Amends(tx'[s])
  PROVE  CoherenceInv'
<1>1. RowsCoherent'
  BY DEF CoherenceInv, RowsCoherent
<1>2. LockInv'
  BY LocksKept DEF CoherenceInv
<1>. QED BY <1>1, <1>2 DEF CoherenceInv

-----------------------------------------------------------------------------
(* Steps                                                                   *)

LEMMA DirectKeeps ==
  ASSUME CoherenceInv, Direct
  PROVE  CoherenceInv'
<1>1. CASE Unlocked /\ UNCHANGED tx
  BY <1>1, OthersKeep DEF Unlocked, UpdateSetting, CashAdvance, DeleteRemit, CoherenceInv, LockInv
<1>2. ASSUME NEW f \in DOMAIN fights, UnderFightLock(f), UNCHANGED tx
      PROVE  CoherenceInv'
  <2>1. WritesOnly(f)
    BY <1>2, FightLockWrites DEF CoherenceInv
  <2>2. /\ RowsCoherent'
        /\ DOMAIN fights' = DOMAIN fights
        /\ \A g \in DOMAIN fights : g # f => fights'[g] = fights[g]
    BY <2>1, OneRowWritten DEF CoherenceInv
  <2>3. \A s \in Sessions : f \notin Held(s)
    BY <1>2, LockedIsHeld DEF UnderFightLock
  <2>4. \A s \in Sessions : \A g \in Held(s) : g \in DOMAIN fights
    BY DEF CoherenceInv, LockInv, LocksHeld, Held
  <2>5. LockInv'
    BY <1>2, <2>2, <2>3, <2>4, LocksKept DEF CoherenceInv, LockInv
  <2>. QED BY <2>2, <2>5 DEF CoherenceInv
<1>. QED BY <1>1, <1>2 DEF Direct

LEMMA CreateKeeps ==
  ASSUME CoherenceInv, NEW s \in Sessions, Creating(s)
  PROVE  CoherenceInv'
<1>1. CASE CreateRead(s)
  BY <1>1, OthersKeep DEF CreateRead, Begin, bookVars, vars, CoherenceInv, LockInv, Amends
<1>2. CASE CreateWrite(s)
  <2>1. PICK n \in 1 .. MaxFights :
          /\ IsNextNumber(n)
          /\ fights' = [f \in DOMAIN fights \cup {n} |->
                          IF f = n THEN NewFight(setting) ELSE fights[f]]
    BY <1>2 DEF CreateWrite
  <2>2. n \notin DOMAIN fights
    BY <2>1 DEF IsNextNumber
  <2>3. DOMAIN NewFight(setting) = Columns /\ RowCoherent(NewFight(setting))
    BY DEF NewFight, Columns, RowCoherent
  <2>4. RowsCoherent'
    BY <2>1, <2>3 DEF CoherenceInv, RowsCoherent
  <2>5. \A g \in DOMAIN fights : g \in DOMAIN fights' /\ fights'[g] = fights[g]
    BY <2>1, <2>2
  <2>6. \A r \in Sessions : \A g \in Held(r) : g \in DOMAIN fights
    BY DEF CoherenceInv, LockInv, LocksHeld, Held
  <2>7. DOMAIN tx' = Sessions /\ \A r \in Sessions : tx'[r] = tx[r] \/ ~Amends(tx'[r])
    BY <1>2 DEF CreateWrite, Done, Idle, Amends, CoherenceInv, LockInv
  <2>8. LockInv'
    BY <2>5, <2>6, <2>7, LocksKept DEF CoherenceInv
  <2>. QED BY <2>4, <2>8 DEF CoherenceInv
<1>. QED BY <1>1, <1>2 DEF Creating

\* Two corrections, or a correction and a revert, of one fight cannot both
\* be between their read and their write.
LEMMA CorrectKeeps ==
  ASSUME CoherenceInv, NEW s \in Sessions, Amending(s)
  PROVE  CoherenceInv'
<1>1. ASSUME NEW f \in DOMAIN fights, NEW o \in Outcomes, CorrectRead(s, f, o)
      PROVE  CoherenceInv'
  <2>1. PICK plan : /\ tx[s] = Idle
                    /\ tx' = [tx EXCEPT ![s] = [op |-> "correct", fight |-> f, live |-> {},
                                                outcome |-> o, plan |-> plan]]
                    /\ UNCHANGED fights
    BY <1>1 DEF CorrectRead, Begin, bookVars, vars
  <2>. DEFINE request == [op |-> "correct", fight |-> f, live |-> {}, outcome |-> o, plan |-> plan]
  <2>2. /\ Amends(request) /\ request.fight = f /\ request.live = {}
        /\ request.op = "correct" /\ request.outcome = o
    BY DEF Amends
  <2>3. ~FightLocked(f) /\ fights[f].status = "SETTLED"
    BY <1>1 DEF CorrectRead
  <2>4. tx' = [tx EXCEPT ![s] = request]
    BY <2>1
  <2>. HIDE DEF request
  <2>5. LockInv'
    BY <2>1, <2>2, <2>3, <2>4, LocksTaken DEF CoherenceInv
  <2>6. RowsCoherent'
    BY <2>1 DEF CoherenceInv, RowsCoherent
  <2>. QED BY <2>5, <2>6 DEF CoherenceInv
<1>2. CASE CorrectWrite(s)
  <2>. DEFINE f == tx[s].fight
              o == tx[s].outcome
              ratios == PayoutRatios(fights[f].pool, fights[f].rate, o)
              new == [fights[f] EXCEPT !.outcome = o, !.ratios = ratios,
                                       !.prevOutcome = fights[f].outcome,
                                       !.prevRatios = fights[f].ratios]
  <2>1. /\ Amends(tx[s]) /\ f \in DOMAIN fights /\ fights[f].status = "SETTLED"
        /\ o \in Outcomes /\ f \in Held(s)
    BY <1>2 DEF CorrectWrite, Amends, CoherenceInv, LockInv, LocksHeld, Held
  <2>2. fights' = [fights EXCEPT ![f] = new]
    BY <1>2 DEF CorrectWrite
  <2>3. Written(fights[f], new)
    <3>1. /\ DOMAIN new = Columns
          /\ new.status = "SETTLED" /\ new.outcome = o /\ new.ratios = ratios
          /\ new.pool = fights[f].pool /\ new.rate = fights[f].rate
      <4>. HIDE DEF ratios, f, o
      <4>. QED BY <2>1 DEF CoherenceInv, RowsCoherent, Columns
    <3>. HIDE DEF new
    <3>. QED BY <2>1, <3>1 DEF Written, Declared
  <2>. HIDE DEF new
  <2>4. WritesOnly(f)
    BY <2>1, <2>2, <2>3 DEF WritesOnly
  <2>. HIDE DEF f
  <2>5. /\ RowsCoherent'
        /\ DOMAIN fights' = DOMAIN fights
        /\ \A g \in DOMAIN fights : g # f => fights'[g] = fights[g]
    BY <2>1, <2>4, OneRowWritten DEF CoherenceInv
  <2>6. LockInv'
    BY <1>2, <2>1, <2>5, HolderWrites DEF CorrectWrite, CoherenceInv
  <2>. QED BY <2>5, <2>6 DEF CoherenceInv
<1>. QED BY <1>1, <1>2 DEF Amending

\* A revert writes the fights it locked: its own, and those that were live.
LEMMA UnsettleKeeps ==
  ASSUME CoherenceInv, NEW s \in Sessions, Returning(s)
  PROVE  CoherenceInv'
<1>1. ASSUME NEW f \in DOMAIN fights, UnsettleRead(s, f)
      PROVE  CoherenceInv'
  <2>1. PICK plan : /\ tx[s] = Idle
                    /\ tx' = [tx EXCEPT ![s] = [op |-> "unsettle", fight |-> f, live |-> Live,
                                                plan |-> plan]]
                    /\ UNCHANGED fights
    BY <1>1 DEF UnsettleRead, Begin, bookVars, vars
  <2>. DEFINE request == [op |-> "unsettle", fight |-> f, live |-> Live, plan |-> plan]
  <2>2. /\ Amends(request) /\ request.fight = f /\ request.live = Live
        /\ request.op = "unsettle"
    BY DEF Amends
  <2>3. /\ ~FightLocked(f) /\ fights[f].status = "SETTLED"
        /\ \A g \in Live : ~FightLocked(g)
    BY <1>1 DEF UnsettleRead
  <2>4. tx' = [tx EXCEPT ![s] = request]
    BY <2>1
  <2>5. \A g \in Live : g \in DOMAIN fights /\ fights[g].status \in LiveStatuses
    BY DEF Live, FightsIn
  <2>. HIDE DEF request
  <2>6. LockInv'
    BY <2>1, <2>2, <2>3, <2>4, <2>5, LocksTaken DEF CoherenceInv
  <2>7. RowsCoherent'
    BY <2>1 DEF CoherenceInv, RowsCoherent
  <2>. QED BY <2>6, <2>7 DEF CoherenceInv
<1>2. CASE UnsettleWrite(s)
  <2>. DEFINE f == tx[s].fight
              undone == [fights[f] EXCEPT !.status = "CLOSED", !.outcome = None,
                           !.ratios = NoRatios, !.prevOutcome = None, !.prevRatios = NoRatios]
              closed(g) == [fights[g] EXCEPT !.status = "CLOSED"]
  <2>1. /\ Amends(tx[s]) /\ f \in DOMAIN fights
        /\ \A g \in tx[s].live : g \in DOMAIN fights /\ fights[g].status \in LiveStatuses
        /\ Held(s) = {f} \cup tx[s].live
    BY <1>2 DEF UnsettleWrite, Amends, CoherenceInv, LockInv, LocksHeld, Held
  <2>2. fights' = [g \in DOMAIN fights |->
          CASE g = f -> undone [] g \in tx[s].live -> closed(g) [] OTHER -> fights[g]]
    BY <1>2 DEF UnsettleWrite
  <2>3. Written(fights[f], undone)
    BY <2>1 DEF CoherenceInv, RowsCoherent, Columns, Written, Undeclared
  <2>4. \A g \in tx[s].live : Written(fights[g], closed(g))
    BY <2>1 DEF CoherenceInv, RowsCoherent, Columns, Written, StaysUndeclared, LiveStatuses
  <2>. HIDE DEF undone, closed, f
  <2>5. /\ fights' = [g \in DOMAIN fights |-> fights'[g]]
        /\ DOMAIN fights' = DOMAIN fights
    BY <2>2
  <2>6. \A g \in DOMAIN fights : g \notin Held(s) => fights'[g] = fights[g]
    BY <2>1, <2>2
  <2>7. \A g \in DOMAIN fights : fights'[g] = fights[g] \/ Written(fights[g], fights'[g])
    BY <2>2, <2>3, <2>4
  <2>8. RowsCoherent'
    BY <2>5, <2>7, RowsWritten DEF CoherenceInv
  <2>9. LockInv'
    BY <1>2, <2>5, <2>6, HolderWrites DEF UnsettleWrite, CoherenceInv
  <2>. QED BY <2>8, <2>9 DEF CoherenceInv
<1>. QED BY <1>1, <1>2 DEF Returning

LEMMA RestKeeps ==
  ASSUME CoherenceInv, NEW s \in Sessions,
         Redeeming(s) \/ Erasing(s) \/ Remitting(s) \/ GivingUp(s)
  PROVE  CoherenceInv'
<1>. USE DEF CoherenceInv, LockInv, Amends, Idle
<1>1. ASSUME NEW b, PayRead(s, b) PROVE CoherenceInv'
  BY <1>1, OthersKeep DEF PayRead, Begin, bookVars, vars
<1>2. CASE PayWrite(s)
  BY <1>2, OthersKeep DEF PayWrite, Done
<1>3. ASSUME NEW b, PurgeRead(s, b) PROVE CoherenceInv'
  BY <1>3, OthersKeep DEF PurgeRead, Begin, bookVars, vars
<1>4. CASE PurgeWrite(s)
  BY <1>4, OthersKeep DEF PurgeWrite
<1>5. ASSUME NEW t, NEW a, RemitRead(s, t, a) PROVE CoherenceInv'
  BY <1>5, OthersKeep DEF RemitRead, Begin, bookVars, vars
<1>6. CASE RemitWrite(s)
  BY <1>6, OthersKeep DEF RemitWrite, Done
<1>7. CASE GivingUp(s)
  BY <1>7, OthersKeep DEF GivingUp, Rejected, Timeout, Done, bookVars, vars
<1>. QED BY <1>1, <1>2, <1>3, <1>4, <1>5, <1>6, <1>7 DEF Redeeming, Erasing, Remitting

\* Before the first fight of a session.
Blank == fights = << >> /\ bets = << >> /\ tx = [s \in Sessions |-> Idle]

LEMMA BlankCoherent == Blank => CoherenceInv
<1>. SUFFICES ASSUME Blank PROVE CoherenceInv
  OBVIOUS
<1>1. RowsCoherent
  BY DEF Blank, RowsCoherent
<1>2. \A s \in Sessions : ~Amends(tx[s])
  BY DEF Blank, Idle, Amends
<1>3. LockInv
  BY <1>2 DEF Blank, LockInv, LocksHeld, LocksExclusive, Held
<1>. QED BY <1>1, <1>3 DEF CoherenceInv

LEMMA InitCoherent == TxInit => CoherenceInv
BY BlankCoherent DEF TxInit, Init, Blank

LEMMA NextCoherent == CoherenceInv /\ [TxNext]_txVars => CoherenceInv'
<1>. SUFFICES ASSUME CoherenceInv, [TxNext]_txVars PROVE CoherenceInv'
  OBVIOUS
<1>1. CASE Direct
  BY <1>1, DirectKeeps
<1>2. ASSUME NEW s \in Sessions, Creating(s) PROVE CoherenceInv'
  BY <1>2, CreateKeeps
<1>3. ASSUME NEW s \in Sessions, Amending(s) PROVE CoherenceInv'
  BY <1>3, CorrectKeeps
<1>4. ASSUME NEW s \in Sessions, Returning(s) PROVE CoherenceInv'
  BY <1>4, UnsettleKeeps
<1>5. ASSUME NEW s \in Sessions, Redeeming(s) \/ Erasing(s) \/ Remitting(s) \/ GivingUp(s)
      PROVE  CoherenceInv'
  BY <1>5, RestKeeps
<1>6. CASE UNCHANGED txVars
  BY <1>6, OthersKeep DEF txVars, vars, CoherenceInv, LockInv
<1>. QED BY <1>1, <1>2, <1>3, <1>4, <1>5, <1>6 DEF TxNext

(***************************************************************************)
(* However many admins declare, correct and revert the same fights at the  *)
(* same time, each in a read and a later write, a fight row has a result   *)
(* exactly when it is settled, and the ratios of that result and of its    *)
(* pools: the lock of the fight row is enough (fights.service.js,          *)
(* lockFightById).                                                         *)
(***************************************************************************)
THEOREM FightRowsCohere == TxSpec => []FightRowCoherent
<1>1. TxInit => CoherenceInv
  BY InitCoherent
<1>2. CoherenceInv /\ [TxNext]_txVars => CoherenceInv'
  BY NextCoherent
<1>3. CoherenceInv => FightRowCoherent
  BY DEF CoherenceInv, RowsCoherent, RowCoherent, FightRowCoherent
<1>. QED BY <1>1, <1>2, <1>3, PTL DEF TxSpec

-----------------------------------------------------------------------------
(* The lock of the ticket row                                              *)

TicketColumns == {"fight", "teller", "side", "amount",
                  "status", "payout", "prevStatus", "prevPayout"}

Shaped(bet) == DOMAIN bet = TicketColumns /\ bet.fight \in DOMAIN fights

TicketsShaped == \A b \in DOMAIN bets : Shaped(bets[b])

\* A ticket in payment is what payBet found.
PayHolds(s) ==
  LET b == tx[s].bet IN
  /\ b \in DOMAIN bets
  /\ bets[b].status \in {"WON", "PENDING_REFUND"}
  /\ tx[s].row = CashOut(b)
  /\ bets[b].status = "PENDING_REFUND" => RefundEligible(bets[b].fight)

\* A plan is of tickets of its fight, and of every ticket that the fight's
\* result lets be refunded: the amendment that takes the result away has to
\* write them all.
PlanHolds(s) ==
  LET f == tx[s].fight IN
  /\ \A b \in DOMAIN tx[s].plan : /\ DOMAIN tx[s].plan[b] = TicketColumns
                                  /\ tx[s].plan[b].fight = f
  /\ \A b \in TicketsOf(f) :
       bets[b].status = "PENDING_REFUND" /\ RefundEligible(f) => b \in DOMAIN tx[s].plan

PaysExclusive ==
  \A r, s \in Sessions : tx[r].op = "pay" /\ tx[s].op = "pay" /\ r # s => tx[r].bet # tx[s].bet

PayInv ==
  /\ CoherenceInv
  /\ TicketsShaped
  /\ PaysExclusive
  /\ \A s \in Sessions : /\ tx[s].op = "pay" => PayHolds(s)
                         /\ Amends(tx[s]) => PlanHolds(s)

\* RefundEligible, of a fight row.
Refundable(row) ==
  \/ row.status = "CANCELLED"
  \/ row.status = "SETTLED" /\ row.outcome = "DRAW"

\* The ticket in payment and the fight's right to a refund stay.
LEMMA PayStays ==
  ASSUME NEW s \in Sessions, PayHolds(s), tx'[s] = tx[s], tx[s].bet \in DOMAIN bets',
         bets'[tx[s].bet] = bets[tx[s].bet],
         LET f == bets[tx[s].bet].fight IN
           bets[tx[s].bet].status = "PENDING_REFUND" /\ Refundable(fights[f])
             => Refundable(fights'[f])
  PROVE  PayHolds(s)'
<1>1. PICK b : b = tx[s].bet
  OBVIOUS
<1>2. PICK f : f = bets[b].fight
  OBVIOUS
<1>3. tx'[s].bet = b /\ tx'[s].row = tx[s].row /\ bets'[b] = bets[b] /\ b \in DOMAIN bets'
  BY <1>1
<1>4. bets[b].status = "PENDING_REFUND" => Refundable(fights'[f])
  BY <1>1, <1>2 DEF PayHolds, RefundEligible, Refundable
<1>5. tx[s].row = LedgerRow(bets[b].teller, IF bets[b].status = "PENDING_REFUND"
                                             THEN "BET_REFUNDED" ELSE "PAYOUT",
                            -bets[b].payout, b)
  BY <1>1 DEF PayHolds, CashOut
<1>6. tx'[s].row = CashOut(tx[s].bet)'
  BY <1>1, <1>3, <1>5 DEF CashOut
<1>7. /\ tx'[s].bet \in DOMAIN bets'
      /\ bets'[tx'[s].bet].status \in {"WON", "PENDING_REFUND"}
      /\ bets'[tx'[s].bet].status = "PENDING_REFUND" => Refundable(fights'[bets'[tx'[s].bet].fight])
  BY <1>1, <1>2, <1>3, <1>4 DEF PayHolds
<1>. QED BY <1>6, <1>7 DEF PayHolds, RefundEligible, Refundable

\* A plan goes on covering its fight when nobody else writes the fight.
LEMMA PlanStays ==
  ASSUME NEW s \in Sessions, PlanHolds(s), tx'[s] = tx[s],
         fights'[tx[s].fight] = fights[tx[s].fight],
         \A b \in TicketsOf(tx[s].fight)' :
           /\ b \in TicketsOf(tx[s].fight)
           /\ bets'[b] = bets[b] \/ bets'[b].status # "PENDING_REFUND"
  PROVE  PlanHolds(s)'
<1>. DEFINE f == tx[s].fight
<1>1. RefundEligible(f)' <=> RefundEligible(f)
  BY DEF RefundEligible
<1>2. tx'[s].fight = f /\ tx'[s].plan = tx[s].plan
  OBVIOUS
<1>3. ASSUME NEW b \in TicketsOf(f)', bets'[b].status = "PENDING_REFUND", RefundEligible(f)
      PROVE  b \in DOMAIN tx[s].plan
  BY <1>3 DEF PlanHolds
<1>. QED BY <1>1, <1>2, <1>3 DEF PlanHolds, TicketsOf, RefundEligible

\* What a step may do to the tickets while fights are locked: the tickets it
\* writes are, and stay, those of one fight that nobody else has locked, and
\* none of them is being paid.
TicketsWritten(f, others) ==
  /\ DOMAIN fights \subseteq DOMAIN fights'
  /\ TicketsShaped'
  /\ \A r \in others : tx[r].op = "pay" =>
       /\ tx[r].bet \in DOMAIN bets' /\ bets'[tx[r].bet] = bets[tx[r].bet]
       /\ LET g == bets[tx[r].bet].fight IN
            bets[tx[r].bet].status = "PENDING_REFUND" /\ Refundable(fights[g])
              => Refundable(fights'[g])
  /\ \A r \in others : Amends(tx[r]) => f \notin Held(r)
  /\ \A b \in DOMAIN bets' : \/ b \in DOMAIN bets /\ bets'[b] = bets[b]
                             \/ bets'[b].fight = f
  /\ \A r \in others : Amends(tx[r]) => fights'[tx[r].fight] = fights[tx[r].fight]

LEMMA TicketsWrittenKeep ==
  ASSUME PayInv, CoherenceInv', NEW f, NEW others, TicketsWritten(f, others),
         \A r \in Sessions : \/ r \in others /\ tx'[r] = tx[r]
                             \/ tx'[r].op \notin {"pay", "correct", "unsettle"}
  PROVE  PayInv'
<1>1. TicketsShaped'
  BY DEF TicketsWritten
<1>2. PaysExclusive'
  <2>1. \A r \in Sessions : tx'[r].op = "pay" => tx'[r] = tx[r]
    OBVIOUS
  <2>. QED BY <2>1 DEF PayInv, PaysExclusive
<1>3. ASSUME NEW r \in Sessions, tx'[r].op = "pay" PROVE PayHolds(r)'
  <2>1. r \in others /\ tx'[r] = tx[r] /\ PayHolds(r)
    BY <1>3 DEF PayInv
  <2>. QED BY <1>3, <2>1, PayStays DEF TicketsWritten
<1>4. ASSUME NEW r \in Sessions, Amends(tx'[r]) PROVE PlanHolds(r)'
  <2>1. r \in others /\ tx'[r] = tx[r] /\ Amends(tx[r]) /\ PlanHolds(r)
    BY <1>4 DEF PayInv, Amends
  <2>2. tx[r].fight # f /\ fights'[tx[r].fight] = fights[tx[r].fight]
    BY <2>1 DEF TicketsWritten, Held
  <2>3. ASSUME NEW b \in TicketsOf(tx[r].fight)'
        PROVE  b \in TicketsOf(tx[r].fight) /\ bets'[b] = bets[b]
    <3>1. b \in DOMAIN bets' /\ bets'[b].fight = tx[r].fight
      BY <2>1 DEF TicketsOf
    <3>2. b \in DOMAIN bets /\ bets'[b] = bets[b]
      BY <2>1, <2>2, <3>1 DEF TicketsWritten
    <3>. QED BY <3>1, <3>2 DEF TicketsOf
  <2>. QED BY <2>1, <2>2, <2>3, PlanStays
<1>. QED BY <1>1, <1>2, <1>3, <1>4 DEF PayInv, Amends

\* Steps that write no ticket and no fight.
LEMMA TablesKept ==
  ASSUME PayInv, CoherenceInv', UNCHANGED <<fights, bets>>,
         \A r \in Sessions : \/ tx'[r] = tx[r]
                             \/ tx'[r].op \notin {"pay", "correct", "unsettle"}
  PROVE  PayInv'
<1>1. \A r \in Sessions : tx'[r].op \in {"pay", "correct", "unsettle"} => tx'[r] = tx[r]
  OBVIOUS
<1>2. TicketsShaped' /\ PaysExclusive'
  BY <1>1 DEF PayInv, TicketsShaped, Shaped, PaysExclusive
<1>3. ASSUME NEW r \in Sessions, tx'[r].op = "pay" PROVE PayHolds(r)'
  <2>1. tx'[r] = tx[r] /\ PayHolds(r)
    BY <1>1, <1>3 DEF PayInv
  <2>. QED BY <2>1, PayStays DEF PayHolds
<1>4. ASSUME NEW r \in Sessions, Amends(tx'[r]) PROVE PlanHolds(r)'
  <2>1. tx'[r] = tx[r] /\ PlanHolds(r)
    BY <1>1, <1>4 DEF PayInv, Amends
  <2>. QED BY <2>1, PlanStays DEF TicketsOf
<1>. QED BY <1>2, <1>3, <1>4 DEF PayInv, Amends

\* A plan of lib/fight-settlement.js keeps the columns of a ticket and its fight.
LEMMA PlansShaped ==
  ASSUME NEW bet, DOMAIN bet = TicketColumns, NEW o, NEW ratios,
         NEW p \in {SettledTicket(o, ratios, bet), CorrectedTicket(o, ratios, bet),
                    CancelledTicket(bet), UnsettledTicket(bet)}
  PROVE  DOMAIN p = TicketColumns /\ p.fight = bet.fight
<1>1. CASE p = SettledTicket(o, ratios, bet)
  BY <1>1 DEF SettledTicket, TicketColumns
<1>2. CASE p = CorrectedTicket(o, ratios, bet)
  BY <1>2 DEF CorrectedTicket, TicketColumns
<1>3. CASE p = CancelledTicket(bet)
  BY <1>3 DEF CancelledTicket, TicketColumns
<1>4. CASE p = UnsettledTicket(bet)
  BY <1>4 DEF UnsettledTicket, TicketColumns
<1>. QED BY <1>1, <1>2, <1>3, <1>4

\* An operation under the lock of a fight moves no ticket that can be paid:
\* the fight is not over, or its tickets still wait for the result.
BetsUnder(f) ==
  /\ ~RefundEligible(f)
  /\ \A b \in DOMAIN bets : /\ b \in DOMAIN bets'
                            /\ bets[b].status \in {"WON", "PENDING_REFUND"} => bets'[b] = bets[b]
  /\ \A b \in DOMAIN bets' : \/ b \in DOMAIN bets /\ bets'[b] = bets[b]
                             \/ DOMAIN bets'[b] = TicketColumns /\ bets'[b].fight = f

LEMMA FightLockBets ==
  ASSUME TicketsShaped, NEW f \in DOMAIN fights, UnderFightLock(f)
  PROVE  BetsUnder(f)
<1>1. CASE CloseFight(f) \/ ReopenFight(f) \/ SetFightLastCall(f) \/ ResumeFightOpen(f)
  BY <1>1 DEF CloseFight, ReopenFight, SetFightLastCall, ResumeFightOpen, MoveFight, LiveStatuses,
    RefundEligible, BetsUnder
<1>2. CASE \E s \in Sides, a \in BOOLEAN : ToggleSide(f, s, a)
  BY <1>2 DEF ToggleSide, Live, FightsIn, LiveStatuses, RefundEligible, BetsUnder
<1>3. CASE \E o \in Outcomes : SettleFight(f, o)
  <2>. PICK o \in Outcomes : SettleFight(f, o)
    BY <1>3
  <2>. DEFINE ratios == PayoutRatios(fights[f].pool, fights[f].rate, o)
  <2>1. fights[f].status = "CLOSED" /\ DOMAIN bets' = DOMAIN bets
    BY DEF SettleFight
  <2>2. \A b \in DOMAIN bets : \/ bets'[b] = bets[b]
                               \/ /\ bets'[b] = SettledTicket(o, ratios, bets[b])
                                  /\ bets[b].fight = f /\ CanSettle(o, ratios, bets[b])
    BY DEF SettleFight, TicketsOf
  <2>. HIDE DEF ratios
  <2>. QED BY <2>1, <2>2, PlansShaped
         DEF TicketsShaped, Shaped, RefundEligible, BetsUnder, CanSettle
<1>4. CASE CancelFight(f)
  <2>1. /\ fights[f].status \in LiveStatuses \cup {"CLOSED"} /\ DOMAIN bets' = DOMAIN bets
        /\ \A b \in DOMAIN bets : \/ bets'[b] = bets[b]
                                  \/ /\ bets'[b] = CancelledTicket(bets[b])
                                     /\ bets[b].fight = f /\ CanCancel(bets[b])
    BY <1>4 DEF CancelFight, TicketsOf
  <2>. QED BY <2>1, PlansShaped
         DEF TicketsShaped, Shaped, RefundEligible, LiveStatuses, BetsUnder, CanCancel
<1>5. CASE \E b \in BetIds, t \in Tellers, s \in Sides, a \in Stakes : PlaceBet(b, f, t, s, a)
  <2>1. PICK b, t, s, a : PlaceBet(b, f, t, s, a)
    BY <1>5
  <2>. DEFINE bet == NewTicket(f, t, s, a)
  <2>2. DOMAIN bet = TicketColumns /\ bet.fight = f
    BY DEF NewTicket, TicketColumns
  <2>3. /\ b \notin DOMAIN bets /\ fights[f].status \in LiveStatuses
        /\ bets' = [x \in DOMAIN bets \cup {b} |-> IF x = b THEN bet ELSE bets[x]]
    BY <2>1 DEF PlaceBet, AcceptsBets, Live, FightsIn
  <2>. HIDE DEF bet
  <2>. QED BY <2>2, <2>3 DEF RefundEligible, LiveStatuses, BetsUnder
<1>6. CASE \E b \in TicketsOf(f) : VoidBet(b)
  <2>1. PICK b \in TicketsOf(f) : VoidBet(b)
    BY <1>6
  <2>2. /\ b \in DOMAIN bets /\ bets[b].fight = f /\ bets[b].status = "PENDING"
        /\ fights[f].status \in LiveStatuses
        /\ bets' = [bets EXCEPT ![b].status = "VOIDED"]
    BY <2>1 DEF VoidBet, Live, FightsIn, TicketsOf
  <2>. QED BY <2>2 DEF TicketsShaped, Shaped, TicketColumns, RefundEligible, LiveStatuses, BetsUnder
<1>. QED BY <1>1, <1>2, <1>3, <1>4, <1>5, <1>6 DEF UnderFightLock

LEMMA DirectWrites ==
  ASSUME PayInv, NEW f \in DOMAIN fights, UnderFightLock(f)
  PROVE  TicketsWritten(f, Sessions)
<1>1. BetsUnder(f)
  BY FightLockBets DEF PayInv
<1>2. WritesOnly(f)
  BY FightLockWrites DEF PayInv, CoherenceInv
<1>3. /\ DOMAIN fights' = DOMAIN fights
      /\ \A g \in DOMAIN fights : g # f => fights'[g] = fights[g]
  BY <1>2, OneRowWritten DEF PayInv, CoherenceInv
<1>4. TicketsShaped'
  BY <1>1, <1>3 DEF BetsUnder, PayInv, TicketsShaped, Shaped
<1>5. ASSUME NEW r \in Sessions, tx[r].op = "pay"
      PROVE  /\ tx[r].bet \in DOMAIN bets' /\ bets'[tx[r].bet] = bets[tx[r].bet]
             /\ LET g == bets[tx[r].bet].fight IN
                  bets[tx[r].bet].status = "PENDING_REFUND" /\ Refundable(fights[g])
                    => Refundable(fights'[g])
  <2>1. PayHolds(r)
    BY <1>5 DEF PayInv
  <2>. DEFINE g == bets[tx[r].bet].fight
  <2>2. g \in DOMAIN fights
    BY <2>1 DEF PayHolds, PayInv, TicketsShaped, Shaped
  <2>3. Refundable(fights[g]) => fights'[g] = fights[g]
    BY <1>1, <1>3, <2>2 DEF BetsUnder, RefundEligible, Refundable
  <2>. QED BY <1>1, <2>1, <2>3 DEF PayHolds, BetsUnder
<1>6. \A r \in Sessions : f \notin Held(r)
  BY LockedIsHeld DEF UnderFightLock
<1>7. \A r \in Sessions : Amends(tx[r]) => fights'[tx[r].fight] = fights[tx[r].fight]
  BY <1>3, <1>6 DEF PayInv, CoherenceInv, LockInv, LocksHeld, Held
<1>. QED BY <1>1, <1>3, <1>4, <1>5, <1>6, <1>7 DEF TicketsWritten, BetsUnder

LEMMA DirectPays ==
  ASSUME PayInv, CoherenceInv', Direct
  PROVE  PayInv'
<1>1. CASE Unlocked /\ UNCHANGED tx
  BY <1>1, TablesKept DEF Unlocked, UpdateSetting, CashAdvance, DeleteRemit
<1>2. ASSUME NEW f \in DOMAIN fights, UnderFightLock(f), UNCHANGED tx
      PROVE  PayInv'
  <2>1. TicketsWritten(f, Sessions)
    BY <1>2, DirectWrites
  <2>. QED BY <1>2, <2>1, TicketsWrittenKeep
<1>. QED BY <1>1, <1>2 DEF Direct

LEMMA CreateWrites ==
  ASSUME PayInv, NEW s \in Sessions, CreateWrite(s)
  PROVE  \E n : TicketsWritten(n, Sessions \ {s})
<1>1. PICK n \in 1 .. MaxFights :
        /\ IsNextNumber(n)
        /\ fights' = [f \in DOMAIN fights \cup {n} |->
                        IF f = n THEN NewFight(setting) ELSE fights[f]]
  BY DEF CreateWrite
<1>2. n \notin DOMAIN fights
  BY <1>1 DEF IsNextNumber
<1>3. \A g \in DOMAIN fights : g \in DOMAIN fights' /\ fights'[g] = fights[g]
  BY <1>1, <1>2
<1>4. bets' = bets
  BY DEF CreateWrite
<1>5. TicketsShaped'
  BY <1>3, <1>4 DEF PayInv, TicketsShaped, Shaped
<1>6. \A r \in Sessions : \A g \in Held(r) : g \in DOMAIN fights
  BY DEF PayInv, CoherenceInv, LockInv, LocksHeld, Held
<1>7. \A r \in Sessions : tx[r].op = "pay" =>
        tx[r].bet \in DOMAIN bets /\ bets[tx[r].bet].fight \in DOMAIN fights
  BY DEF PayInv, PayHolds, TicketsShaped, Shaped
<1>. QED BY <1>2, <1>3, <1>4, <1>5, <1>6, <1>7 DEF TicketsWritten, Held

LEMMA CreatePays ==
  ASSUME PayInv, CoherenceInv', NEW s \in Sessions, Creating(s)
  PROVE  PayInv'
<1>1. CASE CreateRead(s)
  <2>1. /\ UNCHANGED <<fights, bets>>
        /\ \A r \in Sessions : tx'[r] = tx[r] \/ tx'[r] = [op |-> "create"]
    BY <1>1 DEF CreateRead, Begin, bookVars, vars, PayInv, CoherenceInv, LockInv
  <2>. QED BY <2>1, TablesKept
<1>2. CASE CreateWrite(s)
  <2>1. PICK n : TicketsWritten(n, Sessions \ {s})
    BY <1>2, CreateWrites
  <2>2. tx'[s] = Idle /\ \A r \in Sessions \ {s} : tx'[r] = tx[r]
    BY <1>2 DEF CreateWrite, Done, PayInv, CoherenceInv, LockInv
  <2>. QED BY <2>1, <2>2, TicketsWrittenKeep DEF Idle
<1>. QED BY <1>1, <1>2 DEF Creating

\* A request begins to amend, with a plan that covers what it must.
LEMMA AmendReadPays ==
  ASSUME PayInv, CoherenceInv', NEW s \in Sessions, UNCHANGED <<fights, bets>>,
         DOMAIN tx' = Sessions, \A r \in Sessions \ {s} : tx'[r] = tx[r],
         tx'[s].op # "pay", PlanHolds(s)'
  PROVE  PayInv'
<1>1. TicketsShaped' /\ PaysExclusive'
  <2>1. \A r \in Sessions : tx'[r].op = "pay" => tx'[r] = tx[r]
    OBVIOUS
  <2>. QED BY <2>1 DEF PayInv, TicketsShaped, Shaped, PaysExclusive
<1>2. ASSUME NEW r \in Sessions, tx'[r].op = "pay" PROVE PayHolds(r)'
  <2>1. tx'[r] = tx[r] /\ PayHolds(r)
    BY <1>2 DEF PayInv
  <2>. QED BY <2>1, PayStays DEF PayHolds
<1>3. ASSUME NEW r \in Sessions, Amends(tx'[r]), r # s PROVE PlanHolds(r)'
  <2>1. tx'[r] = tx[r] /\ PlanHolds(r)
    BY <1>3 DEF PayInv, Amends
  <2>. QED BY <2>1, PlanStays DEF TicketsOf
<1>. QED BY <1>1, <1>2, <1>3 DEF PayInv, Amends

\* The write of an amendment finds none of its tickets being paid, and takes
\* no result away under which another is.
LEMMA AmendWrites ==
  ASSUME PayInv, NEW s \in Sessions, CorrectWrite(s) \/ UnsettleWrite(s)
  PROVE  TicketsWritten(tx[s].fight, Sessions \ {s}) /\ Done(s)
<1>0. /\ Amends(tx[s]) /\ WriteTickets(tx[s].fight, tx[s].plan) /\ Done(s)
      /\ DOMAIN fights' = DOMAIN fights
      /\ \A g \in DOMAIN fights : g \notin Held(s) => fights'[g] = fights[g]
  <2>1. CASE CorrectWrite(s)
    BY <2>1 DEF CorrectWrite, Amends, Held
  <2>2. CASE UnsettleWrite(s)
    <3>1. Amends(tx[s])
      BY <2>2 DEF UnsettleWrite, Amends
    <3>. QED BY <2>2, <3>1 DEF UnsettleWrite, Held
  <2>. QED BY <2>1, <2>2
<1>1. PICK f : f = tx[s].fight
  OBVIOUS
<1>2. PICK plan : plan = tx[s].plan
  OBVIOUS
<1>3. /\ \A b \in DOMAIN plan : /\ b \in DOMAIN bets /\ bets[b].fight = f /\ ~BetLocked(b)
                                /\ DOMAIN plan[b] = TicketColumns /\ plan[b].fight = f
      /\ bets' = [b \in DOMAIN bets |-> IF b \in DOMAIN plan THEN plan[b] ELSE bets[b]]
  BY <1>0, <1>1, <1>2 DEF WriteTickets, TicketsOf, PayInv, PlanHolds
<1>4. f \in DOMAIN fights
  BY <1>0, <1>1 DEF PayInv, CoherenceInv, LockInv, LocksHeld
<1>5. TicketsShaped'
  BY <1>0, <1>3, <1>4 DEF PayInv, TicketsShaped, Shaped
<1>6. ASSUME NEW r \in Sessions \ {s}, tx[r].op = "pay"
      PROVE  /\ tx[r].bet \in DOMAIN bets' /\ bets'[tx[r].bet] = bets[tx[r].bet]
             /\ LET g == bets[tx[r].bet].fight IN
                  bets[tx[r].bet].status = "PENDING_REFUND" /\ Refundable(fights[g])
                    => Refundable(fights'[g])
  <2>1. PICK b : b = tx[r].bet
    OBVIOUS
  <2>2. b \in DOMAIN bets /\ b \notin DOMAIN plan
    BY <1>3, <1>6, <2>1 DEF BetLocked, PayInv, PayHolds
  <2>3. PICK g : g = bets[b].fight
    OBVIOUS
  <2>4. g \in DOMAIN fights
    BY <2>2, <2>3 DEF PayInv, TicketsShaped, Shaped
  <2>5. CASE g \notin Held(s)
    BY <1>0, <1>3, <2>1, <2>2, <2>3, <2>4, <2>5
  <2>6. CASE g \in tx[s].live
    <3>1. ~Refundable(fights[g])
      BY <1>0, <2>6 DEF PayInv, CoherenceInv, LockInv, LocksHeld, LiveStatuses, Refundable
    <3>. QED BY <1>3, <2>1, <2>2, <2>3, <3>1
  <2>7. CASE g = f
    <3>1. ~(bets[b].status = "PENDING_REFUND" /\ Refundable(fights[f]))
      BY <1>0, <1>1, <1>2, <2>2, <2>3, <2>7
         DEF PayInv, PlanHolds, TicketsOf, RefundEligible, Refundable
    <3>. QED BY <1>3, <2>1, <2>2, <2>3, <2>7, <3>1
  <2>. QED BY <1>0, <1>1, <2>5, <2>6, <2>7 DEF Held
<1>7. ASSUME NEW r \in Sessions \ {s}, Amends(tx[r])
      PROVE  f \notin Held(r) /\ fights'[tx[r].fight] = fights[tx[r].fight]
  <2>1. Held(r) \cap Held(s) = {}
    BY DEF PayInv, CoherenceInv, LockInv, LocksExclusive
  <2>2. f \in Held(s) /\ tx[r].fight \in Held(r) /\ tx[r].fight \in DOMAIN fights
    BY <1>0, <1>1, <1>7 DEF Held, PayInv, CoherenceInv, LockInv, LocksHeld
  <2>. QED BY <1>0, <2>1, <2>2
<1>8. TicketsWritten(f, Sessions \ {s})
  BY <1>0, <1>3, <1>5, <1>6, <1>7 DEF TicketsWritten
<1>. QED BY <1>0, <1>1, <1>8

LEMMA AmendWritePays ==
  ASSUME PayInv, CoherenceInv', NEW s \in Sessions, CorrectWrite(s) \/ UnsettleWrite(s)
  PROVE  PayInv'
<1>1. TicketsWritten(tx[s].fight, Sessions \ {s}) /\ Done(s)
  BY AmendWrites
<1>2. tx'[s] = Idle /\ \A r \in Sessions \ {s} : tx'[r] = tx[r]
  BY <1>1 DEF Done, PayInv, CoherenceInv, LockInv
<1>. QED BY <1>1, <1>2, TicketsWrittenKeep DEF Idle

LEMMA AmendingPays ==
  ASSUME PayInv, CoherenceInv', NEW s \in Sessions, Amending(s)
  PROVE  PayInv'
<1>1. ASSUME NEW f \in DOMAIN fights, NEW o \in Outcomes, CorrectRead(s, f, o)
      PROVE  PayInv'
  <2>. DEFINE ratios == PayoutRatios(fights[f].pool, fights[f].rate, o)
              covered == {c \in TicketsOf(f) : ~CorrectionSkips(o, ratios, bets[c])}
              plan == [b \in covered |-> CorrectedTicket(o, ratios, bets[b])]
  <2>1. /\ fights[f].status = "SETTLED" /\ fights[f].outcome # o
        /\ tx' = [tx EXCEPT ![s] = [op |-> "correct", fight |-> f, live |-> {},
                                    outcome |-> o, plan |-> plan]]
        /\ UNCHANGED <<fights, bets>>
    BY <1>1 DEF CorrectRead, Begin, bookVars, vars
  <2>2. ASSUME NEW b \in TicketsOf(f), bets[b].status = "PENDING_REFUND", RefundEligible(f)
        PROVE  b \in covered
    BY <2>1, <2>2 DEF RefundEligible, CorrectionSkips, TargetStatus
  <2>3. ASSUME NEW b \in covered
        PROVE  DOMAIN plan[b] = TicketColumns /\ plan[b].fight = f
    <3>1. DOMAIN bets[b] = TicketColumns /\ bets[b].fight = f
      BY DEF TicketsOf, PayInv, TicketsShaped, Shaped
    <3>. HIDE DEF ratios
    <3>2. plan[b] = CorrectedTicket(o, ratios, bets[b])
      OBVIOUS
    <3>. HIDE DEF plan, covered
    <3>. QED BY <3>1, <3>2, PlansShaped
  <2>4. DOMAIN plan = covered
    OBVIOUS
  <2>. HIDE DEF plan, covered, ratios
  <2>5. /\ tx'[s].op = "correct" /\ tx'[s].fight = f /\ tx'[s].plan = plan
        /\ \A r \in Sessions \ {s} : tx'[r] = tx[r]
        /\ DOMAIN tx' = Sessions
    BY <2>1 DEF PayInv, CoherenceInv, LockInv
  <2>6. PlanHolds(s)'
    BY <2>1, <2>2, <2>3, <2>4, <2>5 DEF PlanHolds, TicketsOf, RefundEligible
  <2>. QED BY <2>1, <2>5, <2>6, AmendReadPays
<1>2. CASE CorrectWrite(s)
  BY <1>2, AmendWritePays
<1>. QED BY <1>1, <1>2 DEF Amending

LEMMA ReturningPays ==
  ASSUME PayInv, CoherenceInv', NEW s \in Sessions, Returning(s)
  PROVE  PayInv'
<1>1. ASSUME NEW f \in DOMAIN fights, UnsettleRead(s, f)
      PROVE  PayInv'
  <2>. DEFINE covered == {c \in TicketsOf(f) : UnsettledTicket(bets[c]) # bets[c]}
              plan == [b \in covered |-> UnsettledTicket(bets[b])]
  <2>1. /\ tx' = [tx EXCEPT ![s] = [op |-> "unsettle", fight |-> f, live |-> Live,
                                    plan |-> plan]]
        /\ UNCHANGED <<fights, bets>>
    BY <1>1 DEF UnsettleRead, Begin, bookVars, vars
  <2>2. ASSUME NEW b \in TicketsOf(f), bets[b].status = "PENDING_REFUND"
        PROVE  b \in covered
    <3>1. DOMAIN bets[b] = TicketColumns
      BY DEF TicketsOf, PayInv, TicketsShaped, Shaped
    <3>2. UnsettledTicket(bets[b]).status = "PENDING"
      BY <2>2, <3>1 DEF UnsettledTicket, TicketColumns
    <3>. QED BY <2>2, <3>2
  <2>3. ASSUME NEW b \in covered
        PROVE  DOMAIN plan[b] = TicketColumns /\ plan[b].fight = f
    <3>1. DOMAIN bets[b] = TicketColumns /\ bets[b].fight = f
      BY DEF TicketsOf, PayInv, TicketsShaped, Shaped
    <3>2. plan[b] = UnsettledTicket(bets[b])
      OBVIOUS
    <3>. HIDE DEF plan, covered
    <3>. QED BY <3>1, <3>2, PlansShaped
  <2>4. DOMAIN plan = covered
    OBVIOUS
  <2>. HIDE DEF plan, covered
  <2>5. /\ tx'[s].op = "unsettle" /\ tx'[s].fight = f /\ tx'[s].plan = plan
        /\ \A r \in Sessions \ {s} : tx'[r] = tx[r]
        /\ DOMAIN tx' = Sessions
    BY <2>1 DEF PayInv, CoherenceInv, LockInv
  <2>6. PlanHolds(s)'
    BY <2>1, <2>2, <2>3, <2>4, <2>5 DEF PlanHolds, TicketsOf, RefundEligible
  <2>. QED BY <2>1, <2>5, <2>6, AmendReadPays
<1>2. CASE UnsettleWrite(s)
  BY <1>2, AmendWritePays
<1>. QED BY <1>1, <1>2 DEF Returning

\* A second payment of a ticket waits for the first.
LEMMA RedeemingPays ==
  ASSUME PayInv, CoherenceInv', NEW s \in Sessions, Redeeming(s)
  PROVE  PayInv'
<1>1. ASSUME NEW b \in DOMAIN bets, PayRead(s, b) PROVE PayInv'
  <2>1. /\ UNCHANGED <<fights, bets>> /\ DOMAIN tx' = Sessions
        /\ tx' = [tx EXCEPT ![s] = [op |-> "pay", bet |-> b, row |-> CashOut(b)]]
    BY <1>1 DEF PayRead, Begin, bookVars, vars, PayInv, CoherenceInv, LockInv
  <2>2. PICK row : row = CashOut(b)
    OBVIOUS
  <2>3. /\ tx'[s].op = "pay" /\ tx'[s].bet = b /\ tx'[s].row = row
        /\ \A r \in Sessions \ {s} : tx'[r] = tx[r]
    BY <2>1, <2>2 DEF PayInv, CoherenceInv, LockInv
  <2>4. TicketsShaped'
    BY <2>1 DEF PayInv, TicketsShaped, Shaped
  <2>5. PaysExclusive'
    BY <1>1, <2>3 DEF PayRead, BetLocked, PayInv, PaysExclusive
  <2>6. PayHolds(s)'
    BY <1>1, <2>1, <2>2, <2>3 DEF PayRead, PayHolds, CashOut, RefundEligible
  <2>7. ASSUME NEW r \in Sessions \ {s}, tx'[r].op = "pay" PROVE PayHolds(r)'
    <3>1. tx'[r] = tx[r] /\ PayHolds(r)
      BY <2>3, <2>7 DEF PayInv
    <3>. QED BY <2>1, <3>1, PayStays DEF PayHolds
  <2>8. ASSUME NEW r \in Sessions, Amends(tx'[r]) PROVE PlanHolds(r)'
    <3>1. tx'[r] = tx[r] /\ PlanHolds(r)
      BY <2>3, <2>8 DEF PayInv, Amends
    <3>. QED BY <2>1, <3>1, PlanStays DEF TicketsOf
  <2>. QED BY <2>4, <2>5, <2>6, <2>7, <2>8 DEF PayInv, Amends
<1>2. CASE PayWrite(s)
  <2>1. PICK b : b = tx[s].bet
    OBVIOUS
  <2>2. PICK status \in {"PAID", "REFUNDED"} : bets' = [bets EXCEPT ![b].status = status]
    BY <1>2, <2>1 DEF PayWrite
  <2>3. /\ tx[s].op = "pay" /\ Done(s) /\ fights' = fights
        /\ b \in DOMAIN bets
    BY <1>2, <2>1 DEF PayWrite, PayInv, PayHolds
  <2>4. /\ tx'[s] = Idle /\ \A r \in Sessions \ {s} : tx'[r] = tx[r]
    BY <2>3 DEF Done, PayInv, CoherenceInv, LockInv
  <2>5. /\ DOMAIN bets[b] = TicketColumns
        /\ bets'[b] = [bets[b] EXCEPT !.status = status]
        /\ DOMAIN bets' = DOMAIN bets
        /\ \A c \in DOMAIN bets \ {b} : bets'[c] = bets[c]
    BY <2>2, <2>3 DEF PayInv, TicketsShaped, Shaped
  <2>6. /\ DOMAIN bets'[b] = TicketColumns /\ bets'[b].fight = bets[b].fight
        /\ bets'[b].status = status
    BY <2>5 DEF TicketColumns
  <2>7. TicketsShaped'
    BY <2>3, <2>5, <2>6 DEF PayInv, TicketsShaped, Shaped
  <2>8. PaysExclusive'
    <3>1. \A r \in Sessions : tx'[r].op = "pay" => tx'[r] = tx[r]
      BY <2>4 DEF Idle
    <3>. QED BY <3>1 DEF PayInv, PaysExclusive
  <2>9. ASSUME NEW r \in Sessions, tx'[r].op = "pay" PROVE PayHolds(r)'
    <3>1. r # s /\ tx'[r] = tx[r] /\ PayHolds(r)
      BY <2>4, <2>9 DEF PayInv, Idle
    <3>2. tx[r].bet # b /\ tx[r].bet \in DOMAIN bets
      BY <2>1, <2>3, <2>9, <3>1 DEF PayInv, PaysExclusive, PayHolds
    <3>. QED BY <2>3, <2>5, <3>1, <3>2, PayStays
  <2>10. ASSUME NEW r \in Sessions, Amends(tx'[r]) PROVE PlanHolds(r)'
    <3>1. tx'[r] = tx[r] /\ PlanHolds(r)
      BY <2>4, <2>10 DEF PayInv, Amends, Idle
    <3>2. ASSUME NEW c \in TicketsOf(tx[r].fight)'
          PROVE  /\ c \in TicketsOf(tx[r].fight)
                 /\ bets'[c] = bets[c] \/ bets'[c].status # "PENDING_REFUND"
      BY <2>2, <2>5, <2>6, <3>1, <3>2 DEF TicketsOf
    <3>. QED BY <2>3, <3>1, <3>2, PlanStays
  <2>. QED BY <2>7, <2>8, <2>9, <2>10 DEF PayInv, Amends
<1>. QED BY <1>1, <1>2 DEF Redeeming

\* A purge waits for the row of its ticket, which is then in no payment.
LEMMA ErasingPays ==
  ASSUME PayInv, CoherenceInv', NEW s \in Sessions, Erasing(s)
  PROVE  PayInv'
<1>1. ASSUME NEW b \in DOMAIN bets, PurgeRead(s, b) PROVE PayInv'
  <2>1. PICK plan : tx' = [tx EXCEPT ![s] = [op |-> "purge", bet |-> b, plan |-> plan]]
    BY <1>1 DEF PurgeRead, Begin
  <2>2. /\ UNCHANGED <<fights, bets>>
        /\ \A r \in Sessions : tx'[r] = tx[r] \/ tx'[r].op = "purge"
    BY <1>1, <2>1 DEF PurgeRead, Begin, bookVars, vars, PayInv, CoherenceInv, LockInv
  <2>. QED BY <2>2, TablesKept
<1>2. CASE PurgeWrite(s)
  <2>1. PICK b : b = tx[s].bet
    OBVIOUS
  <2>2. /\ ~BetLocked(b) /\ bets' = Restrict(bets, DOMAIN bets \ {b})
        /\ fights' = fights
        /\ \A r \in Sessions : tx'[r] = tx[r] \/ tx'[r] = Idle
    BY <1>2, <2>1 DEF PurgeWrite
  <2>3. bets' = [c \in DOMAIN bets \ {b} |-> bets[c]]
    BY <2>2 DEF Restrict
  <2>4. TicketsShaped'
    BY <2>2, <2>3 DEF PayInv, TicketsShaped, Shaped
  <2>5. PaysExclusive'
    <3>1. \A r \in Sessions : tx'[r].op = "pay" => tx'[r] = tx[r]
      BY <2>2 DEF Idle
    <3>. QED BY <3>1 DEF PayInv, PaysExclusive
  <2>6. ASSUME NEW r \in Sessions, tx'[r].op = "pay" PROVE PayHolds(r)'
    <3>1. tx'[r] = tx[r] /\ PayHolds(r)
      BY <2>2, <2>6 DEF PayInv, Idle
    <3>2. tx[r].bet # b /\ tx[r].bet \in DOMAIN bets
      BY <2>2, <2>6, <3>1 DEF PayHolds, BetLocked
    <3>. QED BY <2>2, <2>3, <3>1, <3>2, PayStays
  <2>7. ASSUME NEW r \in Sessions, Amends(tx'[r]) PROVE PlanHolds(r)'
    <3>1. tx'[r] = tx[r] /\ PlanHolds(r)
      BY <2>2, <2>7 DEF PayInv, Amends, Idle
    <3>2. ASSUME NEW c \in TicketsOf(tx[r].fight)'
          PROVE  c \in TicketsOf(tx[r].fight) /\ bets'[c] = bets[c]
      BY <2>3, <3>1, <3>2 DEF TicketsOf
    <3>. QED BY <2>2, <3>1, <3>2, PlanStays
  <2>. QED BY <2>4, <2>5, <2>6, <2>7 DEF PayInv, Amends
<1>. QED BY <1>1, <1>2 DEF Erasing

LEMMA CashAndGivingUpPays ==
  ASSUME PayInv, CoherenceInv', NEW s \in Sessions, Remitting(s) \/ GivingUp(s)
  PROVE  PayInv'
<1>1. ASSUME NEW t, NEW a, RemitRead(s, t, a) PROVE PayInv'
  <2>1. PICK row : tx' = [tx EXCEPT ![s] = [op |-> "remit", row |-> row]]
    BY <1>1 DEF RemitRead, Begin
  <2>2. /\ UNCHANGED <<fights, bets>>
        /\ \A r \in Sessions : tx'[r] = tx[r] \/ tx'[r].op = "remit"
    BY <1>1, <2>1 DEF RemitRead, Begin, bookVars, vars, PayInv, CoherenceInv, LockInv
  <2>. QED BY <2>2, TablesKept
<1>2. CASE RemitWrite(s)
  BY <1>2, TablesKept DEF RemitWrite, Done, Idle, PayInv, CoherenceInv, LockInv
<1>3. CASE GivingUp(s)
  BY <1>3, TablesKept DEF GivingUp, Rejected, Timeout, Done, Idle, bookVars, vars,
                          PayInv, CoherenceInv, LockInv
<1>. QED BY <1>1, <1>2, <1>3 DEF Remitting

LEMMA BlankPays == Blank => PayInv
BY BlankCoherent DEF Blank, Idle, PayInv, TicketsShaped, PaysExclusive, Amends

LEMMA InitPays == TxInit => PayInv
BY BlankPays DEF TxInit, Init, Blank

LEMMA NextPays == PayInv /\ [TxNext]_txVars => PayInv'
<1>. SUFFICES ASSUME PayInv, [TxNext]_txVars PROVE PayInv'
  OBVIOUS
<1>0. CoherenceInv'
  BY NextCoherent DEF PayInv
<1>1. CASE Direct
  BY <1>0, <1>1, DirectPays
<1>2. ASSUME NEW s \in Sessions, Creating(s) PROVE PayInv'
  BY <1>0, <1>2, CreatePays
<1>3. ASSUME NEW s \in Sessions, Amending(s) PROVE PayInv'
  BY <1>0, <1>3, AmendingPays
<1>4. ASSUME NEW s \in Sessions, Returning(s) PROVE PayInv'
  BY <1>0, <1>4, ReturningPays
<1>5. ASSUME NEW s \in Sessions, Redeeming(s) PROVE PayInv'
  BY <1>0, <1>5, RedeemingPays
<1>6. ASSUME NEW s \in Sessions, Erasing(s) PROVE PayInv'
  BY <1>0, <1>6, ErasingPays
<1>7. ASSUME NEW s \in Sessions, Remitting(s) \/ GivingUp(s) PROVE PayInv'
  BY <1>0, <1>7, CashAndGivingUpPays
<1>8. CASE UNCHANGED txVars
  BY <1>0, <1>8, TablesKept DEF txVars, vars
<1>. QED BY <1>1, <1>2, <1>3, <1>4, <1>5, <1>6, <1>7, <1>8 DEF TxNext

(***************************************************************************)
(* Whatever number of payments, corrections, reverts and purges overlap,   *)
(* the ticket that payBet locked is at its write what it was at its check: *)
(* still to be cashed, for the amount of the row to insert, and, if it is  *)
(* a refund, under a fight that still owes it.  payBet locks no fight: it  *)
(* is the plan of a correction or a revert that has to write every ticket  *)
(* whose right to a refund it takes away, and so to wait for the payment   *)
(* (bets.service.js, payBet; fights.service.js, correctFight).             *)
(***************************************************************************)
THEOREM PaymentsCurrent == TxSpec => []PaymentIsCurrent
<1>1. TxInit => PayInv
  BY InitPays
<1>2. PayInv /\ [TxNext]_txVars => PayInv'
  BY NextPays
<1>3. PayInv => PaymentIsCurrent
  BY DEF PayInv, PayHolds, PaymentIsCurrent
<1>. QED BY <1>1, <1>2, <1>3, PTL DEF TxSpec

-----------------------------------------------------------------------------
(* Requests that keep out of each other's way: what each of them has read  *)
(* is still so when it writes, so that its write is the operation of Book, *)
(* done at once, and its read is nothing at all.                           *)

\* What an amendment will make of a ticket of its fight.
Amended(s, b) == IF b \in DOMAIN tx[s].plan THEN tx[s].plan[b] ELSE bets[b]

CorrectionStands(s) ==
  LET f == tx[s].fight
      o == tx[s].outcome
      ratios == PayoutRatios(fights[f].pool, fights[f].rate, o)
  IN  /\ fights[f].outcome # o
      /\ \A b \in TicketsOf(f) : /\ CanCorrect(o, ratios, bets[b])
                                 /\ Amended(s, b) = CorrectedTicket(o, ratios, bets[b])

RevertStands(s) ==
  /\ Live \subseteq tx[s].live
  /\ \A b \in TicketsOf(tx[s].fight) : /\ ~BlocksUnsettle(bets[b])
                                       /\ Amended(s, b) = UnsettledTicket(bets[b])

\* The drawer has the cash that a payment or a remit will take.
CashThere(s) == Balance(tx[s].row.teller) + tx[s].row.amount >= 0

PurgeStands(s) ==
  LET b == tx[s].bet IN
  /\ b \in DOMAIN bets /\ bets[b].status = "PAID"
  /\ tx[s].plan = PurgeAdjustments(b)

RemitStands(s) ==
  /\ CashThere(s)
  /\ \E t \in Tellers, a \in CashAmounts : tx[s].row = LedgerRow(t, "REMIT", -a, NoBet)

\* Everything a request has read is still so.
Stands(s) ==
  /\ tx[s].op = "create" => Live = {}
  /\ tx[s].op = "correct" => CorrectionStands(s)
  /\ tx[s].op = "unsettle" => RevertStands(s)
  /\ tx[s].op = "pay" => CashThere(s) /\ bets[tx[s].bet].payout # Null
  /\ tx[s].op = "purge" => PurgeStands(s)
  /\ tx[s].op = "remit" => RemitStands(s)

\* No ticket is paid while its fight is amended.
PaysApart ==
  \A r, s \in Sessions :
    Amends(tx[s]) /\ tx[r].op = "pay" => bets[tx[r].bet].fight # tx[s].fight

CarefulInv ==
  /\ PayInv /\ LedgerInv
  /\ PaysApart
  /\ \A s \in Sessions : Stands(s)

\* The writes are the operations of Book.
LEMMA CreateIsBook ==
  ASSUME CarefulInv, NEW s \in Sessions, CreateWrite(s)
  PROVE  CreateFight
<1>1. Live = {} /\ FightsIn({"CLOSED"}) = {}
  BY DEF CreateWrite, CarefulInv, Stands
<1>2. NoUnfinishedFight
  BY <1>1 DEF Live, FightsIn, NoUnfinishedFight
<1>. QED BY <1>2 DEF CreateWrite, CreateFight

LEMMA CorrectIsBook ==
  ASSUME CarefulInv, NEW s \in Sessions, CorrectWrite(s)
  PROVE  \E f \in DOMAIN fights, o \in Outcomes : CorrectFight(f, o)
<1>1. PICK f : f = tx[s].fight
  OBVIOUS
<1>2. PICK o : o = tx[s].outcome
  OBVIOUS
<1>3. PICK plan : plan = tx[s].plan
  OBVIOUS
<1>. DEFINE ratios == PayoutRatios(fights[f].pool, fights[f].rate, o)
<1>4. tx[s].op = "correct" /\ WriteTickets(f, plan)
  BY <1>1, <1>3 DEF CorrectWrite
<1>5. f \in DOMAIN fights /\ fights[f].status = "SETTLED" /\ o \in Outcomes
  BY <1>1, <1>2, <1>4 DEF CarefulInv, PayInv, CoherenceInv, LockInv, LocksHeld, Amends
<1>6. /\ fights[f].outcome # o
      /\ \A b \in TicketsOf(f) :
           /\ CanCorrect(o, ratios, bets[b])
           /\ (IF b \in DOMAIN plan THEN plan[b] ELSE bets[b]) = CorrectedTicket(o, ratios, bets[b])
  BY <1>1, <1>2, <1>3, <1>4 DEF CarefulInv, Stands, CorrectionStands, Amended
<1>7. bets' = [b \in DOMAIN bets |-> IF b \in TicketsOf(f) THEN CorrectedTicket(o, ratios, bets[b])
                                                           ELSE bets[b]]
  <2>. HIDE DEF ratios
  <2>. QED BY <1>4, <1>6 DEF WriteTickets
<1>8. CorrectFight(f, o)
  BY <1>1, <1>2, <1>5, <1>6, <1>7 DEF CorrectWrite, CorrectFight
<1>. QED BY <1>5, <1>8

LEMMA UnsettleIsBook ==
  ASSUME CarefulInv, NEW s \in Sessions, UnsettleWrite(s)
  PROVE  \E f \in DOMAIN fights : UnsettleFight(f)
<1>1. PICK f : f = tx[s].fight
  OBVIOUS
<1>2. PICK plan : plan = tx[s].plan
  OBVIOUS
<1>3. tx[s].op = "unsettle" /\ WriteTickets(f, plan)
  BY <1>1, <1>2 DEF UnsettleWrite
<1>4. f \in DOMAIN fights /\ fights[f].status = "SETTLED" /\ tx[s].live \subseteq Live
  BY <1>1, <1>3 DEF CarefulInv, PayInv, CoherenceInv, LockInv, LocksHeld, Amends, Live, FightsIn
<1>5. /\ Live \subseteq tx[s].live
      /\ \A b \in TicketsOf(f) :
           /\ ~BlocksUnsettle(bets[b])
           /\ (IF b \in DOMAIN plan THEN plan[b] ELSE bets[b]) = UnsettledTicket(bets[b])
  BY <1>1, <1>2, <1>3 DEF CarefulInv, Stands, RevertStands, Amended
<1>6. bets' = [b \in DOMAIN bets |-> IF b \in TicketsOf(f) THEN UnsettledTicket(bets[b])
                                                           ELSE bets[b]]
  BY <1>3, <1>5 DEF WriteTickets
<1>7. tx[s].live = Live
  BY <1>4, <1>5
<1>8. UnsettleFight(f)
  BY <1>1, <1>4, <1>5, <1>6, <1>7 DEF UnsettleWrite, UnsettleFight
<1>. QED BY <1>4, <1>8

\* What a book of rows adds up to when one is posted.
LEMMA PostedBalance ==
  ASSUME TypeOK, NEW row, row.amount \in Int
  PROVE  /\ Balance(row.teller) \in Int
         /\ BalanceIn(Posted({row}), row.teller) = Balance(row.teller) + row.amount
<1>1. IsBook(ledger)
  BY DEF TypeOK, RowsTyped, IsBook, Row
<1>2. PICK t : t = row.teller
  OBVIOUS
<1>3. BalanceIn(ledger (+) SetToBag({row}), t) = BalanceIn(ledger, t) + row.amount
  BY <1>1, <1>2, BalancePosted
<1>4. BalanceIn(ledger, t) \in Int
  BY <1>1, BalanceInt
<1>. QED BY <1>2, <1>3, <1>4 DEF Balance, Posted

LEMMA PayIsBook ==
  ASSUME CarefulInv, NEW s \in Sessions, PayWrite(s)
  PROVE  \E b \in DOMAIN bets : PayBet(b)
<1>1. PICK b : b = tx[s].bet
  OBVIOUS
<1>. DEFINE refund == bets[b].status = "PENDING_REFUND"
            row == LedgerRow(bets[b].teller, IF refund THEN "BET_REFUNDED" ELSE "PAYOUT",
                             -bets[b].payout, b)
<1>2. /\ b \in DOMAIN bets /\ bets[b].status \in {"WON", "PENDING_REFUND"}
      /\ tx[s].row = row
      /\ refund => RefundEligible(bets[b].fight)
      /\ bets[b].payout # Null
      /\ CashThere(s)
  BY <1>1 DEF PayWrite, CarefulInv, PayInv, PayHolds, CashOut, Stands
<1>3. /\ row.teller = bets[b].teller /\ row.amount = -bets[b].payout
      /\ row.type = IF refund THEN "BET_REFUNDED" ELSE "PAYOUT"
  BY DEF LedgerRow
<1>4. TypeOK
  BY DEF CarefulInv, LedgerInv, TicketInv
<1>5. /\ bets[b].payout \in Int /\ bets[b].teller \in Tellers
      /\ drawer[bets[b].teller] \in Int
      /\ bets[b].fight \in 1 .. MaxFights /\ paidOut[bets[b].fight] \in Int
  <2>1. bets[b] \in Ticket /\ bets[b].fight \in DOMAIN fights
    BY <1>2, <1>4 DEF TypeOK, TicketsTyped
  <2>2. bets[b].payout \in Money /\ bets[b].teller \in Tellers
    BY <2>1 DEF Ticket
  <2>. QED BY <1>4, <2>1, <2>2 DEF TypeOK, FightsTyped, HistoryTyped, Money
<1>. HIDE DEF row
<1>6. BalanceIn(Posted({row}), bets[b].teller) >= 0
  <2>1. row.amount \in Int
    BY <1>3, <1>5
  <2>2. BalanceIn(Posted({row}), row.teller) = Balance(row.teller) + row.amount
    BY <1>4, <2>1, PostedBalance
  <2>. QED BY <1>2, <1>3, <2>2 DEF CashThere
<1>7. /\ bets' = [bets EXCEPT ![b].status = IF refund THEN "REFUNDED" ELSE "PAID"]
      /\ ledger' = Posted({row})
      /\ UNCHANGED <<setting, fights, purged>>
  BY <1>1, <1>2, <1>3 DEF PayWrite
<1>8. drawer' = [drawer EXCEPT ![bets[b].teller] = @ - bets[b].payout]
  <2>1. drawer[bets[b].teller] + row.amount = drawer[bets[b].teller] - bets[b].payout
    BY <1>3, <1>5
  <2>. QED BY <1>1, <1>2, <1>3, <2>1 DEF PayWrite
<1>9. paidOut' = [paidOut EXCEPT ![bets[b].fight] = @ + bets[b].payout]
  <2>1. paidOut[bets[b].fight] - row.amount = paidOut[bets[b].fight] + bets[b].payout
    BY <1>3, <1>5
  <2>. QED BY <1>1, <1>2, <2>1 DEF PayWrite
<1>10. PayBet(b)
  BY <1>2, <1>6, <1>7, <1>8, <1>9 DEF PayBet, row
<1>. QED BY <1>2, <1>10

LEMMA PurgeIsBook ==
  ASSUME CarefulInv, NEW s \in Sessions, PurgeWrite(s)
  PROVE  \E b \in DOMAIN bets : PurgeBet(b)
<1>1. PICK b : b = tx[s].bet
  OBVIOUS
<1>2. b \in DOMAIN bets /\ bets[b].status = "PAID" /\ tx[s].plan = PurgeAdjustments(b)
  BY <1>1 DEF PurgeWrite, CarefulInv, Stands, PurgeStands
<1>3. fights[bets[b].fight].status = "SETTLED"
  <2>1. TicketFitsFight(bets[b], fights[bets[b].fight])
    BY <1>2 DEF CarefulInv, LedgerInv, TicketInv, TicketsFollowFight
  <2>. QED BY <1>2, <2>1 DEF TicketFitsFight
<1>4. PurgeBet(b)
  BY <1>1, <1>2, <1>3 DEF PurgeWrite, PurgeBet
<1>. QED BY <1>2, <1>4

LEMMA RemitIsBook ==
  ASSUME CarefulInv, NEW s \in Sessions, RemitWrite(s)
  PROVE  \E t \in Tellers, a \in CashAmounts : CashRemit(t, a)
<1>1. PICK t \in Tellers, a \in CashAmounts : tx[s].row = LedgerRow(t, "REMIT", -a, NoBet)
  BY DEF RemitWrite, CarefulInv, Stands, RemitStands
<1>. DEFINE row == LedgerRow(t, "REMIT", -a, NoBet)
<1>2. row.teller = t /\ row.amount = -a /\ tx[s].row = row /\ CashThere(s)
  BY <1>1 DEF LedgerRow, RemitWrite, CarefulInv, Stands, RemitStands
<1>3. TypeOK
  BY DEF CarefulInv, LedgerInv, TicketInv
<1>4. a \in Int /\ drawer[t] \in Int
  BY <1>3, ConstantTypes, BookConstants DEF TypeOK, HistoryTyped
<1>. HIDE DEF row
<1>5. BalanceIn(Posted({row}), t) >= 0
  <2>1. row.amount \in Int
    BY <1>2, <1>4
  <2>2. BalanceIn(Posted({row}), row.teller) = Balance(row.teller) + row.amount
    BY <1>3, <2>1, PostedBalance
  <2>. QED BY <1>2, <2>2 DEF CashThere
<1>6. /\ CashRows < MaxCashRows /\ ledger' = Posted({row})
      /\ UNCHANGED <<setting, fights, bets, paidOut, purged>>
  BY <1>2 DEF RemitWrite
<1>7. drawer' = [drawer EXCEPT ![t] = @ - a]
  <2>1. drawer[t] + row.amount = drawer[t] - a
    BY <1>2, <1>4
  <2>. QED BY <1>2, <2>1 DEF RemitWrite
<1>8. CashRemit(t, a)
  BY <1>5, <1>6, <1>7 DEF CashRemit, row
<1>. QED BY <1>8

\* The operations that are done at once are.
LEMMA DirectIsBook == Direct => Next
<1>. SUFFICES ASSUME Direct PROVE Next
  OBVIOUS
<1>1. CASE Unlocked
  BY <1>1 DEF Unlocked, Next, Tuning, Cash
<1>2. ASSUME NEW f \in DOMAIN fights, UnderFightLock(f) PROVE Next
  <2>1. CASE CloseFight(f) \/ ReopenFight(f) \/ SetFightLastCall(f) \/ ResumeFightOpen(f)
    BY <2>1 DEF Next, Lifecycle
  <2>2. CASE \E s \in Sides, a \in BOOLEAN : ToggleSide(f, s, a)
    BY <2>2 DEF Next, Holding
  <2>3. CASE CancelFight(f) \/ \E o \in Outcomes : SettleFight(f, o)
    BY <2>3 DEF Next, Declaring
  <2>4. CASE \E b \in BetIds, t \in Tellers, s \in Sides, a \in Stakes : PlaceBet(b, f, t, s, a)
    BY <2>4 DEF Next, Betting
  <2>5. CASE \E b \in TicketsOf(f) : VoidBet(b)
    BY <2>5 DEF Next, Betting, TicketsOf
  <2>. QED BY <1>2, <2>1, <2>2, <2>3, <2>4, <2>5 DEF UnderFightLock
<1>. QED BY <1>1, <1>2 DEF Direct

LEMMA StepIsBook == CarefulInv /\ [TxNext]_txVars => [Next]_vars
<1>. SUFFICES ASSUME CarefulInv, [TxNext]_txVars PROVE [Next]_vars
  OBVIOUS
<1>1. CASE Direct
  BY <1>1, DirectIsBook
<1>3. ASSUME NEW s \in Sessions, Creating(s) PROVE [Next]_vars
  BY <1>3, CreateIsBook DEF Creating, CreateRead, Begin, bookVars, Next, Lifecycle
<1>4. ASSUME NEW s \in Sessions, Amending(s) PROVE [Next]_vars
  BY <1>4, CorrectIsBook DEF Amending, CorrectRead, Begin, bookVars, Next, Correcting
<1>5. ASSUME NEW s \in Sessions, Returning(s) PROVE [Next]_vars
  BY <1>5, UnsettleIsBook DEF Returning, UnsettleRead, Begin, bookVars, Next, Reverting
<1>6. ASSUME NEW s \in Sessions, Redeeming(s) PROVE [Next]_vars
  BY <1>6, PayIsBook DEF Redeeming, PayRead, Begin, bookVars, Next, Paying
<1>7. ASSUME NEW s \in Sessions, Erasing(s) PROVE [Next]_vars
  BY <1>7, PurgeIsBook DEF Erasing, PurgeRead, Begin, bookVars, Next, Purging
<1>8. ASSUME NEW s \in Sessions, Remitting(s) PROVE [Next]_vars
  BY <1>8, RemitIsBook DEF Remitting, RemitRead, Begin, bookVars, Next, Cash
<1>9. ASSUME NEW s \in Sessions, GivingUp(s) PROVE [Next]_vars
  BY <1>9 DEF GivingUp, Rejected, Timeout, bookVars
<1>10. CASE UNCHANGED txVars
  BY <1>10 DEF txVars, vars
<1>. QED BY <1>1, <1>3, <1>4, <1>5, <1>6, <1>7, <1>8, <1>9, <1>10 DEF TxNext

-----------------------------------------------------------------------------
(* What a step leaves to the requests that are in the middle of another    *)

\* The rows of one ticket stay.
RowsStay(b) ==
  /\ Rows(b, ledger') = Rows(b, ledger)
  /\ \A r \in Rows(b, ledger) : ledger'[r] = ledger[r]

LEMMA OtherRowPosted ==
  ASSUME TypeOK, NEW b, NEW row, row.bet # b, ledger' = Posted({row})
  PROVE  RowsStay(b)
<1>1. ledger \in [DOMAIN ledger -> Nat \ {0}]
  BY DEF TypeOK, RowsTyped
<1>. QED BY <1>1 DEF RowsStay, Posted, Rows, (+), SetToBag, BagToSet

LEMMA OtherPurged ==
  ASSUME TypeOK, NEW b \in DOMAIN bets, NEW x \in DOMAIN bets, x # b, PurgeBet(x)
  PROVE  RowsStay(b)
<1>. DEFINE rest == Restrict(ledger, DOMAIN ledger \ RowsOf(x))
<1>1. /\ DOMAIN rest = DOMAIN ledger \ RowsOf(x)
      /\ \A r \in DOMAIN rest : rest[r] = ledger[r]
      /\ rest \in [DOMAIN rest -> Nat \ {0}]
  BY DEF Restrict, TypeOK, RowsTyped
<1>2. ledger' = rest (+) SetToBag(PurgeAdjustments(x))
  BY DEF PurgeBet
<1>3. \A r \in PurgeAdjustments(x) : r.bet = NoBet
  <2>. DEFINE moved(t) == SumOf(ledger, {r \in RowsOf(x) : r.teller = t})
              row(t) == LedgerRow(t, "ADJUSTMENT", moved(t), NoBet)
  <2>1. PurgeAdjustments(x) = {row(t) : t \in {u \in Tellers : moved(u) # 0}}
    BY DEF PurgeAdjustments
  <2>2. \A t : row(t).bet = NoBet
    BY DEF LedgerRow
  <2>. HIDE DEF row, moved
  <2>. QED BY <2>1, <2>2
<1>4. b # NoBet
  BY ConstantTypes DEF TypeOK, TicketsTyped
<1>. HIDE DEF rest
<1>5. Rows(b, rest) = Rows(b, ledger) /\ \A r \in Rows(b, ledger) : rest[r] = ledger[r]
  BY <1>1 DEF Rows, RowsOf
<1>6. Rows(b, ledger') = Rows(b, rest) /\ \A r \in Rows(b, rest) : ledger'[r] = rest[r]
  BY <1>1, <1>2, <1>3, <1>4, OtherRowsPosted
<1>. QED BY <1>5, <1>6 DEF RowsStay

\* Only a remit is deleted, and that is a row of no ticket.
LEMMA RemitDeleted ==
  ASSUME LedgerInv, NEW b \in DOMAIN bets, NEW r \in DOMAIN ledger, DeleteRemit(r)
  PROVE  RowsStay(b)
<1>0. /\ TypeOK /\ ledger \in [DOMAIN ledger -> Nat \ {0}] /\ b # NoBet
  BY ConstantTypes DEF LedgerInv, TicketInv, TypeOK, RowsTyped, TicketsTyped
<1>1. r.bet # b
  <2>1. SUFFICES ASSUME r.bet = b PROVE FALSE
    OBVIOUS
  <2>2. Matches(b, bets[b], ledger)
    BY MatchesEach DEF LedgerInv
  <2>3. r.type \in RowTypesFor(bets[b].status) /\ r.type = "REMIT"
    BY <2>1, <2>2 DEF Matches, Rows, DeleteRemit
  <2>. QED BY <2>3 DEF RowTypesFor
<1>. DEFINE rest == ledger (-) SetToBag({r})
            row == LedgerRow(r.teller, "ADJUSTMENT", r.amount, NoBet)
<1>2. /\ DOMAIN rest = {q \in DOMAIN ledger : q = r => ledger[r] > 1}
      /\ rest \in [DOMAIN rest -> Nat \ {0}]
  BY <1>0, TakenRow
<1>3. \A q \in DOMAIN rest \ {r} : rest[q] = ledger[q]
  <2>1. \A q \in DOMAIN ledger : ledger[q] \in Nat
    BY <1>0
  <2>2. \A q \in DOMAIN rest : q \in DOMAIN ledger
    BY <1>2
  <2>. QED BY <1>0, <2>1, <2>2 DEF (-), SetToBag
<1>4. row.bet = NoBet /\ ledger' = rest (+) SetToBag({row})
  BY DEF LedgerRow, DeleteRemit
<1>. HIDE DEF rest, row
<1>5. Rows(b, rest) = Rows(b, ledger) /\ \A q \in Rows(b, ledger) : rest[q] = ledger[q]
  BY <1>0, <1>1, <1>2, <1>3 DEF Rows
<1>. DEFINE R == {row}
<1>6. ledger' = rest (+) SetToBag(R) /\ \A q \in R : q.bet # b
  BY <1>0, <1>4
<1>. HIDE DEF R
<1>7. Rows(b, ledger') = Rows(b, rest) /\ \A q \in Rows(b, rest) : ledger'[q] = rest[q]
  BY <1>2, <1>6, OtherRowsPosted
<1>. QED BY <1>5, <1>7 DEF RowsStay

\* A paid ticket that stays keeps its rows.
LEMMA PaidKeepsRows ==
  ASSUME LedgerInv, [Next]_vars, NEW b \in DOMAIN bets, b \in DOMAIN bets',
         bets[b].status = "PAID"
  PROVE  RowsStay(b)
<1>0. TypeOK /\ b # NoBet
  BY ConstantTypes DEF LedgerInv, TicketInv, TypeOK, TicketsTyped
<1>1. CASE Tuning \/ Lifecycle \/ Holding \/ Declaring \/ Correcting \/ Reverting \/ UNCHANGED vars
  <2>1. ledger' = ledger
    BY <1>1 DEF Tuning, Lifecycle, Holding, Declaring, Correcting, Reverting, UpdateSetting,
      CreateFight, CloseFight, ReopenFight, SetFightLastCall, ResumeFightOpen, MoveFight,
      ToggleSide, CancelFight, SettleFight, CorrectFight, UnsettleFight, vars
  <2>. QED BY <2>1 DEF RowsStay
<1>2. CASE Betting
  <2>1. ASSUME NEW x, NEW f, NEW t, NEW s, NEW a, PlaceBet(x, f, t, s, a) PROVE RowsStay(b)
    <3>. DEFINE row == LedgerRow(t, "BET_PLACED", a, x)
    <3>1. row.bet = x /\ x # b /\ ledger' = Posted({row})
      BY <2>1 DEF LedgerRow, PlaceBet
    <3>. HIDE DEF row
    <3>. QED BY <1>0, <3>1, OtherRowPosted
  <2>2. ASSUME NEW x \in DOMAIN bets, VoidBet(x) PROVE RowsStay(b)
    <3>. DEFINE row == LedgerRow(bets[x].teller, "BET_VOIDED", -bets[x].amount, x)
    <3>1. row.bet = x /\ x # b /\ ledger' = Posted({row})
      BY <2>2 DEF LedgerRow, VoidBet
    <3>. HIDE DEF row
    <3>. QED BY <1>0, <3>1, OtherRowPosted
  <2>. QED BY <1>2, <2>1, <2>2 DEF Betting
<1>3. CASE Paying
  <2>1. PICK x \in DOMAIN bets : PayBet(x)
    BY <1>3 DEF Paying
  <2>. DEFINE row == LedgerRow(bets[x].teller,
                       IF bets[x].status = "PENDING_REFUND" THEN "BET_REFUNDED" ELSE "PAYOUT",
                       -bets[x].payout, x)
  <2>2. row.bet = x /\ x # b /\ ledger' = Posted({row})
    BY <2>1 DEF LedgerRow, PayBet
  <2>. HIDE DEF row
  <2>. QED BY <1>0, <2>2, OtherRowPosted
<1>4. CASE Purging
  <2>1. PICK x \in DOMAIN bets : PurgeBet(x)
    BY <1>4 DEF Purging
  <2>2. x # b
    BY <2>1 DEF PurgeBet, Restrict
  <2>. QED BY <1>0, <2>1, <2>2, OtherPurged
<1>5. CASE Cash
  <2>1. ASSUME NEW t, NEW a, CashAdvance(t, a) \/ CashRemit(t, a) PROVE RowsStay(b)
    <3>. DEFINE in == LedgerRow(t, "CASH_ADVANCE", a, NoBet)
                out == LedgerRow(t, "REMIT", -a, NoBet)
    <3>1. in.bet # b /\ out.bet # b /\ (ledger' = Posted({in}) \/ ledger' = Posted({out}))
      BY <1>0, <2>1 DEF LedgerRow, CashAdvance, CashRemit
    <3>. HIDE DEF in, out
    <3>. QED BY <1>0, <3>1, OtherRowPosted
  <2>. QED BY <1>5, <2>1, RemitDeleted DEF Cash
<1>. QED BY <1>1, <1>2, <1>3, <1>4, <1>5 DEF Next

\* The adjustments of a purge are those of any other ledger with the ticket's rows.
Adjustments(book, rows) ==
  {LedgerRow(t, "ADJUSTMENT", SumOf(book, Of(t, rows)), NoBet) :
     t \in {u \in Tellers : SumOf(book, Of(u, rows)) # 0}}

LEMMA AdjustmentsStay ==
  ASSUME TypeOK, NEW b, RowsStay(b)
  PROVE  PurgeAdjustments(b)' = PurgeAdjustments(b)
<1>. DEFINE R == Rows(b, ledger)
<1>1. PurgeAdjustments(b) = Adjustments(ledger, R)
  BY DEF PurgeAdjustments, Adjustments, Of, Rows, RowsOf
<1>2. PurgeAdjustments(b)' = Adjustments(ledger', Rows(b, ledger'))
  BY DEF PurgeAdjustments, Adjustments, Of, Rows, RowsOf
<1>3. /\ IsFiniteSet(R) /\ R \subseteq DOMAIN ledger /\ R \subseteq DOMAIN ledger'
      /\ \A r \in R : ledger'[r] = ledger[r]
  BY FS_Subset DEF TypeOK, RowsTyped, Rows, RowsStay
<1>4. Rows(b, ledger') = R
  BY DEF RowsStay
<1>. HIDE DEF R
<1>5. \A t : SumOf(ledger', Of(t, R)) = SumOf(ledger, Of(t, R))
  <2>. TAKE t
  <2>. DEFINE S == Of(t, R)
              F == [r \in DOMAIN ledger |-> ledger[r] * r.amount]
              G == [r \in DOMAIN ledger' |-> ledger'[r] * r.amount]
  <2>1. S \in SUBSET R
    BY DEF Of
  <2>2. IsFiniteSet(S)
    BY <1>3, <2>1, FS_Subset
  <2>3. \A r \in S : G[r] = F[r]
    BY <1>3, <2>1
  <2>4. SumFunctionOnSet(G, S) = SumFunctionOnSet(F, S)
    <3>. HIDE DEF F, G, S
    <3>. QED BY <2>2, <2>3, SumSame
  <2>. QED BY <2>4 DEF SumOf
<1>6. Adjustments(ledger', R) = Adjustments(ledger, R)
  BY <1>5 DEF Adjustments
<1>. QED BY <1>1, <1>2, <1>4, <1>6

\* The looks that begin a request and change nothing.
Reads(s) ==
  \/ CreateRead(s)
  \/ \E f \in DOMAIN fights, o \in Outcomes : CorrectRead(s, f, o)
  \/ \E f \in DOMAIN fights : UnsettleRead(s, f)
  \/ \E b \in DOMAIN bets : PayRead(s, b) \/ PurgeRead(s, b)
  \/ \E t \in Tellers, a \in CashAmounts : RemitRead(s, t, a)

LEMMA RequestsMove ==
  ASSUME LockInv, [TxNext]_txVars
  PROVE  \/ \A r \in Sessions : tx'[r] = tx[r] \/ tx'[r] = Idle
         \/ \E s \in Sessions : /\ Reads(s) /\ UNCHANGED vars
                                /\ \A r \in Sessions \ {s} : tx'[r] = tx[r]
<1>. DEFINE Ended == \A r \in Sessions : tx'[r] = tx[r] \/ tx'[r] = Idle
<1>1. CASE UNCHANGED tx
  BY <1>1
<1>2. ASSUME NEW s \in Sessions, Done(s) PROVE Ended
  BY <1>2 DEF Done, LockInv
<1>3. ASSUME NEW s \in Sessions, Reads(s)
      PROVE  UNCHANGED vars /\ \A r \in Sessions \ {s} : tx'[r] = tx[r]
  <2>1. PICK request : Begin(s, request)
    BY <1>3 DEF Reads, CreateRead, CorrectRead, UnsettleRead, PayRead, PurgeRead, RemitRead
  <2>. QED BY <2>1 DEF Begin, bookVars, LockInv
<1>4. ASSUME NEW s \in Sessions, PurgeWrite(s) PROVE Ended
  BY <1>4 DEF PurgeWrite
<1>5. ASSUME NEW s \in Sessions, Creating(s) \/ Amending(s) \/ Returning(s)
      PROVE  Reads(s) \/ Done(s)
  BY <1>5 DEF Creating, Amending, Returning, Reads, CreateWrite, CorrectWrite, UnsettleWrite
<1>6. ASSUME NEW s \in Sessions, Redeeming(s) \/ Erasing(s) \/ Remitting(s) \/ GivingUp(s)
      PROVE  Reads(s) \/ Done(s) \/ PurgeWrite(s)
  BY <1>6 DEF Redeeming, Erasing, Remitting, GivingUp, Reads, PayWrite, RemitWrite,
    Rejected, Timeout
<1>7. CASE Direct \/ UNCHANGED txVars
  BY <1>1, <1>7 DEF Direct, txVars
<1>. HIDE DEF Ended
<1>8. CASE \E s \in Sessions : Reads(s) \/ Done(s) \/ PurgeWrite(s)
  BY <1>2, <1>3, <1>4, <1>8 DEF Ended
<1>. QED BY <1>5, <1>6, <1>7, <1>8 DEF TxNext

\* What a step leaves to request r, which has read a part of the tables.
Kept(r) ==
  /\ tx[r].op = "pay" => /\ tx[r].bet \in DOMAIN bets'
                         /\ bets'[tx[r].bet] = bets[tx[r].bet]
  /\ Amends(tx[r]) => /\ fights'[tx[r].fight] = fights[tx[r].fight]
                      /\ \A b \in TicketsOf(tx[r].fight)' : /\ b \in TicketsOf(tx[r].fight)
                                                             /\ bets'[b] = bets[b]
  /\ tx[r].op = "purge" => tx[r].bet \in DOMAIN bets'

LEMMA WrittenKept ==
  ASSUME NEW f, NEW others, TicketsWritten(f, others), DOMAIN bets \subseteq DOMAIN bets',
         NEW r \in others, tx'[r] = tx[r], tx[r].op = "purge" => tx[r].bet \in DOMAIN bets
  PROVE  Kept(r)
<1>1. ASSUME Amends(tx[r]), NEW b \in TicketsOf(tx[r].fight)'
      PROVE  b \in TicketsOf(tx[r].fight) /\ bets'[b] = bets[b]
  <2>1. PICK g : g = tx[r].fight
    OBVIOUS
  <2>2. g # f
    BY <1>1, <2>1 DEF TicketsWritten, Held
  <2>3. b \in DOMAIN bets' /\ bets'[b].fight = g
    BY <1>1, <2>1 DEF TicketsOf
  <2>4. b \in DOMAIN bets /\ bets'[b] = bets[b]
    BY <2>2, <2>3 DEF TicketsWritten
  <2>. QED BY <2>1, <2>3, <2>4 DEF TicketsOf
<1>. QED BY <1>1 DEF TicketsWritten, Kept

LEMMA TablesAsTheyWere ==
  ASSUME CarefulInv, UNCHANGED <<fights, bets>>, NEW r \in Sessions, tx'[r] = tx[r]
  PROVE  Kept(r)
BY DEF CarefulInv, PayInv, PayHolds, Stands, PurgeStands, TicketsOf, Kept

LEMMA StepKeeps ==
  ASSUME CarefulInv, [TxNext]_txVars, NEW r \in Sessions, tx'[r] = tx[r]
  PROVE  Kept(r)
<1>0. tx[r].op = "purge" => tx[r].bet \in DOMAIN bets
  BY DEF CarefulInv, Stands, PurgeStands
<1>1. CASE UNCHANGED <<fights, bets>>
  BY <1>1, TablesAsTheyWere
<1>2. ASSUME NEW f \in DOMAIN fights, UnderFightLock(f) PROVE Kept(r)
  <2>1. TicketsWritten(f, Sessions) /\ BetsUnder(f)
    BY <1>2, DirectWrites, FightLockBets DEF CarefulInv, PayInv
  <2>. QED BY <1>0, <2>1, WrittenKept DEF BetsUnder
<1>3. CASE Direct
  BY <1>1, <1>2, <1>3 DEF Direct, Unlocked, UpdateSetting, CashAdvance, DeleteRemit
<1>4. ASSUME NEW s \in Sessions, Done(s), tx[s].op # "idle" PROVE r # s
  BY <1>4 DEF Done, Idle, CarefulInv, PayInv, CoherenceInv, LockInv
<1>5. ASSUME NEW s \in Sessions, CreateWrite(s) PROVE Kept(r)
  <2>1. PICK n : TicketsWritten(n, Sessions \ {s})
    BY <1>5, CreateWrites DEF CarefulInv
  <2>2. r # s /\ bets' = bets
    BY <1>4, <1>5 DEF CreateWrite
  <2>. QED BY <1>0, <2>1, <2>2, WrittenKept
<1>6. ASSUME NEW s \in Sessions, CorrectWrite(s) \/ UnsettleWrite(s) PROVE Kept(r)
  <2>1. TicketsWritten(tx[s].fight, Sessions \ {s})
    BY <1>6, AmendWrites DEF CarefulInv
  <2>2. r # s /\ DOMAIN bets' = DOMAIN bets
    BY <1>4, <1>6 DEF CorrectWrite, UnsettleWrite, WriteTickets
  <2>. QED BY <1>0, <2>1, <2>2, WrittenKept
<1>7. ASSUME NEW s \in Sessions, PayWrite(s) PROVE Kept(r)
  <2>1. PICK b : b = tx[s].bet
    OBVIOUS
  <2>2. PICK status : bets' = [bets EXCEPT ![b].status = status]
    BY <1>7, <2>1 DEF PayWrite
  <2>3. tx[s].op = "pay" /\ fights' = fights /\ b \in DOMAIN bets /\ r # s
    BY <1>4, <1>7, <2>1 DEF PayWrite, CarefulInv, PayInv, PayHolds
  <2>4. DOMAIN bets[b] = TicketColumns
    BY <2>3 DEF CarefulInv, PayInv, TicketsShaped, Shaped
  <2>5. /\ DOMAIN bets' = DOMAIN bets /\ bets'[b].fight = bets[b].fight
        /\ \A c \in DOMAIN bets \ {b} : bets'[c] = bets[c]
    BY <2>2, <2>3, <2>4 DEF TicketColumns
  <2>6. tx[r].op = "pay" => tx[r].bet \in DOMAIN bets \ {b}
    BY <2>1, <2>3 DEF CarefulInv, PayInv, PaysExclusive, PayHolds
  <2>7. Amends(tx[r]) => bets[b].fight # tx[r].fight
    BY <2>1, <2>3 DEF CarefulInv, PaysApart
  <2>. QED BY <1>0, <2>3, <2>5, <2>6, <2>7 DEF Kept, TicketsOf
<1>8. ASSUME NEW s \in Sessions, PurgeWrite(s) PROVE Kept(r)
  <2>1. PICK b : b = tx[s].bet
    OBVIOUS
  <2>2. /\ ~BetLocked(b) /\ bets' = [c \in DOMAIN bets \ {b} |-> bets[c]]
        /\ fights' = fights
        /\ tx[r].op = "purge" => tx[r].bet # b
    BY <1>8, <2>1 DEF PurgeWrite, Restrict, Idle
  <2>3. tx[r].op = "pay" => tx[r].bet \in DOMAIN bets \ {b}
    BY <2>2 DEF CarefulInv, PayInv, PayHolds, BetLocked
  <2>. QED BY <1>0, <2>2, <2>3 DEF Kept, TicketsOf
<1>9. ASSUME NEW s \in Sessions,
             Reads(s) \/ RemitWrite(s) \/ GivingUp(s)
      PROVE  UNCHANGED <<fights, bets>>
  BY <1>9 DEF Reads, CreateRead, CorrectRead, UnsettleRead, PayRead, PurgeRead, RemitRead,
    RemitWrite, GivingUp, Rejected, Timeout, Begin, bookVars, vars
<1>10. ASSUME NEW s \in Sessions,
              \/ Creating(s) \/ Amending(s) \/ Returning(s) \/ Redeeming(s)
              \/ Erasing(s) \/ Remitting(s) \/ GivingUp(s)
       PROVE  \/ Reads(s) \/ RemitWrite(s) \/ GivingUp(s)
              \/ CreateWrite(s) \/ CorrectWrite(s) \/ UnsettleWrite(s)
              \/ PayWrite(s) \/ PurgeWrite(s)
  BY <1>10 DEF Creating, Amending, Returning, Redeeming, Erasing, Remitting, Reads
<1>11. CASE UNCHANGED txVars
  BY <1>1, <1>11 DEF txVars, vars
<1>. QED BY <1>1, <1>3, <1>5, <1>6, <1>7, <1>8, <1>9, <1>10, <1>11 DEF TxNext

-----------------------------------------------------------------------------
(* What a request has read stays so                                        *)

LEMMA CorrectionKept ==
  ASSUME NEW r \in Sessions, tx[r].op = "correct", CorrectionStands(r), tx'[r] = tx[r], Kept(r)
  PROVE  CorrectionStands(r)'
<1>1. PICK f : f = tx[r].fight
  OBVIOUS
<1>2. PICK o : o = tx[r].outcome
  OBVIOUS
<1>3. PICK plan : plan = tx[r].plan
  OBVIOUS
<1>4. tx'[r].fight = f /\ tx'[r].outcome = o /\ tx'[r].plan = plan
  BY <1>1, <1>2, <1>3
<1>5. PICK ratios : ratios = PayoutRatios(fights[f].pool, fights[f].rate, o)
  OBVIOUS
<1>6. fights'[f] = fights[f]
  BY <1>1 DEF Kept, Amends
<1>7. \A b : b \in DOMAIN bets' /\ bets'[b].fight = f =>
               b \in DOMAIN bets /\ bets[b].fight = f /\ bets'[b] = bets[b]
  BY <1>1, <1>4 DEF Kept, Amends, TicketsOf
<1>8. /\ fights[f].outcome # o
      /\ \A b : b \in DOMAIN bets /\ bets[b].fight = f =>
           /\ CanCorrect(o, ratios, bets[b])
           /\ (IF b \in DOMAIN plan THEN plan[b] ELSE bets[b]) = CorrectedTicket(o, ratios, bets[b])
  BY <1>1, <1>2, <1>3, <1>5 DEF CorrectionStands, Amended, TicketsOf
<1>9. \A b : b \in DOMAIN bets' /\ bets'[b].fight = f =>
        /\ CanCorrect(o, ratios, bets'[b])
        /\ (IF b \in DOMAIN plan THEN plan[b] ELSE bets'[b]) = CorrectedTicket(o, ratios, bets'[b])
  BY <1>7, <1>8
<1>10. ratios = PayoutRatios(fights'[f].pool, fights'[f].rate, o)
  BY <1>5, <1>6
<1>. QED BY <1>4, <1>6, <1>8, <1>9, <1>10 DEF CorrectionStands, Amended, TicketsOf

LEMMA RevertKept ==
  ASSUME NEW r \in Sessions, tx[r].op = "unsettle", RevertStands(r), tx'[r] = tx[r], Kept(r),
         Live' \subseteq Live
  PROVE  RevertStands(r)'
<1>1. PICK f : f = tx[r].fight
  OBVIOUS
<1>2. PICK plan : plan = tx[r].plan
  OBVIOUS
<1>3. tx'[r].fight = f /\ tx'[r].plan = plan /\ tx'[r].live = tx[r].live
  BY <1>1, <1>2
<1>4. \A b : b \in DOMAIN bets' /\ bets'[b].fight = f =>
               b \in DOMAIN bets /\ bets[b].fight = f /\ bets'[b] = bets[b]
  BY <1>1, <1>3 DEF Kept, Amends, TicketsOf
<1>5. \A b : b \in DOMAIN bets /\ bets[b].fight = f =>
        /\ ~BlocksUnsettle(bets[b])
        /\ (IF b \in DOMAIN plan THEN plan[b] ELSE bets[b]) = UnsettledTicket(bets[b])
  BY <1>1, <1>2 DEF RevertStands, Amended, TicketsOf
<1>6. \A b : b \in DOMAIN bets' /\ bets'[b].fight = f =>
        /\ ~BlocksUnsettle(bets'[b])
        /\ (IF b \in DOMAIN plan THEN plan[b] ELSE bets'[b]) = UnsettledTicket(bets'[b])
  BY <1>4, <1>5
<1>7. Live' \subseteq tx[r].live
  BY DEF RevertStands
<1>. QED BY <1>3, <1>6, <1>7 DEF RevertStands, Amended, TicketsOf

LEMMA CashKept ==
  ASSUME TypeOK, TypeOK', NEW r \in Sessions, CashThere(r), tx'[r] = tx[r],
         tx[r].row.amount \in Int,
         BalanceIn(ledger', tx[r].row.teller) >= Balance(tx[r].row.teller)
  PROVE  CashThere(r)'
<1>1. PICK t : t = tx[r].row.teller
  OBVIOUS
<1>2. IsBook(ledger) /\ IsBook(ledger')
  BY DEF TypeOK, RowsTyped, IsBook, Row
<1>3. BalanceIn(ledger, t) \in Int /\ BalanceIn(ledger', t) \in Int
  BY <1>2, BalanceInt
<1>4. BalanceIn(ledger', t) + tx[r].row.amount >= 0
  BY <1>1, <1>3 DEF CashThere, Balance
<1>. QED BY <1>1, <1>4 DEF CashThere, Balance

LEMMA PurgeKept ==
  ASSUME LedgerInv, [Next]_vars, NEW r \in Sessions, tx[r].op = "purge", PurgeStands(r),
         tx'[r] = tx[r], Kept(r)
  PROVE  PurgeStands(r)'
<1>1. PICK b : b = tx[r].bet
  OBVIOUS
<1>2. PICK plan : plan = tx[r].plan
  OBVIOUS
<1>3. b \in DOMAIN bets /\ bets[b].status = "PAID" /\ plan = PurgeAdjustments(b)
  BY <1>1, <1>2 DEF PurgeStands
<1>4. b \in DOMAIN bets'
  BY <1>1 DEF Kept
<1>5. TypeOK
  BY DEF LedgerInv, TicketInv
<1>6. bets'[b].status = "PAID"
  <2>1. CASE Next
    BY <1>3, <1>4, <1>5, <2>1, NextKeeps DEF CashedKept, Cashed
  <2>2. CASE UNCHANGED vars
    BY <1>3, <2>2 DEF vars
  <2>. QED BY <2>1, <2>2
<1>7. PurgeAdjustments(b)' = PurgeAdjustments(b)
  BY <1>3, <1>4, <1>5, PaidKeepsRows, AdjustmentsStay
<1>8. tx'[r].bet = b /\ tx'[r].plan = plan
  BY <1>1, <1>2
<1>9. plan = PurgeAdjustments(b)'
  BY <1>3, <1>7
<1>. QED BY <1>4, <1>6, <1>8, <1>9 DEF PurgeStands, PurgeAdjustments, RowsOf

\* The cash a payment or a remit takes is a number of centavos.
LEMMA TakenCashIsNumber ==
  ASSUME CarefulInv, NEW r \in Sessions, tx[r].op \in {"pay", "remit"}
  PROVE  tx[r].row.amount \in Int
<1>1. CASE tx[r].op = "pay"
  <2>1. PICK b \in DOMAIN bets : tx[r].row = CashOut(b)
    BY <1>1 DEF CarefulInv, PayInv, PayHolds
  <2>2. bets[b] \in Ticket
    BY DEF CarefulInv, LedgerInv, TicketInv, TypeOK, TicketsTyped
  <2>3. bets[b].payout \in Int
    BY <2>2 DEF Ticket, Money
  <2>. QED BY <2>1, <2>3 DEF CashOut, LedgerRow
<1>2. CASE tx[r].op = "remit"
  <2>1. PICK t \in Tellers, a \in CashAmounts : tx[r].row = LedgerRow(t, "REMIT", -a, NoBet)
    BY <1>2 DEF CarefulInv, Stands, RemitStands
  <2>2. a \in Int
    BY ConstantTypes
  <2>. QED BY <2>1, <2>2 DEF LedgerRow
<1>. QED BY <1>1, <1>2

LEMMA StandsKept ==
  ASSUME CarefulInv, LedgerInv', [Next]_vars, Careful, NEW r \in Sessions, tx'[r] = tx[r], Kept(r)
  PROVE  Stands(r)'
<1>0. Stands(r) /\ LedgerInv /\ TypeOK /\ TypeOK'
  BY DEF CarefulInv, LedgerInv, TicketInv
<1>1. /\ tx[r].op \in {"create", "unsettle"} => Live' \subseteq Live
      /\ tx[r].op \in {"pay", "remit"} =>
           BalanceIn(ledger', tx[r].row.teller) >= Balance(tx[r].row.teller)
  BY DEF Careful
<1>2. tx[r].op = "create" => Live' = {}
  BY <1>0, <1>1 DEF Stands
<1>3. tx[r].op = "correct" => CorrectionStands(r)'
  BY <1>0, CorrectionKept DEF Stands
<1>4. tx[r].op = "unsettle" => RevertStands(r)'
  BY <1>0, <1>1, RevertKept DEF Stands
<1>5. tx[r].op \in {"pay", "remit"} => CashThere(r)'
  BY <1>0, <1>1, CashKept, TakenCashIsNumber DEF Stands, RemitStands
<1>6. tx[r].op = "pay" => bets'[tx[r].bet].payout # Null
  BY <1>0 DEF Stands, Kept
<1>7. tx[r].op = "purge" => PurgeStands(r)'
  BY <1>0, PurgeKept DEF Stands
<1>8. tx[r].op = "remit" => RemitStands(r)'
  BY <1>0, <1>5 DEF Stands, RemitStands
<1>. QED BY <1>2, <1>3, <1>4, <1>5, <1>6, <1>7, <1>8 DEF Stands

-----------------------------------------------------------------------------
(* What a request has just read is so                                      *)

LEMMA CorrectionBegun ==
  ASSUME CarefulInv, NEW s \in Sessions, NEW f \in DOMAIN fights, NEW o \in Outcomes,
         CorrectRead(s, f, o)
  PROVE  Stands(s)'
<1>. DEFINE ratios == PayoutRatios(fights[f].pool, fights[f].rate, o)
            covered == {c \in TicketsOf(f) : ~CorrectionSkips(o, ratios, bets[c])}
            plan == [b \in covered |-> CorrectedTicket(o, ratios, bets[b])]
<1>1. /\ fights[f].outcome # o
      /\ \A b \in TicketsOf(f) : CanCorrect(o, ratios, bets[b])
      /\ tx' = [tx EXCEPT ![s] = [op |-> "correct", fight |-> f, live |-> {},
                                  outcome |-> o, plan |-> plan]]
      /\ fights' = fights /\ bets' = bets
  BY DEF CorrectRead, Begin, bookVars, vars
<1>2. ASSUME NEW b \in TicketsOf(f)
      PROVE  (IF b \in covered THEN plan[b] ELSE bets[b]) = CorrectedTicket(o, ratios, bets[b])
  <2>. HIDE DEF ratios
  <2>1. CASE b \in covered
    BY <2>1
  <2>2. CASE b \notin covered
    BY <2>2 DEF CorrectedTicket
  <2>. QED BY <2>1, <2>2
<1>3. DOMAIN plan = covered
  OBVIOUS
<1>. HIDE DEF plan, covered
<1>4. /\ tx'[s].op = "correct" /\ tx'[s].fight = f /\ tx'[s].outcome = o
      /\ tx'[s].plan = plan
  BY <1>1 DEF CarefulInv, PayInv, CoherenceInv, LockInv
<1>5. ratios = PayoutRatios(fights'[f].pool, fights'[f].rate, o)
  BY <1>1
<1>. HIDE DEF ratios
<1>6. CorrectionStands(s)'
  BY <1>1, <1>2, <1>3, <1>4, <1>5 DEF CorrectionStands, Amended, TicketsOf
<1>. QED BY <1>4, <1>6 DEF Stands

LEMMA RevertBegun ==
  ASSUME CarefulInv, NEW s \in Sessions, NEW f \in DOMAIN fights, UnsettleRead(s, f)
  PROVE  Stands(s)'
<1>. DEFINE covered == {c \in TicketsOf(f) : UnsettledTicket(bets[c]) # bets[c]}
            plan == [b \in covered |-> UnsettledTicket(bets[b])]
<1>1. /\ \A b \in TicketsOf(f) : ~BlocksUnsettle(bets[b])
      /\ tx' = [tx EXCEPT ![s] = [op |-> "unsettle", fight |-> f, live |-> Live,
                                  plan |-> plan]]
      /\ fights' = fights /\ bets' = bets
  BY DEF UnsettleRead, Begin, bookVars, vars
<1>2. \A b \in TicketsOf(f) :
        (IF b \in covered THEN plan[b] ELSE bets[b]) = UnsettledTicket(bets[b])
  OBVIOUS
<1>3. DOMAIN plan = covered
  OBVIOUS
<1>. HIDE DEF plan, covered
<1>4. /\ tx'[s].op = "unsettle" /\ tx'[s].fight = f /\ tx'[s].live = Live
      /\ tx'[s].plan = plan
  BY <1>1 DEF CarefulInv, PayInv, CoherenceInv, LockInv
<1>5. RevertStands(s)'
  BY <1>1, <1>2, <1>3, <1>4 DEF RevertStands, Amended, TicketsOf, Live, FightsIn
<1>. QED BY <1>4, <1>5 DEF Stands

LEMMA PaymentBegun ==
  ASSUME CarefulInv, NEW s \in Sessions, NEW b \in DOMAIN bets, PayRead(s, b)
  PROVE  Stands(s)'
<1>. DEFINE row == CashOut(b)
<1>1. /\ bets[b].payout # Null
      /\ BalanceIn(Posted({row}), row.teller) >= 0
      /\ tx' = [tx EXCEPT ![s] = [op |-> "pay", bet |-> b, row |-> row]]
      /\ bets' = bets /\ ledger' = ledger
  BY DEF PayRead, CashOut, LedgerRow, Begin, bookVars, vars
<1>2. TypeOK /\ row.amount \in Int
  <2>1. TypeOK /\ bets[b] \in Ticket
    BY DEF CarefulInv, LedgerInv, TicketInv, TypeOK, TicketsTyped
  <2>. QED BY <2>1 DEF Ticket, Money, CashOut, LedgerRow
<1>. HIDE DEF row
<1>3. tx'[s].op = "pay" /\ tx'[s].bet = b /\ tx'[s].row = row
  BY <1>1 DEF CarefulInv, PayInv, CoherenceInv, LockInv
<1>4. Balance(row.teller) + row.amount >= 0
  BY <1>1, <1>2, PostedBalance
<1>5. CashThere(s)'
  BY <1>1, <1>3, <1>4 DEF CashThere, Balance
<1>. QED BY <1>1, <1>3, <1>5 DEF Stands

LEMMA PurgeBegun ==
  ASSUME CarefulInv, NEW s \in Sessions, NEW b \in DOMAIN bets, PurgeRead(s, b)
  PROVE  Stands(s)'
<1>. DEFINE plan == PurgeAdjustments(b)
<1>1. /\ bets[b].status = "PAID"
      /\ tx' = [tx EXCEPT ![s] = [op |-> "purge", bet |-> b, plan |-> plan]]
      /\ bets' = bets /\ ledger' = ledger
  BY DEF PurgeRead, Begin, bookVars, vars
<1>2. plan = PurgeAdjustments(b)'
  BY <1>1 DEF PurgeAdjustments, SumOf, RowsOf
<1>. HIDE DEF plan
<1>3. tx'[s].op = "purge" /\ tx'[s].bet = b /\ tx'[s].plan = plan
  BY <1>1 DEF CarefulInv, PayInv, CoherenceInv, LockInv
<1>4. b \in DOMAIN bets' /\ bets'[b].status = "PAID"
  BY <1>1
<1>5. PurgeStands(s)'
  BY <1>2, <1>3, <1>4 DEF PurgeStands, PurgeAdjustments, RowsOf
<1>. QED BY <1>3, <1>5 DEF Stands

LEMMA RemitBegun ==
  ASSUME CarefulInv, NEW s \in Sessions, NEW t \in Tellers, NEW a \in CashAmounts,
         RemitRead(s, t, a)
  PROVE  Stands(s)'
<1>. DEFINE row == LedgerRow(t, "REMIT", -a, NoBet)
<1>1. /\ BalanceIn(Posted({row}), row.teller) >= 0
      /\ tx' = [tx EXCEPT ![s] = [op |-> "remit", row |-> row]]
      /\ ledger' = ledger
  BY DEF RemitRead, LedgerRow, Begin, bookVars, vars
<1>2. TypeOK /\ row.amount \in Int
  BY ConstantTypes DEF CarefulInv, LedgerInv, TicketInv, LedgerRow
<1>3. \E u \in Tellers, c \in CashAmounts : row = LedgerRow(u, "REMIT", -c, NoBet)
  OBVIOUS
<1>. HIDE DEF row
<1>4. tx'[s].op = "remit" /\ tx'[s].row = row
  BY <1>1 DEF CarefulInv, PayInv, CoherenceInv, LockInv
<1>5. Balance(row.teller) + row.amount >= 0
  BY <1>1, <1>2, PostedBalance
<1>6. CashThere(s)'
  BY <1>1, <1>4, <1>5 DEF CashThere, Balance
<1>. QED BY <1>3, <1>4, <1>6 DEF Stands, RemitStands

LEMMA StandsBegun ==
  ASSUME CarefulInv, NEW s \in Sessions, Reads(s)
  PROVE  Stands(s)'
<1>1. CASE CreateRead(s)
  <2>1. tx' = [tx EXCEPT ![s] = [op |-> "create"]] /\ fights' = fights /\ Live = {}
    BY <1>1 DEF CreateRead, Begin, bookVars, vars
  <2>2. tx'[s].op = "create"
    BY <2>1 DEF CarefulInv, PayInv, CoherenceInv, LockInv
  <2>. QED BY <2>1, <2>2 DEF Stands, Live, FightsIn
<1>2. CASE \E t \in Tellers, a \in CashAmounts : RemitRead(s, t, a)
  BY <1>2, RemitBegun
<1>. QED BY <1>1, <1>2, CorrectionBegun, RevertBegun, PaymentBegun, PurgeBegun DEF Reads

LEMMA ApartKept ==
  ASSUME CarefulInv, [TxNext]_txVars, Careful \/ UNCHANGED txVars
  PROVE  PaysApart'
<1>1. CASE UNCHANGED txVars
  BY <1>1 DEF txVars, vars, CarefulInv, PaysApart
<1>2. CASE Careful
  <2>. SUFFICES ASSUME NEW r \in Sessions, NEW s \in Sessions,
                       Amends(tx'[s]), tx'[r].op = "pay"
                PROVE  bets'[tx'[r].bet].fight # tx'[s].fight
    BY DEF PaysApart
  <2>1. bets[tx'[r].bet].fight # tx'[s].fight
    BY <1>2 DEF Careful, Amends
  <2>2. bets'[tx'[r].bet] = bets[tx'[r].bet]
    <3>1. CASE UNCHANGED vars
      BY <3>1 DEF vars
    <3>2. CASE tx'[r] = tx[r]
      BY <3>2, StepKeeps DEF Kept
    <3>3. tx'[r] # Idle
      BY DEF Idle
    <3>. QED BY <3>1, <3>2, <3>3, RequestsMove DEF CarefulInv, PayInv, CoherenceInv
  <2>. QED BY <2>1, <2>2
<1>. QED BY <1>1, <1>2

LEMMA LedgerFollows == CarefulInv /\ [TxNext]_txVars => LedgerInv'
BY StepIsBook, NextFits, NextMatches DEF CarefulInv, LedgerInv

LEMMA AllStand ==
  ASSUME CarefulInv, [TxNext]_txVars, Careful
  PROVE  \A r \in Sessions : Stands(r)'
<1>1. ASSUME NEW r \in Sessions, tx'[r] = tx[r] PROVE Stands(r)'
  BY <1>1, StepIsBook, LedgerFollows, StepKeeps, StandsKept
<1>2. ASSUME NEW r \in Sessions, tx'[r] = Idle PROVE Stands(r)'
  BY <1>2 DEF Stands, Idle
<1>3. ASSUME NEW s \in Sessions, Reads(s), \A r \in Sessions \ {s} : tx'[r] = tx[r]
      PROVE  \A r \in Sessions : Stands(r)'
  <2>1. Stands(s)'
    BY <1>3, StandsBegun
  <2>2. \A r \in Sessions \ {s} : Stands(r)'
    BY <1>1, <1>3
  <2>. QED BY <2>1, <2>2
<1>4. LockInv
  BY DEF CarefulInv, PayInv, CoherenceInv
<1>. QED BY <1>1, <1>2, <1>3, <1>4, RequestsMove

LEMMA CarefulNext == CarefulInv /\ [TxNext /\ Careful]_txVars => CarefulInv'
<1>. SUFFICES ASSUME CarefulInv, [TxNext /\ Careful]_txVars PROVE CarefulInv'
  OBVIOUS
<1>1. [TxNext]_txVars /\ (Careful \/ UNCHANGED txVars)
  OBVIOUS
<1>2. PayInv' /\ LedgerInv' /\ PaysApart'
  BY <1>1, NextPays, LedgerFollows, ApartKept DEF CarefulInv
<1>3. \A s \in Sessions : Stands(s)'
  <2>1. CASE UNCHANGED txVars
    BY <2>1 DEF txVars, vars, CarefulInv, Stands, CorrectionStands, Amended, RevertStands,
      CashThere, PurgeStands, RemitStands, TicketsOf, Live, FightsIn, Balance,
      PurgeAdjustments, RowsOf
  <2>. QED BY <1>1, <2>1, AllStand
<1>. QED BY <1>2, <1>3 DEF CarefulInv

LEMMA CarefulInit == TxInit => CarefulInv
<1>. SUFFICES ASSUME TxInit PROVE CarefulInv
  OBVIOUS
<1>1. LedgerInv
  BY InitType DEF TxInit, Init, LedgerInv, TicketInv, SettledHasOutcome, TicketsFollowFight,
    LedgerMatchesTickets
<1>2. \A s \in Sessions : tx[s].op = "idle"
  BY DEF TxInit, Idle
<1>3. PaysApart /\ \A s \in Sessions : Stands(s)
  BY <1>2 DEF PaysApart, Amends, Stands
<1>. QED BY <1>1, <1>3, InitPays DEF CarefulInv

(***************************************************************************)
(* Requests that keep out of each other's way do what the book promises,   *)
(* however their reads and writes interleave: every write, which rests on  *)
(* what was read before, is the operation of Book that reads and writes at *)
(* once, and every other step changes no table.  What Careful asks is that *)
(* no fight is corrected or reverted while one of its tickets is paid,     *)
(* that none becomes live while one is created or reverted, and that no    *)
(* drawer loses cash between the check of its balance and the row that     *)
(* rests on it.  Purges, voids, bets and settlements may come in between.  *)
(***************************************************************************)
THEOREM CarefulRefinesBook == CarefulSpec => Spec
<1>1. TxInit => Init /\ CarefulInv
  BY CarefulInit DEF TxInit
<1>2. CarefulInv /\ [TxNext /\ Careful]_txVars => CarefulInv'
  BY CarefulNext
<1>3. CarefulInv /\ [TxNext /\ Careful]_txVars => [Next]_vars
  BY StepIsBook
<1>. QED BY <1>1, <1>2, <1>3, PTL DEF CarefulSpec, Spec

(***************************************************************************)
(* So whatever Book promises of its tables holds between any two steps of  *)
(* such requests, also in the middle of them.                              *)
(***************************************************************************)
THEOREM CarefulKeepsPromises ==
  CarefulSpec => [](/\ TicketsFollowFight /\ LedgerMatchesTickets /\ LedgerIsCash
                    /\ PoolsMatchStakes /\ ResultCanBeDeclared)
BY CarefulRefinesBook, TicketsFit, LedgerMatches, LedgerCash, PoolsAreSums, ResultDeclarable, PTL

-----------------------------------------------------------------------------
(***************************************************************************)
(* What the end of a session keeps and may lose: no row and no request is  *)
(* left that refers to rows that are gone, whatever a wipe overlaps with;  *)
(* and a house that is closed loses nobody's money.                        *)
(***************************************************************************)


-----------------------------------------------------------------------------
(* Types, of the tables and of the requests that are in the middle         *)

\* IsRequest, and that the rows a purge or a remit is going to insert are of no
\* ticket, and of a purge not without end.
RequestTyped(q, fightIds, betIds) ==
  /\ q.op = "correct" => /\ q.fight \in fightIds /\ q.live = {} /\ q.outcome \in Outcomes
                         /\ IsPlan(q.plan)
  /\ q.op = "unsettle" => /\ q.fight \in fightIds /\ q.live \subseteq fightIds
                          /\ IsPlan(q.plan)
  /\ q.op = "pay" => q.bet \in betIds /\ q.row \in Row
  /\ q.op = "purge" => /\ q.bet \in betIds /\ q.plan \subseteq Row
                       /\ IsFiniteSet(q.plan) /\ \A r \in q.plan : r.bet = NoBet
  /\ q.op = "remit" => q.row \in Row /\ q.row.bet = NoBet
  /\ q.op \notin {"correct", "unsettle", "pay", "purge", "remit"} =>
       q \in {Idle, [op |-> "create"]}

RequestsTyped == \A s \in Sessions : RequestTyped(tx[s], DOMAIN fights, DOMAIN bets)

TypedInv == TypeOK /\ PayInv /\ RequestsTyped

LEMMA RequestsAre == RequestsTyped => \A s \in Sessions : IsRequest(tx[s])
<1>. SUFFICES ASSUME RequestsTyped, NEW s \in Sessions PROVE IsRequest(tx[s])
  OBVIOUS
<1>1. RequestTyped(tx[s], DOMAIN fights, DOMAIN bets)
  BY DEF RequestsTyped
<1>. QED BY <1>1, Zenon DEF RequestTyped, IsRequest

LEMMA IdleTyped ==
  ASSUME NEW fightIds, NEW betIds
  PROVE  RequestTyped(Idle, fightIds, betIds) /\ RequestTyped([op |-> "create"], fightIds, betIds)
BY DEF RequestTyped, Idle

\* Requests that go on, end or begin.
LEMMA RequestsStay ==
  ASSUME TypedInv, PayInv', DOMAIN fights \subseteq DOMAIN fights',
         \A r \in Sessions :
           \/ tx'[r] = tx[r] /\ (tx[r].op = "purge" => tx[r].bet \in DOMAIN bets')
           \/ tx'[r] = Idle
           \/ RequestTyped(tx'[r], DOMAIN fights', DOMAIN bets')
  PROVE  RequestsTyped'
<1>. SUFFICES ASSUME NEW r \in Sessions, tx'[r] = tx[r],
                     tx[r].op = "purge" => tx[r].bet \in DOMAIN bets'
              PROVE  RequestTyped(tx'[r], DOMAIN fights', DOMAIN bets')
  BY IdleTyped DEF RequestsTyped
<1>1. RequestTyped(tx[r], DOMAIN fights, DOMAIN bets)
  BY DEF TypedInv, RequestsTyped
<1>2. tx'[r].op = "pay" => tx'[r].bet \in DOMAIN bets'
  BY DEF PayInv, PayHolds
<1>. QED BY <1>1, <1>2 DEF RequestTyped

\* Reads, and requests that give up.
LEMMA ReadTyped ==
  ASSUME TypedInv, PayInv', UNCHANGED vars,
         \A r \in Sessions : \/ tx'[r] = tx[r] \/ tx'[r] = Idle
                             \/ RequestTyped(tx'[r], DOMAIN fights, DOMAIN bets)
  PROVE  TypedInv'
<1>1. TypeOK'
  BY NextType DEF TypedInv
<1>2. fights' = fights /\ bets' = bets
  BY DEF vars
<1>3. \A r \in Sessions : tx[r].op = "purge" => tx[r].bet \in DOMAIN bets
  BY DEF TypedInv, RequestsTyped, RequestTyped
<1>4. RequestsTyped'
  BY <1>2, <1>3, RequestsStay
<1>. QED BY <1>1, <1>4 DEF TypedInv

LEMMA DirectTyped == TypedInv /\ PayInv' /\ Direct => TypedInv'
<1>. SUFFICES ASSUME TypedInv, PayInv', Direct PROVE TypedInv'
  OBVIOUS
<1>1. TypeOK'
  BY DirectIsBook, NextType DEF TypedInv
<1>2. /\ DOMAIN fights \subseteq DOMAIN fights' /\ DOMAIN bets \subseteq DOMAIN bets'
  <2>1. CASE Unlocked
    BY <2>1 DEF Unlocked, UpdateSetting, CashAdvance, DeleteRemit
  <2>2. ASSUME NEW f \in DOMAIN fights, UnderFightLock(f)
        PROVE  DOMAIN fights \subseteq DOMAIN fights' /\ DOMAIN bets \subseteq DOMAIN bets'
    <3>1. RowsCoherent /\ TicketsShaped
      BY DEF TypedInv, PayInv, CoherenceInv
    <3>2. WritesOnly(f) /\ BetsUnder(f)
      BY <2>2, <3>1, FightLockWrites, FightLockBets
    <3>3. DOMAIN fights' = DOMAIN fights
      BY <3>1, <3>2, OneRowWritten
    <3>. QED BY <3>2, <3>3 DEF BetsUnder
  <2>. QED BY <2>1, <2>2 DEF Direct
<1>3. \A r \in Sessions : tx[r].op = "purge" => tx[r].bet \in DOMAIN bets
  BY DEF TypedInv, RequestsTyped, RequestTyped
<1>4. RequestsTyped'
  BY <1>2, <1>3, RequestsStay DEF Direct
<1>. QED BY <1>1, <1>4 DEF TypedInv

\* The request of a session is over, the others go on.
LEMMA DoneAre ==
  ASSUME TypedInv, NEW s \in Sessions, Done(s)
  PROVE  \A r \in Sessions : tx'[r] = Idle \/ (r # s /\ tx'[r] = tx[r])
BY DEF TypedInv, PayInv, CoherenceInv, LockInv, Done

LEMMA PurgedExist == TypedInv => \A r \in Sessions : tx[r].op = "purge" => tx[r].bet \in DOMAIN bets
BY DEF TypedInv, RequestsTyped, RequestTyped

LEMMA CreateTyped ==
  ASSUME TypedInv, PayInv', NEW s \in Sessions, CreateWrite(s)
  PROVE  TypedInv'
<1>1. FightsTyped' /\ DOMAIN fights \subseteq DOMAIN fights'
  <2>1. PICK n \in 1 .. MaxFights :
          fights' = [f \in DOMAIN fights \cup {n} |->
                       IF f = n THEN NewFight(setting) ELSE fights[f]]
    BY DEF CreateWrite
  <2>2. NewFight(setting) \in Fight
    BY NewRows, ConstantTypes DEF TypedInv, TypeOK
  <2>. QED BY <2>1, <2>2 DEF TypedInv, TypeOK, FightsTyped
<1>2. TypeOK'
  BY <1>1 DEF CreateWrite, TypedInv, TypeOK, TicketsTyped, RowsTyped, HistoryTyped, history
<1>3. Done(s) /\ bets' = bets
  BY DEF CreateWrite
<1>4. RequestsTyped'
  BY <1>1, <1>3, DoneAre, PurgedExist, RequestsStay
<1>. QED BY <1>2, <1>4 DEF TypedInv

\* The rows of a plan become the tickets of their fight.
LEMMA WrittenTickets ==
  ASSUME TypedInv, NEW s \in Sessions, Amends(tx[s]), WriteTickets(tx[s].fight, tx[s].plan),
         DOMAIN fights' = DOMAIN fights
  PROVE  TicketsTyped' /\ DOMAIN bets' = DOMAIN bets
<1>1. bets' = [b \in DOMAIN bets |-> IF b \in DOMAIN tx[s].plan THEN tx[s].plan[b] ELSE bets[b]]
  BY DEF WriteTickets
<1>2. ASSUME NEW b \in DOMAIN tx[s].plan
      PROVE  tx[s].plan[b] \in Ticket /\ tx[s].plan[b].fight \in DOMAIN fights
  <2>1. RequestTyped(tx[s], DOMAIN fights, DOMAIN bets) /\ PlanHolds(s)
    BY DEF TypedInv, RequestsTyped, PayInv
  <2>. QED BY <2>1 DEF RequestTyped, IsPlan, PlanHolds, Amends
<1>3. TicketsTyped
  BY DEF TypedInv, TypeOK
<1>. QED BY <1>1, <1>2, <1>3 DEF TicketsTyped

LEMMA AmendmentTyped ==
  ASSUME TypedInv, PayInv', NEW s \in Sessions, Amends(tx[s]),
         WriteTickets(tx[s].fight, tx[s].plan), FightsTyped', DOMAIN fights' = DOMAIN fights,
         Done(s), UNCHANGED <<setting, ledger, history>>
  PROVE  TypedInv'
<1>1. TicketsTyped' /\ DOMAIN bets' = DOMAIN bets
  BY WrittenTickets
<1>2. TypeOK'
  BY <1>1 DEF TypedInv, TypeOK, RowsTyped, HistoryTyped, history
<1>3. RequestsTyped'
  BY <1>1, DoneAre, PurgedExist, RequestsStay
<1>. QED BY <1>2, <1>3 DEF TypedInv

LEMMA CorrectTyped ==
  ASSUME TypedInv, PayInv', NEW s \in Sessions, CorrectWrite(s)
  PROVE  TypedInv'
<1>. DEFINE f == tx[s].fight
            o == tx[s].outcome
            ratios == PayoutRatios(fights[f].pool, fights[f].rate, o)
            row == [fights[f] EXCEPT !.outcome = o, !.ratios = ratios,
                                     !.prevOutcome = fights[f].outcome,
                                     !.prevRatios = fights[f].ratios]
<1>1. /\ Amends(tx[s]) /\ f \in DOMAIN fights /\ o \in Outcomes /\ fights[f] \in Fight
      /\ FightsTyped
  BY DEF CorrectWrite, Amends, TypedInv, TypeOK, FightsTyped, RequestsTyped, RequestTyped
<1>2. ratios \in Ratios
  BY <1>1, RatioTypes DEF Fight
<1>3. fights' = [fights EXCEPT ![f] = row]
  BY DEF CorrectWrite
<1>4. row \in Fight
  <2>. HIDE DEF ratios, f, o
  <2>. QED BY <1>1, <1>2 DEF Fight, FightStatuses
<1>5. FightsTyped' /\ DOMAIN fights' = DOMAIN fights
  <2>. HIDE DEF row, f
  <2>. QED BY <1>1, <1>3, <1>4, FightWritten
<1>6. /\ WriteTickets(tx[s].fight, tx[s].plan) /\ Done(s)
      /\ UNCHANGED <<setting, ledger, history>>
  BY DEF CorrectWrite
<1>. QED BY <1>1, <1>5, <1>6, AmendmentTyped

LEMMA UnsettleTyped ==
  ASSUME TypedInv, PayInv', NEW s \in Sessions, UnsettleWrite(s)
  PROVE  TypedInv'
<1>. DEFINE f == tx[s].fight
            undone == [fights[f] EXCEPT !.status = "CLOSED", !.outcome = None,
                         !.ratios = NoRatios, !.prevOutcome = None, !.prevRatios = NoRatios]
            closed(g) == [fights[g] EXCEPT !.status = "CLOSED"]
<1>1. /\ Amends(tx[s]) /\ f \in DOMAIN fights /\ FightsTyped
      /\ \A g \in DOMAIN fights : fights[g] \in Fight
  BY DEF UnsettleWrite, Amends, TypedInv, TypeOK, FightsTyped, RequestsTyped, RequestTyped
<1>2. undone \in Fight
  <2>1. fights[f] \in Fight
    BY <1>1
  <2>. HIDE DEF f
  <2>. QED BY <2>1, NewRows DEF Fight, FightStatuses
<1>3. \A g \in DOMAIN fights : closed(g) \in Fight
  BY <1>1 DEF Fight, FightStatuses
<1>4. fights' = [g \in DOMAIN fights |->
        CASE g = f -> undone [] g \in tx[s].live -> closed(g) [] OTHER -> fights[g]]
  BY DEF UnsettleWrite
<1>5. FightsTyped' /\ DOMAIN fights' = DOMAIN fights
  <2>. HIDE DEF undone, closed, f
  <2>1. fights' = [g \in DOMAIN fights |-> fights'[g]] /\ DOMAIN fights' = DOMAIN fights
    BY <1>4
  <2>2. \A g \in DOMAIN fights : fights'[g] \in {undone, closed(g), fights[g]}
    BY <1>4
  <2>3. \A g \in DOMAIN fights : fights'[g] \in Fight
    BY <1>1, <1>2, <1>3, <2>2
  <2>. QED BY <1>1, <2>1, <2>3 DEF FightsTyped
<1>6. /\ WriteTickets(tx[s].fight, tx[s].plan) /\ Done(s)
      /\ UNCHANGED <<setting, ledger, history>>
  BY DEF UnsettleWrite
<1>. QED BY <1>1, <1>5, <1>6, AmendmentTyped

LEMMA PayTyped ==
  ASSUME TypedInv, PayInv', NEW s \in Sessions, PayWrite(s)
  PROVE  TypedInv'
<1>1. PICK b \in DOMAIN bets : b = tx[s].bet
  BY DEF PayWrite, TypedInv, RequestsTyped, RequestTyped
<1>2. PICK row \in Row : row = tx[s].row
  BY DEF PayWrite, TypedInv, RequestsTyped, RequestTyped
<1>3. row.bet = b
  <2>1. PayHolds(s)
    BY DEF PayWrite, TypedInv, PayInv
  <2>2. row = CashOut(b)
    BY <1>1, <1>2, <2>1 DEF PayHolds
  <2>. QED BY <2>2 DEF CashOut, LedgerRow
<1>4. /\ bets' = [bets EXCEPT ![b].status = IF row.type = "PAYOUT" THEN "PAID" ELSE "REFUNDED"]
      /\ ledger' = Posted({row})
      /\ drawer' = [drawer EXCEPT ![row.teller] = @ + row.amount]
      /\ paidOut' = [paidOut EXCEPT ![bets[b].fight] = @ - row.amount]
      /\ Done(s) /\ UNCHANGED <<setting, fights, purged>>
  BY <1>1, <1>2 DEF PayWrite
<1>5. /\ bets[b] \in Ticket /\ bets[b].fight \in 1 .. MaxFights
      /\ row.teller \in Tellers /\ row.amount \in Int /\ TicketsTyped /\ RowsTyped /\ HistoryTyped
  BY DEF TypedInv, TypeOK, TicketsTyped, FightsTyped, Row
<1>6. TicketsTyped' /\ DOMAIN bets' = DOMAIN bets
  <2>1. PICK status \in {"PAID", "REFUNDED"} :
          status = IF row.type = "PAYOUT" THEN "PAID" ELSE "REFUNDED"
    OBVIOUS
  <2>2. [bets[b] EXCEPT !.status = status] \in Ticket
    BY <1>5, <2>1 DEF Ticket, TicketStatuses
  <2>3. bets' = [bets EXCEPT ![b] = [bets[b] EXCEPT !.status = status]]
    BY <1>4, <2>1
  <2>4. [bets[b] EXCEPT !.status = status].fight = bets[b].fight
    BY <1>5 DEF Ticket
  <2>. QED BY <1>4, <1>5, <2>2, <2>3, <2>4 DEF TicketsTyped
<1>7. RowsTyped'
  BY <1>3, <1>4, <1>5, <1>6, PostedRow
<1>8. HistoryTyped'
  BY <1>4, <1>5 DEF HistoryTyped, Money
<1>9. TypeOK'
  BY <1>4, <1>6, <1>7, <1>8 DEF TypedInv, TypeOK, FightsTyped
<1>10. RequestsTyped'
  BY <1>4, <1>6, DoneAre, PurgedExist, RequestsStay
<1>. QED BY <1>9, <1>10 DEF TypedInv

LEMMA PurgeTyped ==
  ASSUME TypedInv, PayInv', NEW s \in Sessions, PurgeWrite(s)
  PROVE  TypedInv'
<1>1. PICK b \in DOMAIN bets : b = tx[s].bet
  BY DEF PurgeWrite, TypedInv, RequestsTyped, RequestTyped
<1>2. PICK added : /\ added = tx[s].plan /\ added \subseteq Row /\ IsFiniteSet(added)
                   /\ \A r \in added : r.bet = NoBet
  BY DEF PurgeWrite, TypedInv, RequestsTyped, RequestTyped
<1>. DEFINE kept == Restrict(ledger, DOMAIN ledger \ RowsOf(b))
<1>3. /\ bets' = [x \in DOMAIN bets \ {b} |-> bets[x]]
      /\ ledger' = kept (+) SetToBag(added)
      /\ purged' = [purged EXCEPT ![bets[b].fight][bets[b].side] = @ + bets[b].amount]
      /\ tx' = [r \in Sessions |-> IF tx[r].op = "purge" /\ tx[r].bet = b THEN Idle ELSE tx[r]]
      /\ UNCHANGED <<setting, fights, drawer, paidOut>>
  BY <1>1, <1>2 DEF PurgeWrite, Restrict
<1>4. /\ bets[b] \in Ticket /\ bets[b].fight \in 1 .. MaxFights
      /\ bets[b].side \in Sides /\ bets[b].amount \in Int
      /\ TicketsTyped /\ RowsTyped /\ HistoryTyped
  BY DEF TypedInv, TypeOK, TicketsTyped, FightsTyped, Ticket, Money
<1>5. TicketsTyped' /\ DOMAIN bets' = DOMAIN bets \ {b}
  <2>1. IsFiniteSet(DOMAIN bets \ {b})
    BY <1>4, FS_Subset DEF TicketsTyped
  <2>. QED BY <1>3, <1>4, <2>1 DEF TicketsTyped
<1>6. RowsTyped'
  <2>1. DOMAIN kept = DOMAIN ledger \ RowsOf(b) /\ kept \in [DOMAIN kept -> Nat \ {0}]
    BY <1>4 DEF Restrict, RowsTyped
  <2>2. \A r \in DOMAIN kept : r \in Row /\ (r.bet # NoBet => r.bet \in DOMAIN bets')
    BY <1>4, <1>5, <2>1 DEF RowsTyped, RowsOf
  <2>3. IsFiniteSet(DOMAIN kept)
    BY <1>4, <2>1, FS_Subset DEF RowsTyped
  <2>. HIDE DEF kept
  <2>4. DOMAIN ledger' = DOMAIN kept \cup added /\ ledger' \in [DOMAIN ledger' -> Nat \ {0}]
    BY <1>3, <2>1, AddedRows
  <2>5. IsFiniteSet(DOMAIN kept \cup added)
    BY <1>2, <2>3, FS_Union
  <2>. QED BY <1>2, <2>2, <2>4, <2>5 DEF RowsTyped
<1>7. HistoryTyped'
  <2>1. [purged[bets[b].fight] EXCEPT ![bets[b].side] = @ + bets[b].amount] \in Pools
    BY <1>4 DEF HistoryTyped, Pools, Money
  <2>. QED BY <1>3, <1>4, <2>1 DEF HistoryTyped
<1>8. TypeOK'
  BY <1>3, <1>5, <1>6, <1>7 DEF TypedInv, TypeOK, FightsTyped
<1>9. RequestsTyped'
  <2>1. \A r \in Sessions : \/ tx'[r] = Idle
                            \/ tx'[r] = tx[r] /\ (tx[r].op = "purge" => tx[r].bet # b)
    BY <1>3
  <2>. QED BY <1>3, <1>5, <2>1, PurgedExist, RequestsStay
<1>. QED BY <1>8, <1>9 DEF TypedInv

LEMMA RemitTyped ==
  ASSUME TypedInv, PayInv', NEW s \in Sessions, RemitWrite(s)
  PROVE  TypedInv'
<1>1. PICK row \in Row : row = tx[s].row /\ row.bet = NoBet
  BY DEF RemitWrite, TypedInv, RequestsTyped, RequestTyped
<1>2. /\ ledger' = Posted({row})
      /\ drawer' = [drawer EXCEPT ![row.teller] = @ + row.amount]
      /\ Done(s) /\ UNCHANGED <<setting, fights, bets, paidOut, purged>>
  BY <1>1 DEF RemitWrite
<1>3. row.teller \in Tellers /\ row.amount \in Int /\ RowsTyped /\ HistoryTyped
  BY DEF Row, TypedInv, TypeOK
<1>4. RowsTyped'
  BY <1>1, <1>2, <1>3, PostedRow
<1>5. HistoryTyped'
  BY <1>2, <1>3 DEF HistoryTyped
<1>6. TypeOK'
  BY <1>2, <1>4, <1>5 DEF TypedInv, TypeOK, FightsTyped, TicketsTyped
<1>7. RequestsTyped'
  BY <1>2, DoneAre, PurgedExist, RequestsStay
<1>. QED BY <1>6, <1>7 DEF TypedInv


\* What a session begins is what it has read; the others go on.
LEMMA BegunAre ==
  ASSUME TypedInv, NEW s \in Sessions, NEW request, Begin(s, request)
  PROVE  UNCHANGED vars /\ \A r \in Sessions : tx'[r] = tx[r] \/ tx'[r] = request
BY DEF TypedInv, PayInv, CoherenceInv, LockInv, Begin, bookVars

LEMMA BegunTyped ==
  ASSUME TypedInv, PayInv', NEW s \in Sessions, NEW request, Begin(s, request),
         RequestTyped(request, DOMAIN fights, DOMAIN bets)
  PROVE  TypedInv'
<1>1. UNCHANGED vars /\ \A r \in Sessions : tx'[r] = tx[r] \/ tx'[r] = request
  BY BegunAre
<1>2. \A r \in Sessions : \/ tx'[r] = tx[r] \/ tx'[r] = Idle
                          \/ RequestTyped(tx'[r], DOMAIN fights, DOMAIN bets)
  BY <1>1
<1>. QED BY <1>1, <1>2, ReadTyped

LEMMA CorrectReadTyped ==
  ASSUME TypedInv, PayInv', NEW s \in Sessions, NEW f \in DOMAIN fights, NEW o \in Outcomes,
         CorrectRead(s, f, o)
  PROVE  TypedInv'
<1>. DEFINE ratios == PayoutRatios(fights[f].pool, fights[f].rate, o)
            plan == [b \in {c \in TicketsOf(f) : ~CorrectionSkips(o, ratios, bets[c])} |->
                       CorrectedTicket(o, ratios, bets[b])]
            request == [op |-> "correct", fight |-> f, live |-> {}, outcome |-> o, plan |-> plan]
<1>1. Begin(s, request)
  BY DEF CorrectRead
<1>2. IsPlan(plan)
  <2>1. ratios \in Ratios
    BY RatioTypes DEF TypedInv, TypeOK, FightsTyped, Fight
  <2>. HIDE DEF ratios
  <2>2. \A b \in TicketsOf(f) : b \in BetIds /\ CorrectedTicket(o, ratios, bets[b]) \in Ticket
    BY <2>1, TicketPlans DEF TypedInv, TypeOK, TicketsTyped, TicketsOf
  <2>. QED BY <2>2 DEF IsPlan
<1>3. RequestTyped(request, DOMAIN fights, DOMAIN bets)
  <2>. HIDE DEF plan
  <2>. QED BY <1>2 DEF RequestTyped
<1>. HIDE DEF request
<1>. QED BY <1>1, <1>3, BegunTyped

LEMMA UnsettleReadTyped ==
  ASSUME TypedInv, PayInv', NEW s \in Sessions, NEW f \in DOMAIN fights, UnsettleRead(s, f)
  PROVE  TypedInv'
<1>. DEFINE plan == [b \in {c \in TicketsOf(f) : UnsettledTicket(bets[c]) # bets[c]} |->
                       UnsettledTicket(bets[b])]
            request == [op |-> "unsettle", fight |-> f, live |-> Live, plan |-> plan]
<1>1. Begin(s, request)
  BY DEF UnsettleRead
<1>2. IsPlan(plan)
  <2>1. \A b \in TicketsOf(f) : b \in BetIds /\ UnsettledTicket(bets[b]) \in Ticket
    BY NewRows, TicketPlans DEF TypedInv, TypeOK, TicketsTyped, TicketsOf
  <2>. QED BY <2>1 DEF IsPlan
<1>3. Live \subseteq DOMAIN fights
  BY DEF Live, FightsIn
<1>4. RequestTyped(request, DOMAIN fights, DOMAIN bets)
  <2>. HIDE DEF plan
  <2>. QED BY <1>2, <1>3 DEF RequestTyped
<1>. HIDE DEF request
<1>. QED BY <1>1, <1>4, BegunTyped

LEMMA PayReadTyped ==
  ASSUME TypedInv, PayInv', NEW s \in Sessions, NEW b \in DOMAIN bets, PayRead(s, b)
  PROVE  TypedInv'
<1>. DEFINE row == CashOut(b)
            request == [op |-> "pay", bet |-> b, row |-> row]
<1>1. Begin(s, request)
  BY DEF PayRead
<1>2. row \in Row
  <2>1. bets[b] \in Ticket /\ b \in BetIds
    BY DEF TypedInv, TypeOK, TicketsTyped
  <2>. QED BY <2>1 DEF CashOut, LedgerRow, Row, CashTypes, TicketTypes, Ticket, Money
<1>3. RequestTyped(request, DOMAIN fights, DOMAIN bets)
  <2>. HIDE DEF row
  <2>. QED BY <1>2 DEF RequestTyped
<1>. HIDE DEF request
<1>. QED BY <1>1, <1>3, BegunTyped

LEMMA PurgeReadTyped ==
  ASSUME TypedInv, PayInv', NEW s \in Sessions, NEW b \in DOMAIN bets, PurgeRead(s, b)
  PROVE  TypedInv'
<1>. DEFINE plan == PurgeAdjustments(b)
            request == [op |-> "purge", bet |-> b, plan |-> plan]
<1>1. Begin(s, request)
  BY DEF PurgeRead
<1>2. plan \subseteq Row /\ IsFiniteSet(plan) /\ \A r \in plan : r.bet = NoBet
  BY AdjustmentsTyped DEF TypedInv, TypeOK
<1>3. RequestTyped(request, DOMAIN fights, DOMAIN bets)
  <2>. HIDE DEF plan
  <2>. QED BY <1>2 DEF RequestTyped
<1>. HIDE DEF request
<1>. QED BY <1>1, <1>3, BegunTyped

LEMMA RemitReadTyped ==
  ASSUME TypedInv, PayInv', NEW s \in Sessions, NEW t \in Tellers, NEW a \in CashAmounts,
         RemitRead(s, t, a)
  PROVE  TypedInv'
<1>. DEFINE row == LedgerRow(t, "REMIT", -a, NoBet)
            request == [op |-> "remit", row |-> row]
<1>1. Begin(s, request)
  BY DEF RemitRead
<1>2. row \in Row /\ row.bet = NoBet
  BY ConstantTypes DEF LedgerRow, Row, CashTypes
<1>3. RequestTyped(request, DOMAIN fights, DOMAIN bets)
  <2>. HIDE DEF row
  <2>. QED BY <1>2 DEF RequestTyped
<1>. HIDE DEF request
<1>. QED BY <1>1, <1>3, BegunTyped

LEMMA GivingUpTyped ==
  ASSUME TypedInv, PayInv', NEW s \in Sessions, GivingUp(s)
  PROVE  TypedInv'
<1>1. Done(s) /\ UNCHANGED vars
  BY DEF GivingUp, Rejected, Timeout, bookVars
<1>. QED BY <1>1, DoneAre, ReadTyped

LEMMA NextTyped == TypedInv /\ [TxNext]_txVars => TypedInv'
<1>. SUFFICES ASSUME TypedInv, [TxNext]_txVars PROVE TypedInv'
  OBVIOUS
<1>1. PayInv'
  BY NextPays DEF TypedInv
<1>2. CASE UNCHANGED txVars
  <2>1. UNCHANGED vars /\ \A r \in Sessions : tx'[r] = tx[r]
    BY <1>2 DEF txVars
  <2>. QED BY <1>1, <2>1, ReadTyped
<1>3. CASE Direct
  BY <1>1, <1>3, DirectTyped
<1>4. ASSUME NEW s \in Sessions, Creating(s) PROVE TypedInv'
  <2>1. CASE CreateRead(s)
    <3>1. Begin(s, [op |-> "create"])
      BY <2>1 DEF CreateRead
    <3>. QED BY <1>1, <3>1, IdleTyped, BegunTyped
  <2>. QED BY <1>1, <1>4, <2>1, CreateTyped DEF Creating
<1>5. ASSUME NEW s \in Sessions, Amending(s) PROVE TypedInv'
  BY <1>1, <1>5, CorrectReadTyped, CorrectTyped DEF Amending
<1>6. ASSUME NEW s \in Sessions, Returning(s) PROVE TypedInv'
  BY <1>1, <1>6, UnsettleReadTyped, UnsettleTyped DEF Returning
<1>7. ASSUME NEW s \in Sessions, Redeeming(s) PROVE TypedInv'
  BY <1>1, <1>7, PayReadTyped, PayTyped DEF Redeeming
<1>8. ASSUME NEW s \in Sessions, Erasing(s) PROVE TypedInv'
  BY <1>1, <1>8, PurgeReadTyped, PurgeTyped DEF Erasing
<1>9. ASSUME NEW s \in Sessions, Remitting(s) PROVE TypedInv'
  BY <1>1, <1>9, RemitReadTyped, RemitTyped DEF Remitting
<1>10. ASSUME NEW s \in Sessions, GivingUp(s) PROVE TypedInv'
  BY <1>1, <1>10, GivingUpTyped
<1>. QED BY <1>2, <1>3, <1>4, <1>5, <1>6, <1>7, <1>8, <1>9, <1>10 DEF TxNext

LEMMA InitTyped == TxInit => TypedInv
<1>. SUFFICES ASSUME TxInit PROVE TypedInv
  OBVIOUS
<1>1. TypeOK /\ PayInv
  BY InitType, InitPays DEF TxInit
<1>2. RequestsTyped
  BY IdleTyped DEF TxInit, RequestsTyped
<1>. QED BY <1>1, <1>2 DEF TypedInv


-----------------------------------------------------------------------------
(* The request to reset, and what it knows of the tables                   *)

IsSequence(q) == \E S : q \in Seq(S)

WipeTyped ==
  wipe # Nobody =>
    /\ wipe = [step |-> wipe.step, forced |-> wipe.forced, passed |-> wipe.passed,
               counts |-> wipe.counts, alone |-> wipe.alone]
    /\ wipe.step \in {"gate", "counting"}
    /\ wipe.passed \subseteq Gates
    /\ IsSequence(wipe.counts) /\ Len(wipe.counts) <= Len(CountNames)

AuditsTyped ==
  /\ IsSequence(audits)
  /\ Len(audits) + (IF wipe = Nobody THEN 0 ELSE 1) <= MaxResets

ResetInv == TypedInv /\ WipeTyped /\ AuditsTyped

\* While nobody else is served, what the statements found is still so.
GateInv ==
  wipe # Nobody =>
    /\ wipe.step = "counting" => wipe.forced \/ wipe.passed = Gates
    /\ wipe.alone => /\ \A s \in Sessions : tx[s] = Idle
                     /\ \A gate \in wipe.passed : Passes(gate)
                     /\ \A i \in 1 .. Len(wipe.counts) : wipe.counts[i] = CountOf(CountNames[i])


\* A wipe leaves no row and no request: what is to hold of them does.
LEMMA WipedTyped == TypedInv /\ Wipe => TypedInv'
<1>. SUFFICES ASSUME TypedInv, Wipe PROVE TypedInv'
  OBVIOUS
<1>1. \A s \in Sessions : tx[s].op = "idle" => tx[s] = Idle
  <2>. SUFFICES ASSUME NEW s \in Sessions, tx[s].op = "idle" PROVE tx[s] = Idle
    OBVIOUS
  <2>1. RequestTyped(tx[s], DOMAIN fights, DOMAIN bets)
    BY DEF TypedInv, RequestsTyped
  <2>. QED BY <2>1 DEF RequestTyped, Idle
<1>2. tx' = [s \in Sessions |-> Idle]
  BY <1>1 DEF Wipe, TablesFree
<1>3. Blank'
  BY <1>2 DEF Wipe, Blank
<1>4. PayInv'
  BY <1>3, BlankPays, PTL
<1>5. TypeOK'
  <2>1. FightsTyped' /\ TicketsTyped'
    BY FS_EmptySet, ConstantTypes DEF Wipe, FightsTyped, TicketsTyped
  <2>2. RowsTyped'
    BY FS_EmptySet DEF Wipe, RowsTyped, EmptyBag, SetToBag
  <2>3. HistoryTyped'
    BY DEF Wipe, TypedInv, TypeOK, HistoryTyped, Money, Pools
  <2>. QED BY <2>1, <2>2, <2>3 DEF Wipe, TypedInv, TypeOK
<1>6. RequestsTyped'
  BY <1>2, IdleTyped DEF RequestsTyped
<1>. QED BY <1>4, <1>5, <1>6 DEF TypedInv

\* A wipe is all a reset does to the tables and to the requests.
LEMMA SameTables ==
  ASSUME UNCHANGED txVars
  PROVE  /\ TypedInv => TypedInv'
         /\ \A gate \in Gates : Passes(gate)' <=> Passes(gate)
         /\ \A i : CountOf(CountNames[i])' = CountOf(CountNames[i])
         /\ tx' = tx
<1>1. UNCHANGED vars /\ tx' = tx
  BY DEF txVars
<1>2. TypedInv => TypedInv'
  BY NextTyped
<1>3. \A gate \in Gates : Passes(gate)' <=> Passes(gate)
  BY <1>1, Zenon DEF vars, Passes, FightsIn, NoUnpaidWinner, NoBalance, Balance
<1>4. \A i : CountOf(CountNames[i])' = CountOf(CountNames[i])
  BY <1>1, Zenon DEF vars, CountOf
<1>. QED BY <1>1, <1>2, <1>3, <1>4

LEMMA FourCounts == Len(CountNames) = 4
BY DEF CountNames

\* A request to reset that goes on.
WipeRecord(step, forced, passed, counts, alone) ==
  [step |-> step, forced |-> forced, passed |-> passed, counts |-> counts, alone |-> alone]

LEMMA WipeRecords ==
  ASSUME NEW step, NEW forced, NEW passed, NEW counts, NEW alone
  PROVE  LET w == WipeRecord(step, forced, passed, counts, alone) IN
         /\ w # Nobody /\ w.step = step /\ w.forced = forced /\ w.passed = passed
         /\ w.counts = counts /\ w.alone = alone
BY DEF WipeRecord, Nobody

LEMMA WipeIs ==
  ASSUME WipeTyped, wipe # Nobody
  PROVE  wipe = WipeRecord(wipe.step, wipe.forced, wipe.passed, wipe.counts, wipe.alone)
BY DEF WipeTyped, WipeRecord

\* What the steps of a reset make of its request, without EXCEPT.
LEMMA StepsAre ==
  ASSUME ResetInv
  PROVE  /\ \A force \in BOOLEAN : RequestReset(force) =>
              wipe' = WipeRecord(IF force THEN "counting" ELSE "gate", force, {}, << >>,
                                 \A s \in Sessions : tx[s] = Idle)
         /\ \A gate \in Gates : PassGate(gate) =>
              wipe' = WipeRecord(IF wipe.passed \cup {gate} = Gates THEN "counting" ELSE "gate",
                                 wipe.forced, wipe.passed \cup {gate}, wipe.counts, wipe.alone)
         /\ CountRows =>
              wipe' = WipeRecord("counting", wipe.forced, wipe.passed,
                        Append(wipe.counts, CountOf(CountNames[Len(wipe.counts) + 1])), wipe.alone)
         /\ Serving => \/ wipe = Nobody /\ wipe' = Nobody
                       \/ /\ wipe # Nobody
                          /\ wipe' = WipeRecord(wipe.step, wipe.forced, wipe.passed,
                                                wipe.counts, FALSE)
<1>1. \A force \in BOOLEAN : RequestReset(force) =>
        wipe' = WipeRecord(IF force THEN "counting" ELSE "gate", force, {}, << >>,
                           \A s \in Sessions : tx[s] = Idle)
  BY Zenon DEF RequestReset, WipeRecord
<1>2. wipe.step \in {"gate", "counting"} => wipe # Nobody
  BY DEF Nobody
<1>3. ASSUME NEW gate \in Gates, PassGate(gate)
      PROVE  wipe' = WipeRecord(IF wipe.passed \cup {gate} = Gates THEN "counting" ELSE "gate",
                                wipe.forced, wipe.passed \cup {gate}, wipe.counts, wipe.alone)
  <2>1. wipe # Nobody /\ wipe.step = "gate"
    BY <1>2, <1>3 DEF PassGate
  <2>2. PICK step : step = IF wipe.passed \cup {gate} = Gates THEN "counting" ELSE "gate"
    OBVIOUS
  <2>3. wipe' = [wipe EXCEPT !.passed = wipe.passed \cup {gate}, !.step = step]
    BY <1>3, <2>1, <2>2 DEF PassGate
  <2>. QED BY <2>1, <2>2, <2>3, WipeIs, Zenon DEF ResetInv, WipeRecord
<1>4. ASSUME CountRows
      PROVE  wipe' = WipeRecord("counting", wipe.forced, wipe.passed,
                       Append(wipe.counts, CountOf(CountNames[Len(wipe.counts) + 1])), wipe.alone)
  <2>1. wipe # Nobody /\ wipe.step = "counting"
    BY <1>2, <1>4 DEF CountRows
  <2>. QED BY <1>4, <2>1, WipeIs DEF ResetInv, WipeRecord, CountRows
<1>5. ASSUME Serving, wipe # Nobody
      PROVE  wipe' = WipeRecord(wipe.step, wipe.forced, wipe.passed, wipe.counts, FALSE)
  BY <1>5, WipeIs DEF ResetInv, WipeRecord, Serving
<1>6. ASSUME Serving, wipe = Nobody PROVE wipe' = Nobody
  BY <1>6 DEF Serving
<1>. QED BY <1>1, <1>3, <1>4, <1>5, <1>6


LEMMA Appended ==
  ASSUME NEW q, IsSequence(q), NEW e
  PROVE  /\ IsSequence(Append(q, e)) /\ Len(q) \in Nat /\ Len(Append(q, e)) = Len(q) + 1
         /\ \A i \in 1 .. Len(q) : Append(q, e)[i] = q[i]
         /\ Append(q, e)[Len(q) + 1] = e
<1>1. PICK S : q \in Seq(S)
  BY DEF IsSequence
<1>2. q \in Seq(S \cup {e})
  BY <1>1, ElementOfSeq, LenProperties
<1>3. Append(q, e) \in Seq(S \cup {e}) /\ Len(q) \in Nat
  BY <1>2
<1>4. Len(Append(q, e)) = Len(q) + 1
  BY <1>2
<1>5. \A i \in 1 .. Len(q) : Append(q, e)[i] = q[i]
  BY <1>2
<1>6. Append(q, e)[Len(q) + 1] = e
  BY <1>2
<1>. QED BY <1>3, <1>4, <1>5, <1>6 DEF IsSequence

LEMMA EmptySequence == IsSequence(<< >>) /\ Len(<< >>) = 0
<1>1. << >> \in Seq({}) /\ Len(<< >>) = 0
  OBVIOUS
<1>. QED BY <1>1 DEF IsSequence

\* The tables and the audit rows stay in every step of a reset but the wipe.
LEMMA StepsKeep ==
  ASSUME Resetting, ~Wipe
  PROVE  UNCHANGED txVars /\ UNCHANGED audits
BY DEF Resetting, RequestReset, PassGate, RefuseReset, CountRows, AbortReset

\* The ways a request to reset comes, goes on and ends.
LEMMA ResetSteps ==
  ASSUME [ResetNext]_resetVars
  PROVE  \/ \E force \in BOOLEAN : RequestReset(force)
         \/ \E gate \in Gates : PassGate(gate)
         \/ CountRows
         \/ Serving
         \/ Wipe
         \/ wipe' \in {wipe, Nobody} /\ UNCHANGED <<txVars, audits>>
BY DEF ResetNext, Resetting, RefuseReset, AbortReset, resetVars

LEMMA NextReset == ResetInv /\ [ResetNext]_resetVars => ResetInv'
<1>. SUFFICES ASSUME ResetInv, [ResetNext]_resetVars PROVE ResetInv'
  OBVIOUS
<1>1. MaxResets \in Nat /\ IsSequence(audits) /\ Len(audits) \in Nat
  BY ResetConstants, Appended DEF ResetInv, AuditsTyped
<1>2. ASSUME UNCHANGED txVars PROVE TypedInv'
  BY <1>2, SameTables DEF ResetInv
<1>3. ASSUME NEW step \in {"gate", "counting"}, NEW forced, NEW passed \in SUBSET Gates,
             NEW counts, IsSequence(counts), Len(counts) <= Len(CountNames), NEW alone,
             wipe' = WipeRecord(step, forced, passed, counts, alone)
      PROVE  WipeTyped' /\ wipe' # Nobody
  BY <1>3, WipeRecords, Zenon DEF WipeTyped, WipeRecord
<1>4. ASSUME UNCHANGED audits, wipe # Nobody \/ wipe' = Nobody PROVE AuditsTyped'
  BY <1>1, <1>4 DEF ResetInv, AuditsTyped
<1>5. ASSUME NEW force \in BOOLEAN, RequestReset(force) PROVE ResetInv'
  <2>1. PICK step \in {"gate", "counting"} : step = IF force THEN "counting" ELSE "gate"
    OBVIOUS
  <2>2. PICK alone : alone = \A s \in Sessions : tx[s] = Idle
    OBVIOUS
  <2>3. wipe' = WipeRecord(step, force, {}, << >>, alone)
    BY <1>5, <2>1, <2>2, StepsAre
  <2>4. WipeTyped' /\ wipe' # Nobody
    BY <1>3, <2>3, EmptySequence, FourCounts
  <2>5. UNCHANGED txVars /\ UNCHANGED audits /\ Len(audits) < MaxResets
    BY <1>5 DEF RequestReset
  <2>6. AuditsTyped'
    BY <1>1, <2>5 DEF AuditsTyped
  <2>. QED BY <1>2, <2>4, <2>5, <2>6 DEF ResetInv
<1>6. ASSUME NEW gate \in Gates, PassGate(gate) PROVE ResetInv'
  <2>1. PICK step \in {"gate", "counting"} :
          step = IF wipe.passed \cup {gate} = Gates THEN "counting" ELSE "gate"
    OBVIOUS
  <2>2. wipe # Nobody
    BY <1>6 DEF PassGate, Nobody
  <2>3. wipe' = WipeRecord(step, wipe.forced, wipe.passed \cup {gate}, wipe.counts, wipe.alone)
    BY <1>6, <2>1, StepsAre
  <2>4. WipeTyped'
    BY <1>3, <2>2, <2>3 DEF ResetInv, WipeTyped
  <2>5. UNCHANGED txVars /\ UNCHANGED audits
    BY <1>6 DEF PassGate
  <2>. QED BY <1>2, <1>4, <2>2, <2>4, <2>5 DEF ResetInv
<1>7. CASE CountRows
  <2>1. wipe # Nobody /\ Len(wipe.counts) < Len(CountNames)
    BY <1>7 DEF CountRows, Nobody
  <2>2. PICK count : count = CountOf(CountNames[Len(wipe.counts) + 1])
    OBVIOUS
  <2>3. IsSequence(wipe.counts) /\ wipe.passed \subseteq Gates
    BY <2>1 DEF ResetInv, WipeTyped
  <2>4. PICK counts : /\ counts = Append(wipe.counts, count) /\ IsSequence(counts)
                      /\ Len(counts) = Len(wipe.counts) + 1 /\ Len(wipe.counts) \in Nat
    BY <2>3, Appended
  <2>5. Len(counts) <= Len(CountNames)
    BY <2>1, <2>4, FourCounts
  <2>6. wipe' = WipeRecord("counting", wipe.forced, wipe.passed, counts, wipe.alone)
    BY <1>7, <2>2, <2>4, StepsAre
  <2>7. WipeTyped'
    BY <1>3, <2>3, <2>4, <2>5, <2>6
  <2>8. UNCHANGED txVars /\ UNCHANGED audits
    BY <1>7 DEF CountRows
  <2>. QED BY <1>2, <1>4, <2>1, <2>7, <2>8 DEF ResetInv
<1>8. CASE Serving
  <2>1. TypedInv' /\ UNCHANGED audits
    BY <1>8, NextTyped DEF Serving, ResetInv
  <2>2. CASE wipe = Nobody /\ wipe' = Nobody
    BY <1>4, <2>1, <2>2 DEF ResetInv, WipeTyped
  <2>3. CASE /\ wipe # Nobody
             /\ wipe' = WipeRecord(wipe.step, wipe.forced, wipe.passed, wipe.counts, FALSE)
    BY <1>3, <1>4, <2>1, <2>3 DEF ResetInv, WipeTyped
  <2>. QED BY <1>8, <2>2, <2>3, StepsAre
<1>9. CASE Wipe
  <2>1. TypedInv'
    BY <1>9, WipedTyped DEF ResetInv
  <2>2. wipe # Nobody /\ wipe' = Nobody
    BY <1>9 DEF Wipe, Nobody
  <2>3. PICK e : audits' = Append(audits, e)
    BY <1>9 DEF Wipe
  <2>4. AuditsTyped'
    BY <1>1, <2>2, <2>3, Appended DEF ResetInv, AuditsTyped
  <2>. QED BY <2>1, <2>2, <2>4 DEF ResetInv, WipeTyped
<1>10. CASE wipe' \in {wipe, Nobody} /\ UNCHANGED <<txVars, audits>>
  <2>1. WipeTyped'
    BY <1>10 DEF ResetInv, WipeTyped
  <2>. QED BY <1>2, <1>4, <1>10, <2>1 DEF ResetInv
<1>. QED BY <1>5, <1>6, <1>7, <1>8, <1>9, <1>10, ResetSteps

LEMMA InitReset == ResetInit => ResetInv
<1>. SUFFICES ASSUME ResetInit PROVE ResetInv
  OBVIOUS
<1>1. AuditsTyped
  BY EmptySequence, ResetConstants DEF ResetInit, AuditsTyped
<1>. QED BY <1>1, InitTyped DEF ResetInit, ResetInv, WipeTyped

(***************************************************************************)
(* Whatever a wipe overlaps with, and however many of them there are, the  *)
(* tables that remain refer only to rows that exist, and so does every     *)
(* request that is in the middle of its transaction (session.service.js:   *)
(* "there is no risk of half-wiped state from interleaved writes").        *)
(***************************************************************************)
THEOREM ResetTyped == ResetSpec => []ResetTypeOK
<1>1. ResetInit => ResetInv
  BY InitReset
<1>2. ResetInv /\ [ResetNext]_resetVars => ResetInv'
  BY NextReset
<1>3. ResetInv => ResetTypeOK
  <2>. SUFFICES ASSUME ResetInv PROVE ResetTypeOK
    OBVIOUS
  <2>1. TxTypeOK
    BY RequestsAre DEF ResetInv, TypedInv, TxTypeOK
  <2>2. Len(audits) <= MaxResets
    BY Appended, ResetConstants DEF ResetInv, AuditsTyped
  <2>. QED BY <2>1, <2>2 DEF ResetInv, WipeTyped, ResetTypeOK
<1>. QED BY <1>1, <1>2, <1>3, PTL DEF ResetSpec

(***************************************************************************)
(* And a reset in the middle changes nothing of what the locks are good    *)
(* for: fight rows stay coherent and payments current.                     *)
(***************************************************************************)
THEOREM ResetKeepsLocks == ResetSpec => [](FightRowCoherent /\ PaymentIsCurrent)
<1>1. ResetInit => ResetInv
  BY InitReset
<1>2. ResetInv /\ [ResetNext]_resetVars => ResetInv'
  BY NextReset
<1>3. ResetInv => FightRowCoherent /\ PaymentIsCurrent
  <2>. SUFFICES ASSUME ResetInv PROVE FightRowCoherent /\ PaymentIsCurrent
    OBVIOUS
  <2>1. PaymentIsCurrent
    BY DEF ResetInv, TypedInv, PayInv, PayHolds, PaymentIsCurrent
  <2>2. FightRowCoherent
    BY DEF ResetInv, TypedInv, PayInv, CoherenceInv, RowsCoherent, RowCoherent, FightRowCoherent
  <2>. QED BY <2>1, <2>2
<1>. QED BY <1>1, <1>2, <1>3, PTL DEF ResetSpec


-----------------------------------------------------------------------------
(* What a reset that was alone has seen                                    *)

LEMMA NextGate == ResetInv /\ GateInv /\ [ResetNext]_resetVars => GateInv'
<1>. SUFFICES ASSUME ResetInv, GateInv, [ResetNext]_resetVars, wipe' # Nobody PROVE GateInv'
  BY DEF GateInv
<1>. DEFINE Found(passed, counts) ==
              /\ \A s \in Sessions : tx[s] = Idle
              /\ \A gate \in passed : Passes(gate)
              /\ \A i \in 1 .. Len(counts) : counts[i] = CountOf(CountNames[i])
\* The tables are as they were: what holds of the new request holds now.
<1>1. ASSUME UNCHANGED txVars, NEW step, NEW forced, NEW passed \in SUBSET Gates, NEW counts,
             NEW alone, wipe' = WipeRecord(step, forced, passed, counts, alone),
             step = "counting" => forced \/ passed = Gates,
             alone => Found(passed, counts)
      PROVE  GateInv'
  <2>1. /\ wipe'.step = step /\ wipe'.forced = forced /\ wipe'.passed = passed
        /\ wipe'.counts = counts /\ wipe'.alone = alone
    BY <1>1, WipeRecords
  <2>2. wipe'.step = "counting" => wipe'.forced \/ wipe'.passed = Gates
    BY <1>1, <2>1
  <2>3. ASSUME wipe'.alone
        PROVE  /\ \A s \in Sessions : tx'[s] = Idle
               /\ \A gate \in passed : Passes(gate)'
               /\ \A i \in 1 .. Len(counts) : counts[i] = CountOf(CountNames[i])'
    BY <1>1, <2>1, <2>3, SameTables
  <2>4. ASSUME wipe'.alone
        PROVE  /\ \A s \in Sessions : tx'[s] = Idle
               /\ \A gate \in wipe'.passed : Passes(gate)'
               /\ \A i \in 1 .. Len(wipe'.counts) : wipe'.counts[i] = CountOf(CountNames[i])'
    BY <2>1, <2>3, <2>4
  <2>. QED BY <2>2, <2>4 DEF GateInv
<1>2. ASSUME wipe # Nobody
      PROVE  /\ wipe.step = "counting" => wipe.forced \/ wipe.passed = Gates
             /\ wipe.alone => Found(wipe.passed, wipe.counts)
             /\ wipe.passed \in SUBSET Gates /\ IsSequence(wipe.counts)
  BY <1>2 DEF GateInv, ResetInv, WipeTyped
<1>3. ASSUME NEW force \in BOOLEAN, RequestReset(force) PROVE GateInv'
  <2>1. PICK step : step = IF force THEN "counting" ELSE "gate"
    OBVIOUS
  <2>2. PICK alone : alone = \A s \in Sessions : tx[s] = Idle
    OBVIOUS
  <2>3. wipe' = WipeRecord(step, force, {}, << >>, alone)
    BY <1>3, <2>1, <2>2, StepsAre
  <2>4. alone => Found({}, << >>)
    <3>1. \A i \in 1 .. Len(<< >>) : FALSE
      BY EmptySequence
    <3>2. alone => \A s \in Sessions : tx[s] = Idle
      BY <2>2, Zenon
    <3>. QED BY <3>1, <3>2, Zenon
  <2>5. UNCHANGED txVars
    BY <1>3 DEF RequestReset
  <2>. HIDE DEF Found
  <2>. QED BY <1>1, <2>1, <2>3, <2>4, <2>5
<1>4. ASSUME NEW gate \in Gates, PassGate(gate) PROVE GateInv'
  <2>1. PICK step : step = IF wipe.passed \cup {gate} = Gates THEN "counting" ELSE "gate"
    OBVIOUS
  <2>2. wipe # Nobody /\ Passes(gate) /\ UNCHANGED txVars
    BY <1>4 DEF PassGate, Nobody
  <2>3. wipe' = WipeRecord(step, wipe.forced, wipe.passed \cup {gate}, wipe.counts, wipe.alone)
    BY <1>4, <2>1, StepsAre
  <2>4. wipe.alone => Found(wipe.passed \cup {gate}, wipe.counts)
    BY <1>2, <2>2
  <2>5. wipe.passed \cup {gate} \in SUBSET Gates /\ (step = "counting" => wipe.passed \cup {gate} = Gates)
    BY <1>2, <2>1, <2>2
  <2>. HIDE DEF Found
  <2>. QED BY <1>1, <2>2, <2>3, <2>4, <2>5
<1>5. CASE CountRows
  <2>1. wipe # Nobody /\ wipe.step = "counting" /\ UNCHANGED txVars
    BY <1>5 DEF CountRows, Nobody
  <2>2. PICK n : n = Len(wipe.counts)
    OBVIOUS
  <2>3. PICK count : count = CountOf(CountNames[n + 1])
    OBVIOUS
  <2>. HIDE DEF Found
  <2>4. IsSequence(wipe.counts)
    BY <1>2, <2>1
  <2>5. PICK counts : /\ counts = Append(wipe.counts, count)
                      /\ n \in Nat /\ Len(counts) = n + 1
                      /\ \A i \in 1 .. n : counts[i] = wipe.counts[i]
                      /\ counts[n + 1] = count
    BY <2>2, <2>4, Appended
  <2>6. wipe' = WipeRecord("counting", wipe.forced, wipe.passed, counts, wipe.alone)
    BY <1>5, <2>2, <2>3, <2>5, StepsAre
  <2>7. wipe.alone => Found(wipe.passed, counts)
    <3>. SUFFICES ASSUME wipe.alone PROVE Found(wipe.passed, counts)
      OBVIOUS
    <3>1. Found(wipe.passed, wipe.counts)
      BY <1>2, <2>1
    <3>2. \A i \in 1 .. n + 1 : counts[i] = CountOf(CountNames[i])
      <4>. SUFFICES ASSUME NEW i \in 1 .. n + 1 PROVE counts[i] = CountOf(CountNames[i])
        OBVIOUS
      <4>1. CASE i = n + 1
        BY <2>3, <2>5, <4>1
      <4>2. CASE i # n + 1
        <5>1. i \in 1 .. n
          BY <2>5, <4>2
        <5>. QED BY <2>2, <2>5, <3>1, <5>1 DEF Found
      <4>. QED BY <4>1, <4>2
    <3>. QED BY <2>5, <3>1, <3>2 DEF Found
  <2>. QED BY <1>1, <1>2, <2>1, <2>6, <2>7
<1>6. CASE Serving
  <2>1. wipe # Nobody /\ wipe' = WipeRecord(wipe.step, wipe.forced, wipe.passed, wipe.counts, FALSE)
    BY <1>6, StepsAre
  <2>2. /\ wipe'.step = wipe.step /\ wipe'.forced = wipe.forced /\ wipe'.passed = wipe.passed
        /\ ~wipe'.alone
    BY <2>1, Zenon DEF WipeRecord
  <2>. QED BY <1>2, <2>1, <2>2 DEF GateInv
<1>7. CASE Wipe
  BY <1>7 DEF Wipe
<1>8. CASE wipe' \in {wipe, Nobody} /\ UNCHANGED <<txVars, audits>>
  <2>1. wipe' = wipe /\ wipe # Nobody /\ UNCHANGED txVars
    BY <1>8
  <2>2. wipe' = WipeRecord(wipe.step, wipe.forced, wipe.passed, wipe.counts, wipe.alone)
    BY <2>1, WipeIs DEF ResetInv
  <2>. HIDE DEF Found
  <2>. QED BY <1>1, <1>2, <2>1, <2>2
<1>. QED BY <1>3, <1>4, <1>5, <1>6, <1>7, <1>8, ResetSteps

\* Only a wipe writes an audit row.
LEMMA WipedByWipe ==
  ASSUME ResetInv, [ResetNext]_resetVars, Wiped
  PROVE  Wipe
<1>1. Len(audits) \in Nat
  BY Appended DEF ResetInv, AuditsTyped
<1>2. audits' # audits
  BY <1>1 DEF Wiped
<1>. QED BY <1>2, ResetSteps DEF RequestReset, PassGate, CountRows, Serving

\* What a wipe that was neither forced nor overlapped finds.
ClosedHouse ==
  /\ \A b \in DOMAIN bets : bets[b].status # "WON"
  /\ \A t \in Tellers : Balance(t) = 0
  /\ \A i \in 1 .. Len(CountNames) : audits'[Len(audits')].counts[i] = CountOf(CountNames[i])

LEMMA WipesClosedHouse ==
  ASSUME ResetInv, GateInv, Wipe, Unforced, wipe.alone
  PROVE  ClosedHouse
<1>1. wipe # Nobody /\ wipe.step = "counting" /\ Len(wipe.counts) = Len(CountNames)
  BY DEF Wipe, Nobody
<1>2. /\ \A gate \in Gates : Passes(gate)
      /\ \A i \in 1 .. Len(CountNames) : wipe.counts[i] = CountOf(CountNames[i])
  BY <1>1 DEF GateInv, Unforced
<1>3. Passes("unpaidWinningBets") /\ Passes("nonZeroBalances")
  BY <1>2 DEF Gates
<1>4. NoUnpaidWinner /\ NoBalance
  BY <1>3, Zenon DEF Passes
<1>5. audits' = Append(audits, [counts |-> wipe.counts, forced |-> wipe.forced])
  BY DEF Wipe
<1>6. audits'[Len(audits')] = [counts |-> wipe.counts, forced |-> wipe.forced]
  BY <1>5, Appended DEF ResetInv, AuditsTyped
<1>. QED BY <1>2, <1>4, <1>6 DEF ClosedHouse, NoUnpaidWinner, NoBalance

LEMMA InitGate == ResetInit => ResetInv /\ GateInv
BY InitReset DEF ResetInit, GateInv

\* The formula of ClosedHouseLosesNothing.
NothingLost ==
  Wiped /\ Unforced /\ wipe.alone =>
    /\ \A b \in DOMAIN bets : bets[b].status # "WON"
    /\ \A t \in Tellers : drawer[t] = 0
    /\ \A i \in 1 .. Len(CountNames) :
         audits'[Len(audits')].counts[i] = CountOf(CountNames[i])

LEMMA LosesNothing ==
  ResetInv /\ GateInv /\ LedgerIsCash /\ [ResetNext]_resetVars => NothingLost
BY WipedByWipe, WipesClosedHouse DEF NothingLost, ClosedHouse, LedgerIsCash


(***************************************************************************)
(* The gate is worth what the ledger is: as long as the ledger tells the   *)
(* cash in the drawers, an unforced reset during which nobody else was     *)
(* served wipes no winning ticket that was not paid and leaves no cash     *)
(* behind, and its audit row counts what it wiped.                         *)
(***************************************************************************)
THEOREM ClosedHouseKeeps == ResetSpec /\ []LedgerIsCash => ClosedHouseLosesNothing
<1>1. ResetInit => ResetInv /\ GateInv
  BY InitGate
<1>2. ResetInv /\ GateInv /\ [ResetNext]_resetVars => ResetInv' /\ GateInv'
  BY NextReset, NextGate
<1>3. ResetInv /\ GateInv /\ LedgerIsCash /\ [ResetNext]_resetVars => [NothingLost]_resetVars
  BY LosesNothing
<1>. QED BY <1>1, <1>2, <1>3, PTL DEF ResetSpec, ClosedHouseLosesNothing, NothingLost

-----------------------------------------------------------------------------
(* Many evenings in a row                                                  *)

OrderlyInv == ResetInv /\ GateInv /\ CarefulInv /\ DeclarableInv /\ LedgerIsCash

\* After a closed house is wiped everything is as on the first evening.
LEMMA WipeBeginsAnew ==
  ASSUME OrderlyInv, Wipe, Unforced, wipe.alone
  PROVE  TxInit'
<1>1. wipe # Nobody
  BY DEF Wipe, Nobody
<1>2. tx' = [s \in Sessions |-> Idle]
  BY <1>1 DEF OrderlyInv, GateInv, Wipe
<1>3. \A t \in Tellers : drawer[t] = 0
  BY WipesClosedHouse DEF OrderlyInv, ClosedHouse, LedgerIsCash
<1>4. drawer' = [t \in Tellers |-> 0] /\ setting' \in Rates
  BY <1>3 DEF Wipe, OrderlyInv, ResetInv, TypedInv, TypeOK, HistoryTyped
<1>. QED BY <1>2, <1>4 DEF TxInit, Init, Wipe

LEMMA NextOrderly == OrderlyInv /\ [ResetNext /\ Orderly]_resetVars => OrderlyInv'
<1>. SUFFICES ASSUME OrderlyInv, [ResetNext /\ Orderly]_resetVars PROVE OrderlyInv'
  OBVIOUS
<1>1. ResetInv' /\ GateInv'
  BY NextReset, NextGate DEF OrderlyInv
<1>2. ASSUME [TxNext /\ Careful]_txVars PROVE CarefulInv' /\ DeclarableInv' /\ LedgerIsCash'
  <2>1. CarefulInv'
    BY <1>2, CarefulNext DEF OrderlyInv
  <2>2. [Next]_vars /\ TypeOK
    BY <1>2, StepIsBook DEF OrderlyInv, ResetInv, TypedInv
  <2>. QED BY <2>1, <2>2, NextCash, NextDeclarable DEF OrderlyInv
<1>3. CASE Wipe
  <2>1. Unforced /\ wipe.alone
    <3>1. Wiped
      BY <1>3, Appended DEF Wipe, Wiped, OrderlyInv, ResetInv, AuditsTyped
    <3>2. audits' # audits
      BY <3>1, Appended DEF Wiped, OrderlyInv, ResetInv, AuditsTyped
    <3>. QED BY <3>1, <3>2 DEF Orderly, resetVars
  <2>2. TxInit'
    BY <1>3, <2>1, WipeBeginsAnew
  <2>3. CarefulInv' /\ DeclarableInv' /\ LedgerIsCash'
    BY <2>2, CarefulInit, InitCash, InitDeclarable, PTL DEF TxInit
  <2>. QED BY <1>1, <2>3 DEF OrderlyInv
<1>4. CASE Serving
  <2>1. TxNext /\ (Careful \/ UNCHANGED resetVars)
    BY <1>4 DEF Serving, Orderly
  <2>. QED BY <1>1, <1>2, <2>1 DEF OrderlyInv, resetVars
<1>5. CASE UNCHANGED txVars
  BY <1>1, <1>2, <1>5 DEF OrderlyInv
<1>. QED BY <1>3, <1>4, <1>5, StepsKeep DEF ResetNext, resetVars

LEMMA InitOrderly == ResetInit => OrderlyInv
BY InitGate, CarefulInit, InitCash, InitDeclarable DEF ResetInit, TxInit, OrderlyInv

(***************************************************************************)
(* What the book promises within a session it promises over many: when     *)
(* requests keep out of each other's way and only closed houses are wiped, *)
(* the books of no evening are left with a trace of the evening before.    *)
(* The drawers are not wiped with the tables: that the new ledger tells    *)
(* the cash in them rests on the gate.                                     *)
(***************************************************************************)
THEOREM EveningsBalance ==
  OrderlySpec => /\ [](/\ TicketsFollowFight /\ LedgerMatchesTickets /\ LedgerIsCash
                       /\ PoolsMatchStakes /\ ResultCanBeDeclared)
                 /\ ClosedHouseLosesNothing
<1>1. ResetInit => OrderlyInv
  BY InitOrderly
<1>2. OrderlyInv /\ [ResetNext /\ Orderly]_resetVars => OrderlyInv'
  BY NextOrderly
<1>3. OrderlyInv => /\ TicketsFollowFight /\ LedgerMatchesTickets /\ LedgerIsCash
                    /\ PoolsMatchStakes /\ ResultCanBeDeclared
  BY InvDeclarable DEF OrderlyInv, CarefulInv, LedgerInv, TicketInv, DeclarableInv, PoolInv
<1>4. [ResetNext /\ Orderly]_resetVars => [ResetNext]_resetVars
  OBVIOUS
<1>. QED BY <1>1, <1>2, <1>3, <1>4, ClosedHouseKeeps, PTL DEF OrderlySpec, ResetSpec
=============================================================================
