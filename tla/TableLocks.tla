----------------------------- MODULE TableLocks -----------------------------
(***************************************************************************)
(* The locks the transactions hold while a session is reset.  Postgres     *)
(* locks a table for every statement, in a mode that lets other statements *)
(* through and keeps TRUNCATE out, and holds it until the transaction      *)
(* ends; SELECT FOR UPDATE and UPDATE lock rows besides.  A transaction is *)
(* the list of locks it takes, in the order of its statements; a lock that *)
(* cannot be had is waited for in a queue.  The rows are those on which    *)
(* requests meet: the fight that takes bets, a fight declared before it, a *)
(* ticket of the latter, and the advisory lock of fight openings.          *)
(***************************************************************************)
EXTENDS Sequences, FiniteSets, Naturals

CONSTANTS Requests,     \* the requests served at the same time
          Kinds         \* what they may ask for

Tables == {"TellerLedger", "Bet", "Fight"}
Rows   == {"live fight", "settled fight", "settled ticket", "opening"}

Shared(things)    == [i \in DOMAIN things |-> [on |-> things[i], alone |-> FALSE]]
Exclusive(things) == [i \in DOMAIN things |-> [on |-> things[i], alone |-> TRUE]]

-----------------------------------------------------------------------------
(* The transactions                                                        *)

\* placeBet, voidBet
TicketLocks == Shared(<<"Fight">>) \o Exclusive(<<"live fight">>)
                 \o Shared(<<"Bet", "TellerLedger">>)

\* Fault: payBet locks the fight as the declarations do, after the ticket.
PayThenFightLocks == Shared(<<"Bet">>) \o Exclusive(<<"settled ticket">>)
                       \o Shared(<<"Fight">>) \o Exclusive(<<"settled fight">>)
                       \o Shared(<<"TellerLedger">>)

\* payBet
PayLocks == Shared(<<"Bet">>) \o Exclusive(<<"settled ticket">>)
              \o Shared(<<"Fight", "TellerLedger">>)

\* purgeBet
PurgeLocks == Shared(<<"Bet", "TellerLedger">>) \o Exclusive(<<"settled ticket">>)

\* correctFight
CorrectLocks == Shared(<<"Fight">>) \o Exclusive(<<"settled fight">>)
                  \o Shared(<<"Bet">>) \o Exclusive(<<"settled ticket">>)

\* createFight
CreateLocks == Exclusive(<<"opening">>) \o Shared(<<"Fight">>)

\* unsettleFight
UnsettleLocks == Exclusive(<<"opening">>) \o Shared(<<"Fight">>)
                   \o Exclusive(<<"settled fight">>) \o Exclusive(<<"live fight">>)
                   \o Shared(<<"Bet">>) \o Exclusive(<<"settled ticket">>)

\* cashAdvance, cashRemit, deleteRemit
CashLocks == Shared(<<"TellerLedger">>)

\* Fault: DELETE FROM the three tables instead of TRUNCATE.
ResetByDeleteLocks == Shared(<<"Fight", "Bet", "TellerLedger">>)

\* performReset: the counts, then the TRUNCATE.
ResetLocks == Shared(<<"Fight", "Bet", "TellerLedger">>)
                \o Exclusive(<<"TellerLedger", "Bet", "Fight">>)

LocksOf(kind) ==
  CASE kind = "ticket"   -> TicketLocks
    [] kind = "pay"      -> PayLocks
    [] kind = "purge"    -> PurgeLocks
    [] kind = "correct"  -> CorrectLocks
    [] kind = "create"   -> CreateLocks
    [] kind = "unsettle" -> UnsettleLocks
    [] kind = "cash"     -> CashLocks
    [] kind = "reset"    -> ResetLocks
    [] OTHER             -> << >>

-----------------------------------------------------------------------------

VARIABLES kind,         \* request -> what its transaction does, or "none"
          got,          \* request -> how many of its locks it holds
          queued,       \* the requests that wait for a lock
          ahead         \* request -> those that queued up for it before

vars == <<kind, got, queued, ahead>>

Init ==
  /\ kind = [r \in Requests |-> "none"]
  /\ got = [r \in Requests |-> 0]
  /\ queued = {}
  /\ ahead = [r \in Requests |-> {}]

Wanted(r) == LocksOf(kind[r])[got[r] + 1]

\* Of two locks on one thing one keeps the other out.
Conflict(held, lock) == held.on = lock.on /\ (held.alone \/ lock.alone)

\* What r holds keeps lock out, were it asked for by another request.
Holds(r, lock) == \E i \in 1 .. got[r] : Conflict(LocksOf(kind[r])[i], lock)

\* A request waits for those that hold what it wants, and for those that
\* asked for it before and may not have it at the same time.
WaitsFor(r, q) ==
  /\ q # r
  /\ r \in queued
  /\ \/ Holds(q, Wanted(r))
     \/ q \in ahead[r] /\ Conflict(Wanted(q), Wanted(r))

Begin(r, k) ==
  /\ kind[r] = "none"
  /\ kind' = [kind EXCEPT ![r] = k]
  /\ UNCHANGED <<got, queued, ahead>>

Ask(r) ==
  /\ got[r] < Len(LocksOf(kind[r]))
  /\ r \notin queued
  /\ queued' = queued \cup {r}
  /\ ahead' = [ahead EXCEPT ![r] = {q \in queued : Wanted(q).on = Wanted(r).on}]
  /\ UNCHANGED <<kind, got>>

LeavesQueue(r) ==
  /\ queued' = queued \ {r}
  /\ ahead' = [q \in Requests |-> IF q = r THEN {} ELSE ahead[q] \ {r}]

Grant(r) ==
  /\ r \in queued
  /\ ~\E q \in Requests : WaitsFor(r, q)
  /\ got' = [got EXCEPT ![r] = @ + 1]
  /\ LeavesQueue(r)
  /\ UNCHANGED kind

Ends(r) ==
  /\ kind' = [kind EXCEPT ![r] = "none"]
  /\ got' = [got EXCEPT ![r] = 0]
  /\ LeavesQueue(r)

Commit(r) ==
  /\ kind[r] # "none"
  /\ got[r] = Len(LocksOf(kind[r]))
  /\ Ends(r)

\* Everyone in D waits for someone in D.
Deadlocked(D) == D # {} /\ \A r \in D : \E q \in D : WaitsFor(r, q)

\* Fault: the one that is failed is tried again, without end.
VictimRetries(r) ==
  /\ \E D \in SUBSET Requests : r \in D /\ Deadlocked(D)
  /\ got' = [got EXCEPT ![r] = 0]
  /\ LeavesQueue(r)
  /\ UNCHANGED kind

\* Postgres looks for a deadlock after a second and fails one of them.
Victim(r) ==
  /\ \E D \in SUBSET Requests : r \in D /\ Deadlocked(D)
  /\ Ends(r)

\* P2028: the transaction has used up its 10 or 15 seconds.
Expire(r) == kind[r] # "none" /\ Ends(r)

Moves(r) == Ask(r) \/ Grant(r) \/ Commit(r)

Next ==
  \E r \in Requests :
    \/ \E k \in Kinds : Begin(r, k)
    \/ Moves(r) \/ Victim(r) \/ Expire(r)

Spec == Init /\ [][Next]_vars

\* What is free to go on goes on, and the detector finds what is not.
Fairness == \A r \in Requests : WF_vars(Moves(r)) /\ WF_vars(Victim(r))

FairSpec == Spec /\ Fairness

-----------------------------------------------------------------------------

(***************************************************************************)
(* The services lock in one order (the opening of fights, a fight, its     *)
(* tickets, and payBet no fight at all), so that requests never wait for   *)
(* each other in a circle unless a reset is one of them.                   *)
(***************************************************************************)
OnlyResetsDeadlock ==
  \A D \in SUBSET Requests : Deadlocked(D) => \E r \in D : kind[r] = "reset"

(***************************************************************************)
(* "There is no risk of half-wiped state from interleaved writes"          *)
(* (session.service.js): when a reset has what it needs to commit, no      *)
(* other transaction has read or written any of the three tables.          *)
(***************************************************************************)
WipeIsAlone ==
  \A r \in Requests :
    kind[r] = "reset" /\ got[r] = Len(LocksOf("reset")) =>
      \A q \in Requests \ {r} : \A i \in 1 .. got[q] :
        LocksOf(kind[q])[i].on \notin Tables
=============================================================================
