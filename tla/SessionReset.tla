---------------------------- MODULE SessionReset ----------------------------
(***************************************************************************)
(* The end of a session (session.service.js): an admin wipes the fights,   *)
(* the tickets and the ledger, while other requests may be in flight.      *)
(* Unless the wipe is forced, three statements look first for money that   *)
(* is not settled; then one transaction counts the rows, writes an audit   *)
(* row and truncates the tables.  The users' passwords and the tokens are  *)
(* taken to be right.                                                      *)
(***************************************************************************)
EXTENDS BookTx, Sequences

CONSTANT MaxResets      \* bound: wipes

ASSUME ResetConstants == MaxResets \in Nat

VARIABLES wipe,         \* the request to reset that is being served, and (history)
                        \* whether any other was served since it came
          audits        \* the SessionReset rows, which nothing deletes

resetVars == <<txVars, wipe, audits>>

Nobody == [step |-> "none"]

Gates == {"unfinishedFights", "unpaidWinningBets", "nonZeroBalances"}
CountNames == <<"fights", "bets", "ledger", "collectorCash">>

ResetInit == TxInit /\ wipe = Nobody /\ audits = << >>

-----------------------------------------------------------------------------

\* Fault: a negative balance is not seen.
NoPositiveBalance == \A t \in Tellers : Balance(t) <= 0
NoBalance == \A t \in Tellers : Balance(t) = 0

NoUnpaidWinner == \A b \in DOMAIN bets : bets[b].status # "WON"

\* evaluateInvariants: what each of its statements looks for.
Passes(gate) ==
  CASE gate = "unfinishedFights"  -> FightsIn({"OPEN", "LAST_CALL", "CLOSED"}) = {}
    [] gate = "unpaidWinningBets" -> NoUnpaidWinner
    [] gate = "nonZeroBalances"   -> NoBalance

CountOf(name) ==
  CASE name = "fights" -> Cardinality(DOMAIN fights)
    [] name = "bets"   -> Cardinality(DOMAIN bets)
    [] name = "ledger" -> BagCardinality(ledger)
    [] name = "collectorCash" ->
         BagCardinality(Restrict(ledger,
           {r \in DOMAIN ledger : r.type \in {"CASH_ADVANCE", "REMIT"}}))

RequestReset(force) ==
  /\ wipe = Nobody /\ Len(audits) < MaxResets
  /\ wipe' = [step |-> IF force THEN "counting" ELSE "gate", forced |-> force,
              passed |-> {}, counts |-> << >>,
              alone |-> \A s \in Sessions : tx[s] = Idle]
  /\ UNCHANGED <<txVars, audits>>

\* The statements run on connections of their own, in any order.
PassGate(gate) ==
  /\ wipe.step = "gate"
  /\ gate \notin wipe.passed
  /\ Passes(gate)
  /\ wipe' = [wipe EXCEPT !.passed = @ \cup {gate},
                          !.step = IF wipe.passed \cup {gate} = Gates THEN "counting" ELSE @]
  /\ UNCHANGED <<txVars, audits>>

\* 409, with what is in the way.
RefuseReset(gate) ==
  /\ wipe.step = "gate"
  /\ gate \notin wipe.passed
  /\ ~Passes(gate)
  /\ wipe' = Nobody
  /\ UNCHANGED <<txVars, audits>>

CountRows ==
  /\ wipe.step = "counting" /\ Len(wipe.counts) < Len(CountNames)
  /\ wipe' = [wipe EXCEPT !.counts = Append(@, CountOf(CountNames[Len(@) + 1]))]
  /\ UNCHANGED <<txVars, audits>>

TablesTaken == TRUE                          \* Fault: DELETE waits for no table

\* TRUNCATE waits for every transaction that has touched one of the tables:
\* all but a purge, which reads before its transaction begins.
TablesFree == \A s \in Sessions : tx[s].op \in {"idle", "purge"}

\* The audit row and the TRUNCATE commit together.  A purge in the making
\* finds its ticket gone.
Wipe ==
  /\ wipe.step = "counting" /\ Len(wipe.counts) = Len(CountNames)
  /\ TablesFree
  /\ audits' = Append(audits, [counts |-> wipe.counts, forced |-> wipe.forced])
  /\ fights' = << >>
  /\ bets' = << >>
  /\ ledger' = EmptyBag
  /\ paidOut' = [f \in 1 .. MaxFights |-> 0]
  /\ purged' = [f \in 1 .. MaxFights |-> [s \in Sides |-> 0]]
  /\ tx' = [s \in Sessions |-> IF tx[s].op = "purge" THEN Idle ELSE tx[s]]
  /\ wipe' = Nobody
  /\ UNCHANGED <<setting, drawer>>

\* P2028 after 15 seconds, a deadlock, a lost connection: all rolled back.
AbortReset ==
  /\ wipe.step = "counting"
  /\ wipe' = Nobody
  /\ UNCHANGED <<txVars, audits>>

Resetting ==
  \/ \E force \in BOOLEAN : RequestReset(force)
  \/ \E gate \in Gates : PassGate(gate) \/ RefuseReset(gate)
  \/ CountRows \/ Wipe \/ AbortReset

\* Requests go on meanwhile, and then the reset is no longer alone.
Serving ==
  /\ TxNext
  /\ wipe' = IF wipe = Nobody THEN Nobody ELSE [wipe EXCEPT !.alone = FALSE]
  /\ UNCHANGED audits

ResetNext == Resetting \/ Serving

ResetSpec == ResetInit /\ [][ResetNext]_resetVars

-----------------------------------------------------------------------------

(***************************************************************************)
(* session.service.js: "there is no risk of half-wiped state from          *)
(* interleaved writes".  Whatever a wipe overlaps with, the tables that    *)
(* remain refer only to rows that exist, and so does every request that is *)
(* in the middle of its transaction.                                       *)
(***************************************************************************)
ResetTypeOK ==
  /\ TxTypeOK
  /\ wipe # Nobody => /\ wipe.step \in {"gate", "counting"}
                      /\ wipe.passed \subseteq Gates
                      /\ Len(wipe.counts) <= Len(CountNames)
  /\ Len(audits) <= MaxResets

Wiped == Len(audits') > Len(audits)
Unforced == ~wipe.forced

\* Evenings on which requests keep out of each other's way, each of them ended
\* by a reset of a house that is closed.
Orderly == Careful /\ (Wiped => Unforced /\ wipe.alone)

OrderlySpec == ResetInit /\ [][ResetNext /\ Orderly]_resetVars

(***************************************************************************)
(* An unforced reset of a house that is closed loses nobody's money: when  *)
(* no request was served since it was asked for, no winning ticket that    *)
(* was not paid is wiped, every drawer is empty, and the audit row counts  *)
(* "the same state the TRUNCATE will see" (session.service.js).  With      *)
(* requests in between, or with refunds that are due, this fails.          *)
(***************************************************************************)
ClosedHouseLosesNothing ==
  [][Wiped /\ Unforced /\ wipe.alone =>
       /\ \A b \in DOMAIN bets : bets[b].status # "WON"
       /\ \A t \in Tellers : drawer[t] = 0
       /\ \A i \in 1 .. Len(CountNames) :
            audits'[Len(audits')].counts[i] = CountOf(CountNames[i])]_resetVars
=============================================================================
