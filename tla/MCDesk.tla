------------------------------- MODULE MCDesk -------------------------------
(***************************************************************************)
(* Desk on small instances: a ticket that is placed, voided and paid while *)
(* its fight goes on, or two tickets that are placed at the same time.     *)
(***************************************************************************)
EXTENDS Desk

CONSTANTS b1, b2, t1, h1, h2, c1, c2

\* Both tickets are on the first fight, on opposite sides.
Requests ==
  [b \in BetIds |-> [fight |-> 1, teller |-> t1, amount |-> 10000,
                    side |-> IF b = b1 THEN "MERON" ELSE "WALA"]]

VARIABLE day            \* which of the two it is; it never changes

\* The kiosk sells one ticket, on paper with one code.
OneTicket ==
  /\ \A op \in Operations : heard'[op, b2] = "unasked"
  /\ \A h \in Handlers : handler'[h].step = "coded" => handler'[h].code = c1

DayInit == DeskInit /\ day \in {"calls", "sale"}

DayNext ==
  /\ \/ day = "calls" /\ DeskNext /\ OneTicket
     \/ day = "sale" /\ SaleNext
  /\ UNCHANGED day

DaySpec == DayInit /\ [][DayNext]_<<deskVars, day>> /\ Fairness

(***************************************************************************)
(* A teller who keeps calling for a payment gets a final answer, if not    *)
(* every answer is lost: no call leaves the ticket, the fight or the       *)
(* drawer in a state in which every retry fails (bets.service.js, payBet). *)
(***************************************************************************)
RetriesEnd ==
  day = "calls" /\ heard["pay", b1] = "waiting" ~> heard["pay", b1] \in Final
=============================================================================
