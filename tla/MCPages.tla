------------------------------ MODULE MCPages -------------------------------
(***************************************************************************)
(* Pages on small instances: a walk through three tickets of one fight, a  *)
(* walk through three fights, or the kiosks' list of two fights.           *)
(***************************************************************************)
EXTENDS Pages

CONSTANTS b1, b2, b3, t1

Symmetry == Permutations({b1, b2, b3})

VARIABLE client         \* which of the three it is; it never changes

\* No filter, or the tickets to be paid; fights by their status.
MCFilters == {TicketStatuses, {"WON"}, FightStatuses, {"CLOSED"}, {"SETTLED"}}

Asks(list, filters) == walk'.step # "idle" => walk'.list = list /\ walk'.filter \in filters

\* Fights that are not held, get no last call, and never end with WALA, as
\* the sides are alike.
Plain == \A f \in DOMAIN fights' : /\ fights'[f].status # "LAST_CALL"
                                   /\ fights'[f].accepting = [s \in Sides |-> TRUE]
                                   /\ fights'[f].outcome # "WALA"

NoTickets == bets' = << >> /\ ledger' = << >>

\* The operations that matter to a list; those on a drawer, a side or the
\* rate do not.
Selling == (Lifecycle \/ Betting \/ Declaring \/ Paying \/ Correcting) /\ Changing
Reverted == Reverting /\ Changing
Purged == Purging /\ Changing

SteadyNext == (Walking \/ Selling \/ Reverted \/ Purged) /\ CursorStays

ShowNext == Showing \/ Selling \/ Reverted

ClientInit == PagesInit /\ client \in {"tickets", "fights", "kiosk"}

ClientNext ==
  /\ \/ /\ client = "tickets"
        /\ SteadyNext /\ Asks("bets", {TicketStatuses, {"WON"}})
        /\ Len(fights') <= 1 /\ Plain
     \/ /\ client = "fights"
        /\ SteadyNext /\ Asks("fights", MCFilters \ {TicketStatuses, {"WON"}}) /\ NoTickets /\ Plain
     \/ client = "kiosk" /\ ShowNext /\ NoTickets /\ Len(fights') <= 2
  /\ UNCHANGED client

ClientSpec == ClientInit /\ [][ClientNext]_<<pageVars, client>>
=============================================================================
