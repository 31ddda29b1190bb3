--------------------------- MODULE MCSessionReset ---------------------------
(***************************************************************************)
(* SessionReset, and BookTx with it, on small instances: evenings on which *)
(* every request overlaps with every other, evenings on which requests     *)
(* keep out of each other's way, and evenings that end with a reset.       *)
(***************************************************************************)
EXTENDS SessionReset

CONSTANTS b1, b2, t1, s1, s2

Symmetry == Permutations({b1, b2}) \cup Permutations({s1, s2})

VARIABLE evening        \* which of the three it is; it never changes

\* Fights that are not held and get no last call, at one rate.
Plain == /\ setting' = setting
         /\ \A f \in DOMAIN fights' : /\ fights'[f].status # "LAST_CALL"
                                      /\ fights'[f].accepting = [s \in Sides |-> TRUE]

\* One ticket, and a drawer that tickets fill and a remit empties.
Small == /\ Cardinality(DOMAIN bets') <= 1
         /\ \A r \in DOMAIN ledger' : r.type # "CASH_ADVANCE"
OneFight == /\ Len(fights') <= 1
            /\ fights' # << >> => \A s \in Sessions : tx'[s].op # "create"
OneRequest == Cardinality({s \in Sessions : tx'[s] # Idle}) <= 1

EveningInit == ResetInit /\ evening \in {"busy", "careful", "last"}

EveningNext ==
  /\ \/ evening = "busy" /\ Serving /\ OneFight
     \/ evening = "careful" /\ Serving /\ Careful /\ Plain /\ Small
     \/ evening = "last" /\ ResetNext /\ Plain /\ Small /\ OneFight /\ OneRequest
  /\ UNCHANGED evening

EveningSpec == EveningInit /\ [][EveningNext]_<<resetVars, evening>>

(***************************************************************************)
(* The transactions split into their reads and writes are the operations   *)
(* of Book, done at once, on evenings on which requests keep out of each   *)
(* other's way (Careful): every step is a step of Book or leaves its       *)
(* variables alone.                                                        *)
(***************************************************************************)
CarefulIsBook == [][evening = "careful" => [Next]_vars]_vars
=============================================================================
