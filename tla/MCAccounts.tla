----------------------------- MODULE MCAccounts -----------------------------
(***************************************************************************)
(* Accounts on small instances.  "duty": two admins, a teller and the fixed*)
(* account switch each other on and off, two calls at a time.  "names": two*)
(* calls create and rename two collectors whose names may be typed in two  *)
(* ways.  "counter": every operation, one call at a time.                  *)
(***************************************************************************)
EXTENDS Accounts

CONSTANTS admin, boss, tina, super, p0, p1, weak, k1, k2, c1, c2, g1, g2

Staff == (boss :> "ADMIN") @@ (tina :> "TELLER")

\* "typed" becomes "name"; the canonical names stay.
Normally == ("typed" :> "name") @@ ("name" :> "name") @@ ("other" :> "other")

Of(ops) == {r \in Requests : r.op \in ops}

\* The second collector, the other names and some passwords are not needed.
CounterRequests ==
  {r \in Of({"update", "change", "reset", "create"}) :
     /\ r.op \in {"update", "reset"} => r.user = tina
     /\ r.op = "change" => r.current = p1
     /\ r.op = "create" => r.user = super /\ r.role = "TELLER"
     /\ r.op \in {"create", "reset"} => r.password # p0}
    \cup {r \in Of({"advance", "remit", "newCollector", "editCollector"}) :
            /\ r.collector = k1
            /\ r.op = "advance" => r.teller = tina
            /\ r.op = "newCollector" => r.name = "typed"
            /\ r.op = "editCollector" => r.name = Same}

AskedIn ==
  [duty    |-> Of({"update"}),
   names   |-> Of({"newCollector", "editCollector"}),
   counter |-> CounterRequests]

SignIn ==
  [duty    |-> Usernames \ {tina},
   names   |-> {super},
   counter |-> {admin, tina}]

ServedIn == [duty |-> Calls, names |-> Calls, counter |-> {c1}]

VARIABLE scene          \* which of the three it is; it never changes

OfficeInit == Init /\ scene \in DOMAIN AskedIn

OfficeNext ==
  /\ Office(SignIn[scene], AskedIn[scene], ServedIn[scene])
  /\ UNCHANGED scene

OfficeSpec ==
  /\ OfficeInit /\ [][OfficeNext]_<<vars, scene>>
  /\ WF_<<vars, scene>>(SuperLogin /\ UNCHANGED scene)
=============================================================================
