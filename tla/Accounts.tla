------------------------------ MODULE Accounts ------------------------------
(***************************************************************************)
(* Accounts and collectors: who may call, and what a call that was let in  *)
(* may still do.  A request is authenticated against the User row, checked *)
(* against the rows it names, and only then does it write; requests        *)
(* overlap between these steps, and nothing locks a User or a Collector.   *)
(*                                                                         *)
(* Passwords are the values the code compares; a name is what the collector*)
(* service compares after normalizeName.                                   *)
(***************************************************************************)
EXTENDS Naturals, FiniteSets, TLC

CONSTANTS Usernames, SuperAdmin, SeededAdmin,
          Passwords, SuperPassword, SeedPassword, WeakPasswords,
          Collectors,      \* collector rows that may be created
          RawNames,        \* names as they are typed
          Normal,          \* RawNames -> the name normalizeName makes of it
          Badges,          \* collector codes that may be drawn
          Calls,           \* requests served at the same time
          Starting,        \* accounts already there, with their roles
          MaxEntries       \* cash entries of one teller with one collector

ASSUME AccountsAssumption ==
  /\ {SuperAdmin, SeededAdmin} \subseteq Usernames
  /\ {SuperPassword, SeedPassword} \subseteq Passwords
  /\ DOMAIN Starting \subseteq Usernames \ {SuperAdmin}
  /\ Normal \in [RawNames -> RawNames]
  /\ \A n \in RawNames : Normal[Normal[n]] = Normal[n]
  /\ MaxEntries \in Nat

VARIABLES users,        \* username -> role, isActive, password
          collectors,   \* collector -> name, isActive, code
          entries,      \* <<teller, collector>> -> advances and remits posted
          signedIn,     \* accounts that hold a token
          call          \* what each request in progress asks, and its step

vars == <<users, collectors, entries, signedIn, call>>

Roles == {"ADMIN", "TELLER"}
Same == "same"
Idle == [step |-> "idle"]

Account(role, password) == [role |-> role, active |-> TRUE, password |-> password]

Init ==
  /\ users = [u \in DOMAIN Starting \cup {SeededAdmin} |->
                IF u = SeededAdmin THEN Account("ADMIN", SeedPassword)
                                   ELSE Account(Starting[u], SeedPassword)]
  /\ collectors = << >>
  /\ entries = [p \in Usernames \X Collectors |-> 0]
  /\ signedIn = {}
  /\ call = [c \in Calls |-> Idle]

-----------------------------------------------------------------------------
(* Signing in                                                              *)

Active(u) == u \in DOMAIN users /\ users[u].active
IsAdmin(u) == u \in DOMAIN users /\ users[u].role = "ADMIN"
KnowsPassword(u, p) == Active(u) /\ users[u].password = p

\* Fault: a row that is there is taken as it is.
EnsureSuperAdminExists ==
  IF SuperAdmin \in DOMAIN users THEN users
  ELSE (SuperAdmin :> Account("ADMIN", SuperPassword)) @@ users

\* The fixed account is created, or put back to what it must be.
EnsureSuperAdmin == (SuperAdmin :> Account("ADMIN", SuperPassword)) @@ users

SuperLogin ==
  /\ users' = EnsureSuperAdmin
  /\ signedIn' = signedIn \cup {SuperAdmin}
  /\ UNCHANGED <<collectors, entries, call>>

Login(u, p) ==
  /\ <<u, p>> # <<SuperAdmin, SuperPassword>>
  /\ KnowsPassword(u, p)
  /\ signedIn' = signedIn \cup {u}
  /\ UNCHANGED <<users, collectors, entries, call>>

\* POST /auth/logout: the client drops the token.
Logout(u) ==
  /\ signedIn' = signedIn \ {u}
  /\ UNCHANGED <<users, collectors, entries, call>>

-----------------------------------------------------------------------------
(* A request and its pre-handlers                                          *)

UserAsks ==
  [op : {"create"}, user : Usernames, role : Roles, password : Passwords]
    \cup [op : {"update"}, user : Usernames, active : BOOLEAN]
    \cup [op : {"reset"}, user : Usernames, password : Passwords]

PasswordAsks == [op : {"change"}, current : Passwords, password : Passwords]

CollectorAsks ==
  [op : {"newCollector"}, collector : Collectors, name : RawNames]
    \cup [op : {"editCollector"}, collector : Collectors, name : RawNames \cup {Same},
          active : {{}, {TRUE}, {FALSE}}]    \* empty: not given

CashAsks ==
  [op : {"advance"}, teller : Usernames, collector : Collectors]
    \cup [op : {"remit"}, collector : Collectors]

Requests == UserAsks \cup PasswordAsks \cup CollectorAsks \cup CashAsks

AdminOnly == {"create", "update", "reset", "newCollector", "editCollector"}

Asks(c, op, step) == call[c].step = step /\ call[c].ask.op = op

Ends(c) == call' = [call EXCEPT ![c] = Idle]
Goes(c, step) == call' = [call EXCEPT ![c] = [step |-> step, by |-> @.by, ask |-> @.ask]]

Send(c, u, ask) ==
  /\ call[c] = Idle
  /\ u \in signedIn
  /\ call' = [call EXCEPT ![c] = [step |-> "sent", by |-> u, ask |-> ask]]
  /\ UNCHANGED <<users, collectors, entries, signedIn>>

Reads(c, passes) ==
  /\ IF passes THEN Goes(c, "in") ELSE Ends(c)
  /\ UNCHANGED <<users, collectors, entries, signedIn>>

\* authenticate reads the User row again, then requireRole.
Authenticate(c) ==
  /\ call[c].step = "sent"
  /\ Reads(c, /\ Active(call[c].by)
              /\ call[c].ask.op \in AdminOnly => IsAdmin(call[c].by))

-----------------------------------------------------------------------------
(* Users (users.service, auth.service)                                     *)

\* assertPasswordPolicy
Acceptable(p) == p \notin WeakPasswords

WritesUsers(c) == Ends(c) /\ UNCHANGED <<collectors, entries, signedIn>>

CreateUser(c) ==
  LET ask == call[c].ask IN
  /\ Asks(c, "create", "in")
  /\ users' = IF Acceptable(ask.password) /\ ask.user \notin DOMAIN users
              THEN (ask.user :> Account(ask.role, ask.password)) @@ users
              ELSE users
  /\ WritesUsers(c)

UpdateUser(c) ==
  LET ask == call[c].ask
      refused == ask.user \notin DOMAIN users \/ (~ask.active /\ ask.user = call[c].by) IN
  /\ Asks(c, "update", "in")
  /\ users' = IF refused THEN users ELSE [users EXCEPT ![ask.user].active = ask.active]
  /\ WritesUsers(c)

ResetPassword(c) ==
  LET ask == call[c].ask IN
  /\ Asks(c, "reset", "in")
  /\ users' = IF Acceptable(ask.password) /\ ask.user \in DOMAIN users
              THEN [users EXCEPT ![ask.user].password = ask.password]
              ELSE users
  /\ WritesUsers(c)

ReadsOn(c, passes) ==
  /\ IF passes THEN Goes(c, "checked") ELSE Ends(c)
  /\ UNCHANGED <<users, collectors, entries, signedIn>>

\* changePassword proves the old password, then writes the new one by id.
ChangeLook(c) ==
  LET ask == call[c].ask IN
  /\ Asks(c, "change", "in")
  /\ ReadsOn(c, /\ KnowsPassword(call[c].by, ask.current)
                /\ Acceptable(ask.password) /\ ask.password # ask.current)

ChangeWrite(c) ==
  /\ Asks(c, "change", "checked")
  /\ users' = [users EXCEPT ![call[c].by].password = call[c].ask.password]
  /\ WritesUsers(c)

-----------------------------------------------------------------------------
(* Collectors (collectors.service)                                         *)

WritesCollectors(c) == Ends(c) /\ UNCHANGED <<users, entries, signedIn>>

NameTaken(name, except) ==
  \E k \in DOMAIN collectors \ {except} : collectors[k].name = name

BadgeTaken(b) == \E k \in DOMAIN collectors : collectors[k].code = b

\* generateUniqueCode: a free one, or an error after eight attempts.
DrawBadge(c) ==
  /\ Asks(c, "newCollector", "in")
  /\ call[c].ask.collector \notin DOMAIN collectors
  /\ \/ \E b \in Badges :
          /\ ~BadgeTaken(b)
          /\ call' = [call EXCEPT ![c] = [step |-> "checked", by |-> @.by,
                        ask |-> [op |-> "newCollector", collector |-> @.ask.collector,
                                 name |-> @.ask.name, code |-> b]]]
     \/ (\E b \in Badges : BadgeTaken(b)) /\ Ends(c)
  /\ UNCHANGED <<users, collectors, entries, signedIn>>

WithCollector(k, row) ==
  [l \in DOMAIN collectors \cup {k} |-> IF l = k THEN row ELSE collectors[l]]

\* Fault: the name is stored as it was typed.
InsertCollectorRaw(c) ==
  LET ask == call[c].ask IN
  /\ Asks(c, "newCollector", "checked")
  /\ collectors' =
       IF NameTaken(ask.name, ask.collector) \/ BadgeTaken(ask.code) \/ ask.collector \in DOMAIN collectors
       THEN collectors
       ELSE WithCollector(ask.collector, [name |-> ask.name, active |-> TRUE, code |-> ask.code])
  /\ WritesCollectors(c)

\* The unique indexes on name and code decide (P2002, 409).
InsertCollector(c) ==
  LET ask == call[c].ask
      name == Normal[ask.name]
      taken == \/ NameTaken(name, ask.collector) \/ BadgeTaken(ask.code)
               \/ ask.collector \in DOMAIN collectors IN
  /\ Asks(c, "newCollector", "checked")
  /\ collectors' = IF taken THEN collectors
                   ELSE WithCollector(ask.collector,
                                      [name |-> name, active |-> TRUE, code |-> ask.code])
  /\ WritesCollectors(c)

UpdateCollector(c) ==
  LET ask == call[c].ask
      k   == ask.collector
      named == ask.name # Same
      Edited(row) == [name   |-> IF named THEN Normal[ask.name] ELSE row.name,
                      active |-> IF ask.active = {} THEN row.active ELSE TRUE \in ask.active,
                      code   |-> row.code] IN
  /\ Asks(c, "editCollector", "in")
  /\ collectors' = IF k \in DOMAIN collectors /\ (named => ~NameTaken(Normal[ask.name], k))
                   THEN [collectors EXCEPT ![k] = Edited(collectors[k])]
                   ELSE collectors
  /\ WritesCollectors(c)

-----------------------------------------------------------------------------
(* Cash with a collector (cash.service); the amounts are in Book           *)

\* resolveAdvanceRecipientId
Recipient(c) == IF call[c].ask.op = "remit" THEN call[c].by ELSE call[c].ask.teller

MayRecord(c) ==
  call[c].ask.op = "advance" => IsAdmin(call[c].by) \/ call[c].ask.teller = call[c].by

\* Whoever calls may remit; an advance goes to a teller.
ActiveDrawer(c) ==
  /\ Active(Recipient(c))
  /\ call[c].ask.op = "advance" => users[Recipient(c)].role = "TELLER"

ActiveCollector(k) == k \in DOMAIN collectors /\ collectors[k].active

\* Both are looked up before the transaction, never in it.
FindParties(c) ==
  /\ Asks(c, "advance", "in") \/ Asks(c, "remit", "in")
  /\ ReadsOn(c, MayRecord(c) /\ ActiveDrawer(c) /\ ActiveCollector(call[c].ask.collector))

PostEntry(c) ==
  LET p == <<Recipient(c), call[c].ask.collector>> IN
  /\ Asks(c, "advance", "checked") \/ Asks(c, "remit", "checked")
  /\ entries[p] < MaxEntries
  /\ entries' = [entries EXCEPT ![p] = @ + 1]
  /\ Ends(c)
  /\ UNCHANGED <<users, collectors, signedIn>>

\* The remit exceeds the balance, or the connection is lost before a write.
GivesUp(c) ==
  /\ call[c] # Idle
  /\ Ends(c)
  /\ UNCHANGED <<users, collectors, entries, signedIn>>

-----------------------------------------------------------------------------

Serve(c) ==
  \/ Authenticate(c)
  \/ CreateUser(c) \/ UpdateUser(c) \/ ResetPassword(c) \/ ChangeLook(c) \/ ChangeWrite(c)
  \/ DrawBadge(c) \/ InsertCollector(c) \/ UpdateCollector(c)
  \/ FindParties(c) \/ PostEntry(c)
  \/ GivesUp(c)

\* Some people sign in and out, and ask for some things, so many at a time.
Office(people, asking, calls) ==
  \/ SuperLogin
  \/ \E u \in people : Logout(u) \/ \E p \in Passwords : Login(u, p)
  \/ \E c \in calls, u \in Usernames, r \in asking : Send(c, u, r)
  \/ \E c \in Calls : Serve(c)

Next == Office(Usernames, Requests, Calls)

Spec == Init /\ [][Next]_vars

\* IT signs in with the fixed account again and again.
FairSpec == Spec /\ WF_vars(SuperLogin)

-----------------------------------------------------------------------------

SomeAdmin == \E u \in DOMAIN users : users[u].role = "ADMIN" /\ users[u].active

(***************************************************************************)
(* However the admins deactivate each other, the next sign-in of the fixed *)
(* account leaves an active admin (lib/super-admin.js,                     *)
(* ensureSuperAdminUser).                                                  *)
(***************************************************************************)
AdminRestored == []<>SomeAdmin

(***************************************************************************)
(* No two collectors have the same name once it is normalised, or the same *)
(* badge, whatever creations and renamings overlap (collectors.service.js).*)
(***************************************************************************)
CollectorsDiffer ==
  \A k, l \in DOMAIN collectors :
    k # l => /\ collectors[k].name # collectors[l].name
             /\ collectors[k].code # collectors[l].code
             /\ Normal[collectors[k].name] # Normal[collectors[l].name]

(***************************************************************************)
(* "Admin cannot deactivate themselves (would lock the system)"            *)
(* (users.routes.js): there is an active admin at all times.               *)
(***************************************************************************)
AdminRemains == SomeAdmin

(***************************************************************************)
(* "username and role are immutable post-creation" (users.routes.js).      *)
(***************************************************************************)
RolesKept == [][\A u \in DOMAIN users : users'[u].role = users[u].role]_vars
=============================================================================
