------------------------------- MODULE Mirror -------------------------------
(***************************************************************************)
(* The Supabase mirror (lib/supabase-sync.js): a sync empties the          *)
(* operational tables of the remote database and fills all tables again,   *)
(* in one remote transaction, from one SELECT per local table.  Syncs are  *)
(* started by the timer of the server, by an admin's request and by a      *)
(* script, and the book goes on meanwhile.                                 *)
(*                                                                         *)
(* A table is a function from ids to rows.  Of a row are kept what makes   *)
(* an upsert fail and what changes: the teller, the fight, the ticket and  *)
(* the collector it refers to, the user who performed a reset, the name of *)
(* a collector.  The other columns that refer to a user (who held, paid,   *)
(* voided, corrected, adjusted) are of the same kind as the teller's.      *)
(* Usernames and codes are unique too, but never change.                   *)
(***************************************************************************)
EXTENDS Integers, Sequences

CONSTANTS Tellers, FightIds, BetIds,   \* ids of rows
          Collectors,                  \* ids too, later ones are larger
          Names,                       \* of collectors
          Timer,                       \* the sync of the server's timer
          Others,                      \* those of admins and scripts
          MaxWrites,                   \* bound: local transactions
          MaxFaults                    \* bound: things that go wrong

ASSUME MirrorConstants ==
  /\ Timer \notin Others /\ MaxWrites \in Nat /\ MaxFaults \in Nat
  /\ Collectors \subseteq Nat

Syncs == {Timer} \cup Others

VARIABLES past,         \* history: the states the local database has been in
          mirror,       \* the remote database, as committed
          mirroredAt,   \* history: table -> index in past it was read at
          online,       \* the remote database can be reached
          pc,           \* sync -> where it is
          copied,       \* sync -> tables copied so far
          work,         \* sync -> the tables its remote transaction sees
          readAt,       \* sync -> table -> index in past it was read at
          result,       \* sync -> what it has to write to the state file
          running,      \* the flag of the timer
          stateFile,    \* the result of the last attempt, as written
          faults        \* history: faults so far

remote == <<mirror, mirroredAt>>
attempt == <<pc, copied, work, readAt, result>>
vars == <<past, remote, online, attempt, running, stateFile, faults>>

\* In foreign-key order.
SYNC_TABLES ==
  <<"Setting", "Collector", "User", "Fight", "Bet", "TellerLedger", "SessionReset">>
TableNames == {SYNC_TABLES[i] : i \in DOMAIN SYNC_TABLES}

\* Setting, User: when the row was saved.  Collector: the name.  Fight: the
\* tickets in its pools.  Bet: its fight and teller.  TellerLedger: the teller,
\* and the ticket or collector.  SessionReset: who performed it.
EmptyDatabase ==
  [Setting |-> << >>, Collector |-> << >>, User |-> << >>, Fight |-> << >>,
   Bet |-> << >>, TellerLedger |-> << >>, SessionReset |-> << >>]

Local == past[Len(past)]

NoReads == [t \in TableNames |-> 1]

Init ==
  /\ past = <<EmptyDatabase>>
  /\ mirror = EmptyDatabase
  /\ mirroredAt = NoReads
  /\ online \in BOOLEAN
  /\ pc = [s \in Syncs |-> "idle"]
  /\ copied = [s \in Syncs |-> 0]
  /\ work = [s \in Syncs |-> EmptyDatabase]
  /\ readAt = [s \in Syncs |-> NoReads]
  /\ result = [s \in Syncs |-> "none"]
  /\ running = FALSE
  /\ stateFile = "none"
  /\ faults = 0

-----------------------------------------------------------------------------
(* The local database goes on, one transaction at a time                   *)

Write(db) ==
  /\ Len(past) <= MaxWrites
  /\ past' = Append(past, db)
  /\ UNCHANGED <<remote, online, attempt, running, stateFile, faults>>

\* A table with a row inserted or updated.
With(rows, id, row) == [i \in DOMAIN rows \cup {id} |-> IF i = id THEN row ELSE rows[i]]

ChangeRate == Write([Local EXCEPT !.Setting = <<Len(past)>>])

\* A user is created or edited.
SaveUser(t) == Write([Local EXCEPT !.User = With(@, t, Len(past))])

\* A collector is created or renamed: no two have the same name.
SaveCollector(c, n) ==
  /\ \A d \in DOMAIN Local.Collector : Local.Collector[d] # n
  /\ c \in DOMAIN Local.Collector \/ \A d \in DOMAIN Local.Collector : d < c
  /\ Write([Local EXCEPT !.Collector = With(@, c, n)])

\* Cash is advanced to a teller, or remitted.
CashEntry(t, c) ==
  /\ t \in DOMAIN Local.User /\ c \in DOMAIN Local.Collector
  /\ Write([Local EXCEPT !.TellerLedger =
                            Append(@, [teller |-> t, table |-> "Collector", id |-> c])])

CreateFight(f) ==
  /\ f \notin DOMAIN Local.Fight
  /\ Write([Local EXCEPT !.Fight = With(@, f, 0)])

\* The ticket, its BET_PLACED row and the pool of its fight.
PlaceBet(b, f, t) ==
  /\ b \notin DOMAIN Local.Bet /\ f \in DOMAIN Local.Fight /\ t \in DOMAIN Local.User
  /\ Write([Setting |-> Local.Setting, Collector |-> Local.Collector, User |-> Local.User,
            Fight |-> [Local.Fight EXCEPT ![f] = @ + 1],
            Bet |-> With(Local.Bet, b, [fight |-> f, teller |-> t]),
            TellerLedger |-> Append(Local.TellerLedger, [teller |-> t, table |-> "Bet", id |-> b]),
            SessionReset |-> Local.SessionReset])

\* The operational tables are wiped, and an audit row says so.
ResetSession(t) ==
  /\ t \in DOMAIN Local.User
  /\ Write([Setting |-> Local.Setting, Collector |-> Local.Collector, User |-> Local.User,
            Fight |-> << >>, Bet |-> << >>, TellerLedger |-> << >>,
            SessionReset |-> Append(Local.SessionReset, t)])

LocalWrites ==
  \/ ChangeRate
  \/ \E t \in Tellers : SaveUser(t) \/ ResetSession(t)
  \/ \E c \in Collectors, n \in Names : SaveCollector(c, n)
  \/ \E t \in Tellers, c \in Collectors : CashEntry(t, c)
  \/ \E f \in FightIds : CreateFight(f)
  \/ \E b \in BetIds, f \in FightIds, t \in Tellers : PlaceBet(b, f, t)

-----------------------------------------------------------------------------
(* syncLocalToSupabase                                                     *)

\* Fault: the tables are emptied with DELETE, which locks nothing.
RemoteUnlocked(s) == TRUE

\* TRUNCATE locks the tables until the transaction ends.
RemoteFree(s) == \A r \in Syncs \ {s} : pc[r] # "copying"

Starts(s) ==
  /\ pc[s] = "idle"
  /\ pc' = [pc EXCEPT ![s] = "checking"]
  /\ UNCHANGED <<past, remote, online, copied, work, readAt, result, stateFile, faults>>

\* runSync drops an interval while its last sync runs.
StartAuto ==
  /\ ~running
  /\ running' = TRUE
  /\ Starts(Timer)

\* POST /session/sync-supabase and the script look at nobody else's sync.
StartManual(s) ==
  /\ s \in Others
  /\ Starts(s)
  /\ UNCHANGED running

\* Fault: the flag is cleared only after a sync that went well.
ReturnedIfOk(s, ok) == IF s = Timer /\ ok THEN FALSE ELSE running

\* `finally { running = false }`
Returned(s, ok) == IF s = Timer THEN FALSE ELSE running

\* checkDatabaseReachable says no, and the attempt ends there.
Unreachable(s) ==
  /\ pc[s] = "checking" /\ ~online
  /\ pc' = [pc EXCEPT ![s] = "idle"]
  /\ running' = Returned(s, FALSE)
  /\ UNCHANGED <<past, remote, online, copied, work, readAt, result, stateFile, faults>>

\* Fault: the ledger is not emptied.
TruncatedButLedger(db) == [db EXCEPT !.Fight = << >>, !.Bet = << >>]

\* TRUNCATE "TellerLedger", "Bet", "Fight".
Truncated(db) == [db EXCEPT !.Fight = << >>, !.Bet = << >>, !.TellerLedger = << >>]

Begin(s) ==
  /\ pc[s] = "checking" /\ online
  /\ RemoteFree(s)
  /\ pc' = [pc EXCEPT ![s] = "copying"]
  /\ copied' = [copied EXCEPT ![s] = 0]
  /\ work' = [work EXCEPT ![s] = Truncated(mirror)]
  /\ UNCHANGED <<past, remote, online, readAt, result, running, stateFile, faults>>

\* ON CONFLICT ("id") DO UPDATE, for every row read: none is deleted.
Upserted(old, rows) ==
  [id \in DOMAIN old \cup DOMAIN rows |-> IF id \in DOMAIN rows THEN rows[id] ELSE old[id]]

\* What Postgres says of the references of the rows.
ReferencesHold(table, rows, db) ==
  CASE table = "Bet" ->
         \A b \in DOMAIN rows : /\ rows[b].fight \in DOMAIN db.Fight
                                /\ rows[b].teller \in DOMAIN db.User
    [] table = "TellerLedger" ->
         \A i \in DOMAIN rows : /\ rows[i].teller \in DOMAIN db.User
                                /\ rows[i].table = "Bet" => rows[i].id \in DOMAIN db.Bet
                                /\ rows[i].table = "Collector" => rows[i].id \in DOMAIN db.Collector
    [] table = "SessionReset" -> \A i \in DOMAIN rows : rows[i] \in DOMAIN db.User
    [] OTHER -> TRUE

\* What it says of the names of collectors, row after row in the order of
\* ids: no other row, unless it was written before, has the name.
NamesFree(rows, old) ==
  \A i \in DOMAIN rows, j \in DOMAIN old :
    i # j /\ old[j] = rows[i] => j \in DOMAIN rows /\ j < i

Accepted(table, rows, db) ==
  /\ ReferencesHold(table, rows, db)
  /\ table = "Collector" => NamesFree(rows, db.Collector)

NextTable(s) == SYNC_TABLES[copied[s] + 1]

\* syncTable: one SELECT, then an upsert of every row.
CopyTable(s) ==
  /\ pc[s] = "copying" /\ online /\ copied[s] < Len(SYNC_TABLES)
  /\ LET table == NextTable(s)  rows == Local[table] IN
       /\ Accepted(table, rows, work[s])
       /\ work' = [work EXCEPT ![s][table] = Upserted(@, rows)]
       /\ readAt' = [readAt EXCEPT ![s][table] = Len(past)]
  /\ copied' = [copied EXCEPT ![s] = @ + 1]
  /\ UNCHANGED <<past, remote, online, pc, result, running, stateFile, faults>>

\* The transaction of the sync is over, and what it saw is forgotten.
Finished(s, outcome) ==
  /\ pc' = [pc EXCEPT ![s] = "saving"]
  /\ result' = [result EXCEPT ![s] = outcome]
  /\ copied' = [copied EXCEPT ![s] = 0]
  /\ work' = [work EXCEPT ![s] = EmptyDatabase]
  /\ readAt' = [readAt EXCEPT ![s] = NoReads]

\* An upsert throws: a reference is missing, a name is taken, or the connection
\* broke.
Fails(s) ==
  /\ pc[s] \in {"checking", "copying"}
  /\ \/ ~online
     \/ /\ pc[s] = "copying" /\ copied[s] < Len(SYNC_TABLES)
        /\ ~Accepted(NextTable(s), Local[NextTable(s)], work[s])
  /\ Finished(s, "failed")
  /\ UNCHANGED <<past, remote, online, running, stateFile, faults>>

\* COMMIT.  The answer is lost if the connection breaks just then.
Commit(s) ==
  /\ pc[s] = "copying" /\ copied[s] = Len(SYNC_TABLES)
  /\ mirror' = work[s]
  /\ mirroredAt' = readAt[s]
  /\ Finished(s, IF online THEN "ok" ELSE "failed")
  /\ UNCHANGED <<past, online, running, stateFile, faults>>

\* writeSyncState, and the attempt ends.
Save(s) ==
  /\ pc[s] = "saving"
  /\ stateFile' = result[s]
  /\ pc' = [pc EXCEPT ![s] = "idle"]
  /\ running' = Returned(s, result[s] = "ok")
  /\ result' = [result EXCEPT ![s] = "none"]
  /\ UNCHANGED <<past, remote, online, copied, work, readAt, faults>>

\* The file cannot be written: after a success that is a failure to record,
\* after a failure it is let go.
SaveFails(s) ==
  /\ pc[s] = "saving" /\ faults < MaxFaults
  /\ faults' = faults + 1
  /\ IF result[s] = "ok"
     THEN /\ result' = [result EXCEPT ![s] = "failed"]
          /\ UNCHANGED <<pc, running>>
     ELSE /\ pc' = [pc EXCEPT ![s] = "idle"]
          /\ running' = Returned(s, FALSE)
          /\ result' = [result EXCEPT ![s] = "none"]
  /\ UNCHANGED <<past, remote, online, copied, work, readAt, stateFile>>

-----------------------------------------------------------------------------
(* The world                                                               *)

GoOffline ==
  /\ online /\ faults < MaxFaults
  /\ online' = FALSE
  /\ faults' = faults + 1
  /\ UNCHANGED <<past, remote, attempt, running, stateFile>>

GoOnline ==
  /\ ~online
  /\ online' = TRUE
  /\ UNCHANGED <<past, remote, attempt, running, stateFile, faults>>

\* The server restarts: its syncs are gone, the remote rolls them back.
Restart ==
  /\ faults < MaxFaults
  /\ faults' = faults + 1
  /\ pc' = [s \in Syncs |-> "idle"]
  /\ running' = FALSE
  /\ copied' = [s \in Syncs |-> 0]
  /\ work' = [s \in Syncs |-> EmptyDatabase]
  /\ readAt' = [s \in Syncs |-> NoReads]
  /\ result' = [s \in Syncs |-> "none"]
  /\ UNCHANGED <<past, remote, online, stateFile>>

Syncing(s) ==
  \/ StartManual(s) \/ Unreachable(s) \/ Begin(s) \/ CopyTable(s) \/ Fails(s)
  \/ Commit(s) \/ Save(s) \/ SaveFails(s)

Next ==
  \/ LocalWrites
  \/ StartAuto \/ \E s \in Syncs : Syncing(s)
  \/ GoOffline \/ GoOnline \/ Restart

Spec == Init /\ [][Next]_vars

\* A book that is left alone between the reads of a sync.
Quiet ==
  past' # past => \A s \in Syncs : pc[s] = "copying" => copied[s] \in {0, Len(SYNC_TABLES)}

QuietSpec == Init /\ [][Next /\ Quiet]_vars

\* The timer starts a sync again and again, a sync that runs goes on, and
\* the internet returns.
Fairness ==
  /\ WF_vars(GoOnline)
  /\ WF_vars(StartAuto)
  /\ \A s \in Syncs :
       /\ WF_vars(Unreachable(s) \/ CopyTable(s) \/ Fails(s) \/ Commit(s) \/ Save(s))
       /\ SF_vars(Begin(s))

FairSpec == Spec /\ Fairness

-----------------------------------------------------------------------------

(***************************************************************************)
(* The remote tables keep the references of the local ones, and every      *)
(* table was read from the local database as it was at some time.          *)
(***************************************************************************)
TypeOK ==
  /\ Len(past) \in 1 .. MaxWrites + 1
  /\ mirroredAt \in [TableNames -> DOMAIN past]
  /\ \A table \in TableNames :
       /\ mirror[table] = past[mirroredAt[table]][table]
       /\ ReferencesHold(table, mirror[table], mirror)
  /\ pc \in [Syncs -> {"idle", "checking", "copying", "saving"}]
  /\ copied \in [Syncs -> 0 .. Len(SYNC_TABLES)]
  /\ readAt \in [Syncs -> [TableNames -> DOMAIN past]]
  /\ {stateFile} \cup {result[s] : s \in Syncs} \subseteq {"none", "ok", "failed"}
  /\ running \in BOOLEAN /\ online \in BOOLEAN
  /\ faults \in 0 .. MaxFaults

(***************************************************************************)
(* Syncs of the timer, of admins and of scripts overlap, and one that      *)
(* started early may end late: still no table of the mirror ever goes back *)
(* to an older state.                                                      *)
(***************************************************************************)
MirrorNeverGoesBack ==
  [][\A table \in TableNames : mirroredAt'[table] >= mirroredAt[table]]_vars
=============================================================================
