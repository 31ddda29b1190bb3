---------------------------- MODULE MirrorProofs ----------------------------
(***************************************************************************)
(* What the Supabase mirror promises, for any book, any number of syncs    *)
(* that overlap and any number of faults: it keeps the references of its   *)
(* rows, holds nothing but rows that were read locally, and never goes     *)
(* back; over a quiet book it is a backup.                                 *)
(***************************************************************************)
EXTENDS Mirror, SequenceTheorems, TLAPS

\* The tables with rows of a kind under some ids.
Table(ids, row) == UNION {[I -> row] : I \in SUBSET ids}

IsTable(rows) == rows = [i \in DOMAIN rows |-> rows[i]]

BetRow == [fight : FightIds, teller : Tellers]
LedgerRow == [teller : Tellers, table : {"Bet", "Collector"}, id : BetIds \cup Collectors]

Database ==
  [Setting : Table({1}, Nat), Collector : Table(Collectors, Names), User : Table(Tellers, Nat),
   Fight : Table(FightIds, Nat), Bet : Table(BetIds, BetRow),
   TellerLedger : Seq(LedgerRow), SessionReset : Seq(Tellers)]

\* The tables whose rows are never deleted, neither locally nor remotely.
Kept == {"Setting", "Collector", "User", "SessionReset"}

Grows(old, db) == \A table \in Kept : DOMAIN old[table] \subseteq DOMAIN db[table]

NeverShrinks == \A i, j \in DOMAIN past : i <= j => Grows(past[i], past[j])

PastInv ==
  /\ past \in Seq(Database)
  /\ Len(past) \in 1 .. MaxWrites + 1
  /\ NeverShrinks

Outcomes == {"none", "ok", "failed"}

SyncsTyped ==
  /\ online \in BOOLEAN /\ running \in BOOLEAN
  /\ pc \in [Syncs -> {"idle", "checking", "copying", "saving"}]
  /\ copied \in [Syncs -> 0 .. Len(SYNC_TABLES)]
  /\ work \in [Syncs -> Database]
  /\ readAt \in [Syncs -> [TableNames -> DOMAIN past]]
  /\ result \in [Syncs -> Outcomes]
  /\ stateFile \in Outcomes
  /\ faults \in 0 .. MaxFaults

MirrorWhole ==
  /\ mirror \in Database
  /\ mirroredAt \in [TableNames -> DOMAIN past]
  /\ \A table \in TableNames :
       /\ mirror[table] = past[mirroredAt[table]][table]
       /\ ReferencesHold(table, mirror[table], mirror)

\* TRUNCATE keeps the others out.
OneCopies ==
  \A r, s \in Syncs : pc[r] = "copying" /\ pc[s] = "copying" => r = s

\* What the remote transaction of a sync sees: the tables that are copied as
\* they were read, which is no earlier than the mirror has them, and the others
\* as the mirror left them, or empty.
CopiedIsRead(s, table) ==
  /\ readAt[s][table] >= mirroredAt[table]
  /\ work[s][table] = past[readAt[s][table]][table]
  /\ ReferencesHold(table, work[s][table], work[s])

CopiesInOrder(s) ==
  pc[s] = "copying" =>
    \A i \in 1 .. Len(SYNC_TABLES) :
      IF i <= copied[s] THEN CopiedIsRead(s, SYNC_TABLES[i])
      ELSE work[s][SYNC_TABLES[i]] = Truncated(mirror)[SYNC_TABLES[i]]

MirrorInv ==
  /\ PastInv /\ SyncsTyped /\ MirrorWhole /\ OneCopies
  /\ \A s \in Syncs : CopiesInOrder(s)

-----------------------------------------------------------------------------
(* Tables and rows                                                         *)

LEMMA SevenTables ==
  /\ Len(SYNC_TABLES) = 7
  /\ SYNC_TABLES[1] = "Setting" /\ SYNC_TABLES[2] = "Collector" /\ SYNC_TABLES[3] = "User"
  /\ SYNC_TABLES[4] = "Fight" /\ SYNC_TABLES[5] = "Bet" /\ SYNC_TABLES[6] = "TellerLedger"
  /\ SYNC_TABLES[7] = "SessionReset"
  /\ TableNames = {"Setting", "Collector", "User", "Fight", "Bet", "TellerLedger", "SessionReset"}
  /\ \A i \in 1 .. Len(SYNC_TABLES) : SYNC_TABLES[i] \in TableNames
  /\ \A table \in TableNames : \E i \in 1 .. Len(SYNC_TABLES) : table = SYNC_TABLES[i]
<1>1. /\ DOMAIN SYNC_TABLES = 1 .. 7 /\ Len(SYNC_TABLES) = 7
      /\ SYNC_TABLES[1] = "Setting" /\ SYNC_TABLES[2] = "Collector" /\ SYNC_TABLES[3] = "User"
      /\ SYNC_TABLES[4] = "Fight" /\ SYNC_TABLES[5] = "Bet" /\ SYNC_TABLES[6] = "TellerLedger"
      /\ SYNC_TABLES[7] = "SessionReset"
  BY DEF SYNC_TABLES
<1>2. 1 .. 7 = {1, 2, 3, 4, 5, 6, 7}
  OBVIOUS
<1>3. TableNames = {SYNC_TABLES[i] : i \in {1, 2, 3, 4, 5, 6, 7}}
  BY <1>1, <1>2 DEF TableNames
<1>4. TableNames = {"Setting", "Collector", "User", "Fight", "Bet", "TellerLedger", "SessionReset"}
  BY <1>1, <1>3, Zenon
<1>5. TableNames = {SYNC_TABLES[i] : i \in 1 .. Len(SYNC_TABLES)}
  BY <1>1, Zenon DEF TableNames
<1>. QED BY <1>1, <1>4, <1>5, Zenon

LEMMA TableIs ==
  ASSUME NEW ids, NEW row, NEW rows
  PROVE  rows \in Table(ids, row) <=> DOMAIN rows \subseteq ids /\ rows \in [DOMAIN rows -> row]
<1>1. ASSUME rows \in Table(ids, row)
      PROVE  DOMAIN rows \subseteq ids /\ rows \in [DOMAIN rows -> row]
  <2>1. PICK I \in SUBSET ids : rows \in [I -> row]
    BY <1>1, Zenon DEF Table
  <2>2. DOMAIN rows = I
    BY <2>1
  <2>. QED BY <2>1, <2>2, Zenon
<1>2. ASSUME DOMAIN rows \subseteq ids, rows \in [DOMAIN rows -> row]
      PROVE  rows \in Table(ids, row)
  <2>1. DOMAIN rows \in SUBSET ids
    BY <1>2
  <2>. QED BY <1>2, <2>1, Zenon DEF Table
<1>. QED BY <1>1, <1>2, Zenon

LEMMA NoRows ==
  /\ DOMAIN << >> = {} /\ \A S : << >> \in Seq(S)
  /\ \A ids, row : << >> \in Table(ids, row)
<1>1. DOMAIN << >> = {} /\ \A S : << >> \in Seq(S)
  OBVIOUS
<1>2. ASSUME NEW ids, NEW row PROVE << >> \in Table(ids, row)
  <2>1. DOMAIN << >> \subseteq ids /\ << >> \in [DOMAIN << >> -> row]
    OBVIOUS
  <2>. QED BY <2>1, TableIs
<1>. QED BY <1>1, <1>2

LEMMA EmptyTyped == EmptyDatabase \in Database
BY NoRows DEF EmptyDatabase, Database

\* A row that is saved.
LEMMA SavedTyped ==
  ASSUME NEW ids, NEW row, NEW rows \in Table(ids, row), NEW i \in ids, NEW r \in row
  PROVE  With(rows, i, r) \in Table(ids, row) /\ DOMAIN rows \subseteq DOMAIN With(rows, i, r)
<1>1. DOMAIN rows \subseteq ids /\ rows \in [DOMAIN rows -> row]
  BY TableIs
<1>2. DOMAIN With(rows, i, r) = DOMAIN rows \cup {i}
  BY DEF With
<1>3. With(rows, i, r) \in [DOMAIN With(rows, i, r) -> row]
  BY <1>1, <1>2 DEF With
<1>4. DOMAIN With(rows, i, r) \subseteq ids
  BY <1>1, <1>2
<1>5. With(rows, i, r) \in Table(ids, row)
  BY <1>3, <1>4, TableIs
<1>. QED BY <1>2, <1>5

\* An upsert of all rows over a table that had no others leaves the rows.
LEMMA UpsertedIsRows ==
  ASSUME NEW rows, IsTable(rows), NEW old, DOMAIN old \subseteq DOMAIN rows
  PROVE  Upserted(old, rows) = rows
<1>1. Upserted(old, rows) = [i \in DOMAIN rows |-> rows[i]]
  BY DEF Upserted
<1>. QED BY <1>1, Zenon DEF IsTable

\* A database with one table of another.
LEMMA TableReplaced ==
  ASSUME NEW db \in Database, NEW other \in Database, NEW table \in TableNames
  PROVE  /\ [db EXCEPT ![table] = other[table]] \in Database
         /\ IsTable(other[table])
<1>1. CASE table = "Setting"
  <2>1. other.Setting \in [DOMAIN other.Setting -> Nat]
    BY TableIs DEF Database
  <2>. QED BY <1>1, <2>1 DEF Database, IsTable
<1>2. CASE table = "Collector"
  <2>1. other.Collector \in [DOMAIN other.Collector -> Names]
    BY TableIs DEF Database
  <2>. QED BY <1>2, <2>1 DEF Database, IsTable
<1>3. CASE table = "User"
  <2>1. other.User \in [DOMAIN other.User -> Nat]
    BY TableIs DEF Database
  <2>. QED BY <1>3, <2>1 DEF Database, IsTable
<1>4. CASE table = "Fight"
  <2>1. other.Fight \in [DOMAIN other.Fight -> Nat]
    BY TableIs DEF Database
  <2>. QED BY <1>4, <2>1 DEF Database, IsTable
<1>5. CASE table = "Bet"
  <2>1. other.Bet \in [DOMAIN other.Bet -> BetRow]
    BY TableIs DEF Database
  <2>. QED BY <1>5, <2>1 DEF Database, IsTable
<1>6. CASE table = "TellerLedger"
  <2>1. other.TellerLedger \in [1 .. Len(other.TellerLedger) -> LedgerRow]
    BY LenProperties DEF Database
  <2>. QED BY <1>6, <2>1 DEF Database, IsTable
<1>7. CASE table = "SessionReset"
  <2>1. other.SessionReset \in [1 .. Len(other.SessionReset) -> Tellers]
    BY LenProperties DEF Database
  <2>. QED BY <1>7, <2>1 DEF Database, IsTable
<1>. QED BY <1>1, <1>2, <1>3, <1>4, <1>5, <1>6, <1>7, SevenTables, Zenon

-----------------------------------------------------------------------------
(* The local database                                                      *)

LEMMA LocalTyped ==
  ASSUME PastInv
  PROVE  Local \in Database /\ Len(past) \in DOMAIN past /\ DOMAIN past = 1 .. Len(past)
BY DEF PastInv, Local

\* A database that is written after the others.
LEMMA WriteKeeps ==
  ASSUME MirrorInv, NEW db \in Database,
         Grows(Local, db), Write(db)
  PROVE  MirrorInv'
<1>. DEFINE n == Len(past)
<1>1. /\ past \in Seq(Database) /\ n \in Nat /\ n >= 1 /\ n <= MaxWrites /\ MaxWrites \in Nat
      /\ DOMAIN past = 1 .. n /\ past' = Append(past, db)
  BY MirrorConstants DEF MirrorInv, PastInv, Write
<1>2. /\ past' \in Seq(Database) /\ Len(past') = n + 1 /\ DOMAIN past' = 1 .. n + 1
      /\ past'[n + 1] = db /\ \A i \in 1 .. n : past'[i] = past[i]
  BY <1>1
<1>3. \A i \in DOMAIN past : past'[i] = past[i] /\ i \in DOMAIN past'
  BY <1>1, <1>2
<1>4. NeverShrinks'
  <2>1. ASSUME NEW i \in DOMAIN past', NEW j \in DOMAIN past', i <= j
        PROVE  Grows(past'[i], past'[j])
    <3>1. CASE j \in 1 .. n
      BY <1>1, <1>2, <2>1, <3>1 DEF MirrorInv, PastInv, NeverShrinks
    <3>2. CASE j = n + 1 /\ i \in 1 .. n
      <4>1. i <= n /\ n \in DOMAIN past /\ i \in DOMAIN past /\ Local = past[n]
        BY <1>1, <3>2 DEF Local
      <4>2. Grows(past[i], Local)
        BY <4>1 DEF MirrorInv, PastInv, NeverShrinks
      <4>. QED BY <1>2, <3>2, <4>2 DEF Grows
    <3>3. CASE j = n + 1 /\ i = n + 1
      BY <3>3 DEF Grows
    <3>. QED BY <1>2, <3>1, <3>2, <3>3
  <2>. QED BY <2>1 DEF NeverShrinks
<1>5. PastInv'
  BY <1>1, <1>2, <1>4 DEF PastInv
<1>6. UNCHANGED <<mirror, mirroredAt, online, pc, copied, work, readAt, result, running, stateFile, faults>>
  BY DEF Write, remote, attempt
<1>7. SyncsTyped'
  <2>1. readAt \in [Syncs -> [TableNames -> DOMAIN past']]
    BY <1>3 DEF MirrorInv, SyncsTyped
  <2>. QED BY <1>6, <2>1 DEF MirrorInv, SyncsTyped
<1>8. MirrorWhole'
  <2>1. mirroredAt \in [TableNames -> DOMAIN past'] /\ mirror \in Database
    BY <1>3 DEF MirrorInv, MirrorWhole
  <2>2. ASSUME NEW table \in TableNames
        PROVE  /\ mirror[table] = past'[mirroredAt[table]][table]
               /\ ReferencesHold(table, mirror[table], mirror)
    <3>1. mirroredAt[table] \in DOMAIN past
      BY DEF MirrorInv, MirrorWhole
    <3>. QED BY <1>3, <3>1 DEF MirrorInv, MirrorWhole
  <2>3. mirror' = mirror /\ mirroredAt' = mirroredAt
    BY <1>6
  <2>4. \A table \in TableNames : /\ mirror'[table] = past'[mirroredAt'[table]][table]
                                  /\ ReferencesHold(table, mirror[table], mirror)'
    BY <1>6, <2>2, <2>3 DEF ReferencesHold
  <2>. QED BY <2>1, <2>3, <2>4 DEF MirrorWhole
<1>9. OneCopies'
  BY <1>6 DEF MirrorInv, OneCopies
<1>10. ASSUME NEW s \in Syncs PROVE CopiesInOrder(s)'
  <2>1. ASSUME NEW table \in TableNames, CopiedIsRead(s, table) PROVE CopiedIsRead(s, table)'
    <3>1. readAt[s][table] \in DOMAIN past
      BY DEF MirrorInv, SyncsTyped
    <3>2. past'[readAt[s][table]] = past[readAt[s][table]]
      BY <1>3, <3>1
    <3>. QED BY <1>6, <2>1, <3>2 DEF CopiedIsRead, ReferencesHold
  <2>2. \A i \in 1 .. Len(SYNC_TABLES) : SYNC_TABLES[i] \in TableNames
    BY SevenTables
  <2>3. CopiesInOrder(s)
    BY DEF MirrorInv
  <2>. QED BY <1>6, <2>1, <2>2, <2>3 DEF CopiesInOrder, Truncated
<1>. QED BY <1>5, <1>7, <1>8, <1>9, <1>10 DEF MirrorInv

LEMMA LocalWritesKeep == MirrorInv /\ LocalWrites => MirrorInv'
<1>. SUFFICES ASSUME MirrorInv, LocalWrites PROVE MirrorInv'
  OBVIOUS
<1>1. /\ Local \in Database /\ Len(past) \in Nat
      /\ Local.Setting \in Table({1}, Nat) /\ Local.Collector \in Table(Collectors, Names)
      /\ Local.User \in Table(Tellers, Nat) /\ Local.Fight \in Table(FightIds, Nat)
      /\ Local.Bet \in Table(BetIds, BetRow) /\ Local.TellerLedger \in Seq(LedgerRow)
      /\ Local.SessionReset \in Seq(Tellers)
  BY LocalTyped DEF MirrorInv, PastInv, Database
<1>2. ASSUME NEW setting \in Table({1}, Nat), NEW collectors \in Table(Collectors, Names),
             NEW users \in Table(Tellers, Nat), NEW fights \in Table(FightIds, Nat),
             NEW bets \in Table(BetIds, BetRow), NEW ledger \in Seq(LedgerRow),
             NEW resets \in Seq(Tellers),
             DOMAIN Local.Setting \subseteq DOMAIN setting,
             DOMAIN Local.Collector \subseteq DOMAIN collectors,
             DOMAIN Local.User \subseteq DOMAIN users,
             DOMAIN Local.SessionReset \subseteq DOMAIN resets,
             Write([Setting |-> setting, Collector |-> collectors, User |-> users,
                    Fight |-> fights, Bet |-> bets, TellerLedger |-> ledger,
                    SessionReset |-> resets])
      PROVE  MirrorInv'
  <2>. DEFINE db == [Setting |-> setting, Collector |-> collectors, User |-> users,
                     Fight |-> fights, Bet |-> bets, TellerLedger |-> ledger,
                     SessionReset |-> resets]
  <2>1. db \in Database /\ Grows(Local, db)
    BY <1>2 DEF Database, Grows, Kept
  <2>. HIDE DEF db
  <2>. QED BY <1>2, <2>1, WriteKeeps DEF db
<1>3. CASE ChangeRate
  <2>. DEFINE rows == <<Len(past)>>
  <2>1. DOMAIN rows = {1} /\ rows \in [DOMAIN rows -> Nat] /\ DOMAIN Local.Setting \subseteq {1}
    BY <1>1, TableIs
  <2>2. rows \in Table({1}, Nat)
    BY <2>1, TableIs
  <2>3. Write([Local EXCEPT !.Setting = rows])
    BY <1>3 DEF ChangeRate
  <2>. HIDE DEF rows
  <2>4. [Local EXCEPT !.Setting = rows] =
          [Setting |-> rows, Collector |-> Local.Collector, User |-> Local.User,
           Fight |-> Local.Fight, Bet |-> Local.Bet, TellerLedger |-> Local.TellerLedger,
           SessionReset |-> Local.SessionReset]
    BY <1>1 DEF Database
  <2>. QED BY <1>1, <1>2, <2>1, <2>2, <2>3, <2>4
<1>4. ASSUME NEW t \in Tellers, SaveUser(t) PROVE MirrorInv'
  <2>. DEFINE rows == With(Local.User, t, Len(past))
  <2>1. rows \in Table(Tellers, Nat) /\ DOMAIN Local.User \subseteq DOMAIN rows
    BY <1>1, SavedTyped
  <2>2. Write([Local EXCEPT !.User = rows])
    BY <1>4 DEF SaveUser
  <2>. HIDE DEF rows
  <2>3. [Local EXCEPT !.User = rows] =
          [Setting |-> Local.Setting, Collector |-> Local.Collector, User |-> rows,
           Fight |-> Local.Fight, Bet |-> Local.Bet, TellerLedger |-> Local.TellerLedger,
           SessionReset |-> Local.SessionReset]
    BY <1>1 DEF Database
  <2>. QED BY <1>1, <1>2, <2>1, <2>2, <2>3
<1>5. ASSUME NEW c \in Collectors, NEW n \in Names, SaveCollector(c, n) PROVE MirrorInv'
  <2>. DEFINE rows == With(Local.Collector, c, n)
  <2>1. rows \in Table(Collectors, Names) /\ DOMAIN Local.Collector \subseteq DOMAIN rows
    BY <1>1, SavedTyped
  <2>2. Write([Local EXCEPT !.Collector = rows])
    BY <1>5 DEF SaveCollector
  <2>. HIDE DEF rows
  <2>3. [Local EXCEPT !.Collector = rows] =
          [Setting |-> Local.Setting, Collector |-> rows, User |-> Local.User,
           Fight |-> Local.Fight, Bet |-> Local.Bet, TellerLedger |-> Local.TellerLedger,
           SessionReset |-> Local.SessionReset]
    BY <1>1 DEF Database
  <2>. QED BY <1>1, <1>2, <2>1, <2>2, <2>3
<1>6. ASSUME NEW t \in Tellers, NEW c \in Collectors, CashEntry(t, c) PROVE MirrorInv'
  <2>. DEFINE row == [teller |-> t, table |-> "Collector", id |-> c]
              rows == Append(Local.TellerLedger, row)
  <2>1. rows \in Seq(LedgerRow)
    <3>1. row \in LedgerRow
      BY DEF LedgerRow
    <3>. HIDE DEF row
    <3>. QED BY <1>1, <3>1
  <2>2. Write([Local EXCEPT !.TellerLedger = rows])
    BY <1>6 DEF CashEntry
  <2>. HIDE DEF rows
  <2>3. [Local EXCEPT !.TellerLedger = rows] =
          [Setting |-> Local.Setting, Collector |-> Local.Collector, User |-> Local.User,
           Fight |-> Local.Fight, Bet |-> Local.Bet, TellerLedger |-> rows,
           SessionReset |-> Local.SessionReset]
    BY <1>1 DEF Database
  <2>. QED BY <1>1, <1>2, <2>1, <2>2, <2>3
<1>7. ASSUME NEW f \in FightIds, CreateFight(f) PROVE MirrorInv'
  <2>. DEFINE rows == With(Local.Fight, f, 0)
  <2>1. rows \in Table(FightIds, Nat)
    BY <1>1, SavedTyped
  <2>2. Write([Local EXCEPT !.Fight = rows])
    BY <1>7 DEF CreateFight
  <2>. HIDE DEF rows
  <2>3. [Local EXCEPT !.Fight = rows] =
          [Setting |-> Local.Setting, Collector |-> Local.Collector, User |-> Local.User,
           Fight |-> rows, Bet |-> Local.Bet, TellerLedger |-> Local.TellerLedger,
           SessionReset |-> Local.SessionReset]
    BY <1>1 DEF Database
  <2>. QED BY <1>1, <1>2, <2>1, <2>2, <2>3
<1>8. ASSUME NEW b \in BetIds, NEW f \in FightIds, NEW t \in Tellers, PlaceBet(b, f, t)
      PROVE  MirrorInv'
  <2>. DEFINE pools == [Local.Fight EXCEPT ![f] = @ + 1]
              ticket == [fight |-> f, teller |-> t]
              bets == With(Local.Bet, b, ticket)
              row == [teller |-> t, table |-> "Bet", id |-> b]
              rows == Append(Local.TellerLedger, row)
  <2>1. pools \in Table(FightIds, Nat)
    <3>1. DOMAIN Local.Fight \subseteq FightIds /\ Local.Fight \in [DOMAIN Local.Fight -> Nat]
      BY <1>1, TableIs
    <3>2. DOMAIN pools \subseteq FightIds /\ pools \in [DOMAIN pools -> Nat]
      BY <1>8, <3>1 DEF PlaceBet
    <3>. HIDE DEF pools
    <3>. QED BY <3>2, TableIs
  <2>2. bets \in Table(BetIds, BetRow)
    <3>1. ticket \in BetRow
      BY DEF BetRow
    <3>. HIDE DEF ticket
    <3>. QED BY <1>1, <3>1, SavedTyped
  <2>3. rows \in Seq(LedgerRow)
    <3>1. row \in LedgerRow
      BY DEF LedgerRow
    <3>. HIDE DEF row
    <3>. QED BY <1>1, <3>1
  <2>4. Write([Setting |-> Local.Setting, Collector |-> Local.Collector, User |-> Local.User,
               Fight |-> pools, Bet |-> bets, TellerLedger |-> rows,
               SessionReset |-> Local.SessionReset])
    BY <1>8 DEF PlaceBet
  <2>. HIDE DEF pools, bets, rows
  <2>. QED BY <1>1, <1>2, <2>1, <2>2, <2>3, <2>4
<1>9. ASSUME NEW t \in Tellers, ResetSession(t) PROVE MirrorInv'
  <2>. DEFINE resets == Append(Local.SessionReset, t)
  <2>1. resets \in Seq(Tellers) /\ DOMAIN Local.SessionReset \subseteq DOMAIN resets
    BY <1>1
  <2>2. Write([Setting |-> Local.Setting, Collector |-> Local.Collector, User |-> Local.User,
               Fight |-> << >>, Bet |-> << >>, TellerLedger |-> << >>, SessionReset |-> resets])
    BY <1>9 DEF ResetSession
  <2>. HIDE DEF resets
  <2>. QED BY <1>1, <1>2, <2>1, <2>2, NoRows
<1>. QED BY <1>3, <1>4, <1>5, <1>6, <1>7, <1>8, <1>9 DEF LocalWrites

-----------------------------------------------------------------------------
(* The syncs                                                               *)

\* Steps in which no sync begins, copies or commits.
LEMMA OthersKeep ==
  ASSUME MirrorInv, SyncsTyped', UNCHANGED <<past, remote>>,
         \A r \in Syncs : pc'[r] = "copying" =>
           /\ pc[r] = "copying" /\ copied'[r] = copied[r]
           /\ work'[r] = work[r] /\ readAt'[r] = readAt[r]
  PROVE  MirrorInv'
<1>1. PastInv' /\ MirrorWhole'
  BY DEF MirrorInv, PastInv, NeverShrinks, MirrorWhole, ReferencesHold, remote
<1>2. OneCopies'
  BY DEF MirrorInv, OneCopies
<1>3. ASSUME NEW s \in Syncs, pc'[s] = "copying" PROVE CopiesInOrder(s)'
  <2>1. /\ pc[s] = "copying" /\ copied'[s] = copied[s]
        /\ work'[s] = work[s] /\ readAt'[s] = readAt[s]
        /\ past' = past /\ mirror' = mirror /\ mirroredAt' = mirroredAt
    BY <1>3 DEF remote
  <2>2. CopiesInOrder(s)
    BY DEF MirrorInv
  <2>3. ASSUME NEW table, CopiedIsRead(s, table) PROVE CopiedIsRead(s, table)'
    BY <2>1, <2>3 DEF CopiedIsRead, ReferencesHold
  <2>4. Truncated(mirror)' = Truncated(mirror)
    BY <2>1 DEF Truncated
  <2>. QED BY <2>1, <2>2, <2>3, <2>4 DEF CopiesInOrder
<1>4. ASSUME NEW s \in Syncs, pc'[s] # "copying" PROVE CopiesInOrder(s)'
  BY <1>4 DEF CopiesInOrder
<1>. QED BY <1>1, <1>2, <1>3, <1>4 DEF MirrorInv

LEMMA NoReadsTyped == PastInv => NoReads \in [TableNames -> DOMAIN past]
<1>. SUFFICES ASSUME PastInv PROVE NoReads \in [TableNames -> DOMAIN past]
  OBVIOUS
<1>1. 1 \in DOMAIN past
  BY LocalTyped DEF PastInv
<1>. QED BY <1>1 DEF NoReads

LEMMA FinishedTyped ==
  ASSUME MirrorInv, NEW s \in Syncs, NEW outcome \in Outcomes, Finished(s, outcome)
  PROVE  /\ pc' \in [Syncs -> {"idle", "checking", "copying", "saving"}]
         /\ copied' \in [Syncs -> 0 .. Len(SYNC_TABLES)]
         /\ work' \in [Syncs -> Database]
         /\ readAt' \in [Syncs -> [TableNames -> DOMAIN past]]
         /\ result' \in [Syncs -> Outcomes]
         /\ pc'[s] = "saving"
         /\ \A r \in Syncs \ {s} : /\ pc'[r] = pc[r] /\ copied'[r] = copied[r]
                                   /\ work'[r] = work[r] /\ readAt'[r] = readAt[r]
<1>1. 0 \in 0 .. Len(SYNC_TABLES)
  BY SevenTables
<1>. QED BY <1>1, EmptyTyped, NoReadsTyped DEF MirrorInv, SyncsTyped, Finished

LEMMA WaitingKeeps ==
  ASSUME MirrorInv, NEW s \in Syncs,
         \/ StartManual(s) \/ (s = Timer /\ StartAuto) \/ Unreachable(s) \/ Fails(s)
         \/ Save(s) \/ SaveFails(s)
  PROVE  MirrorInv'
<1>. USE DEF remote
<1>1. /\ SyncsTyped /\ Timer \in Syncs /\ MaxFaults \in Nat
      /\ \A ok \in BOOLEAN : Returned(s, ok) \in BOOLEAN
  BY MirrorConstants DEF MirrorInv, Syncs, SyncsTyped, Returned
<1>2. CASE StartManual(s) \/ (s = Timer /\ StartAuto)
  <2>1. SyncsTyped'
    BY <1>1, <1>2 DEF StartManual, StartAuto, Starts, SyncsTyped
  <2>. QED BY <1>1, <1>2, <2>1, OthersKeep DEF StartManual, StartAuto, Starts, SyncsTyped
<1>3. CASE Unreachable(s)
  <2>1. SyncsTyped'
    BY <1>1, <1>3 DEF Unreachable, SyncsTyped
  <2>. QED BY <1>1, <1>3, <2>1, OthersKeep DEF Unreachable, SyncsTyped
<1>4. CASE Fails(s)
  <2>1. "failed" \in Outcomes /\ Finished(s, "failed")
    BY <1>4 DEF Outcomes, Fails
  <2>2. SyncsTyped'
    BY <1>1, <1>4, <2>1, FinishedTyped DEF Fails, SyncsTyped
  <2>3. \A r \in Syncs : pc'[r] = "copying" => r \in Syncs \ {s}
    BY <2>1, FinishedTyped
  <2>. QED BY <1>4, <2>1, <2>2, <2>3, FinishedTyped, OthersKeep DEF Fails
<1>5. CASE Save(s)
  <2>1. result[s] \in Outcomes /\ Returned(s, result[s] = "ok") \in BOOLEAN /\ "none" \in Outcomes
    BY <1>1 DEF SyncsTyped, Outcomes
  <2>2. SyncsTyped'
    BY <1>1, <1>5, <2>1 DEF Save, SyncsTyped
  <2>. QED BY <1>1, <1>5, <2>2, OthersKeep DEF Save, SyncsTyped
<1>6. CASE SaveFails(s)
  <2>1. faults + 1 \in 0 .. MaxFaults /\ "none" \in Outcomes /\ "failed" \in Outcomes
    BY <1>1, <1>6 DEF SaveFails, SyncsTyped, Outcomes
  <2>2. SyncsTyped'
    <3>1. CASE result[s] = "ok"
      BY <1>1, <1>6, <2>1, <3>1 DEF SaveFails, SyncsTyped
    <3>2. CASE result[s] # "ok"
      BY <1>1, <1>6, <2>1, <3>2 DEF SaveFails, SyncsTyped
    <3>. QED BY <3>1, <3>2
  <2>3. \A r \in Syncs : pc'[r] = "copying" => pc[r] = "copying"
    BY <1>1, <1>6 DEF SaveFails, SyncsTyped
  <2>. QED BY <1>6, <2>2, <2>3, OthersKeep DEF SaveFails
<1>. QED BY <1>2, <1>3, <1>4, <1>5, <1>6

LEMMA WorldKeeps ==
  ASSUME MirrorInv, GoOffline \/ GoOnline \/ Restart
  PROVE  MirrorInv'
<1>. USE DEF remote, attempt
<1>1. SyncsTyped /\ MaxFaults \in Nat
  BY MirrorConstants DEF MirrorInv
<1>2. CASE GoOffline
  <2>1. faults + 1 \in 0 .. MaxFaults
    BY <1>1, <1>2 DEF GoOffline, SyncsTyped
  <2>2. SyncsTyped'
    BY <1>1, <1>2, <2>1 DEF GoOffline, SyncsTyped
  <2>. QED BY <1>2, <2>2, OthersKeep DEF GoOffline
<1>3. CASE GoOnline
  <2>1. SyncsTyped'
    BY <1>1, <1>3 DEF GoOnline, SyncsTyped
  <2>. QED BY <1>3, <2>1, OthersKeep DEF GoOnline
<1>4. CASE Restart
  <2>1. /\ faults + 1 \in 0 .. MaxFaults /\ 0 \in 0 .. Len(SYNC_TABLES) /\ "none" \in Outcomes
        /\ EmptyDatabase \in Database /\ NoReads \in [TableNames -> DOMAIN past]
    BY <1>1, <1>4, SevenTables, EmptyTyped, NoReadsTyped DEF Restart, SyncsTyped, Outcomes, MirrorInv
  <2>2. SyncsTyped'
    BY <1>1, <1>4, <2>1 DEF Restart, SyncsTyped
  <2>3. \A r \in Syncs : pc'[r] # "copying"
    BY <1>4 DEF Restart
  <2>. QED BY <1>4, <2>2, <2>3, OthersKeep DEF Restart
<1>. QED BY <1>2, <1>3, <1>4

-----------------------------------------------------------------------------
(* The remote transaction                                                  *)

LEMMA TruncatedTyped ==
  ASSUME NEW db \in Database
  PROVE  /\ Truncated(db) \in Database
         /\ \A table \in Kept : Truncated(db)[table] = db[table]
         /\ \A table \in TableNames \ Kept : Truncated(db)[table] = << >>
BY NoRows, SevenTables DEF Truncated, Database, Kept

LEMMA BeginKeeps ==
  ASSUME MirrorInv, NEW s \in Syncs, Begin(s)
  PROVE  MirrorInv'
<1>. USE DEF remote
<1>1. SyncsTyped /\ MirrorWhole /\ 0 \in 0 .. Len(SYNC_TABLES) /\ Truncated(mirror) \in Database
  BY SevenTables, TruncatedTyped DEF MirrorInv, MirrorWhole
<1>2. SyncsTyped'
  BY <1>1 DEF Begin, SyncsTyped
<1>3. PastInv' /\ MirrorWhole'
  BY DEF MirrorInv, PastInv, NeverShrinks, MirrorWhole, ReferencesHold, Begin
<1>4. \A r \in Syncs : pc'[r] = "copying" => r = s
  BY <1>1 DEF Begin, SyncsTyped, RemoteFree
<1>5. OneCopies'
  BY <1>4 DEF OneCopies
<1>6. ASSUME NEW r \in Syncs PROVE CopiesInOrder(r)'
  <2>1. copied'[s] = 0 /\ work'[s] = Truncated(mirror) /\ mirror' = mirror
    BY <1>1 DEF Begin, SyncsTyped
  <2>2. \A i \in 1 .. Len(SYNC_TABLES) : ~(i <= 0)
    BY SevenTables
  <2>3. Truncated(mirror)' = Truncated(mirror)
    BY <2>1 DEF Truncated
  <2>. QED BY <1>4, <2>1, <2>2, <2>3 DEF CopiesInOrder
<1>. QED BY <1>2, <1>3, <1>5, <1>6 DEF MirrorInv

\* What CopyTable writes is what it read: the table was empty, or only grew.
LEMMA CopyIsRows ==
  ASSUME MirrorInv, NEW s \in Syncs, pc[s] = "copying", copied[s] < Len(SYNC_TABLES)
  PROVE  /\ NextTable(s) \in TableNames
         /\ Upserted(work[s][NextTable(s)], Local[NextTable(s)]) = Local[NextTable(s)]
         /\ [work[s] EXCEPT ![NextTable(s)] = Local[NextTable(s)]] \in Database
         /\ mirroredAt[NextTable(s)] <= Len(past)
<1>1. copied[s] \in 0 .. 6 /\ work[s] \in Database
  BY SevenTables DEF MirrorInv, SyncsTyped
<1>2. NextTable(s) = SYNC_TABLES[copied[s] + 1] /\ copied[s] + 1 \in 1 .. 7 /\ ~(copied[s] + 1 <= copied[s])
  BY <1>1 DEF NextTable
<1>3. PICK T \in TableNames : T = NextTable(s)
  <2>1. copied[s] + 1 \in DOMAIN SYNC_TABLES
    BY <1>2 DEF SYNC_TABLES
  <2>. QED BY <1>2, <2>1 DEF TableNames
<1>4. work[s][T] = Truncated(mirror)[T]
  BY <1>2, <1>3, SevenTables DEF MirrorInv, CopiesInOrder
<1>5. /\ DOMAIN past = 1 .. Len(past) /\ Len(past) \in Nat /\ Len(past) \in DOMAIN past
      /\ Local \in Database /\ Local = past[Len(past)]
  BY LocalTyped DEF MirrorInv, PastInv, Local
<1>6. /\ mirroredAt[T] \in 1 .. Len(past) /\ mirroredAt[T] <= Len(past)
      /\ mirror[T] = past[mirroredAt[T]][T] /\ mirror \in Database
  BY <1>5 DEF MirrorInv, MirrorWhole
<1>7. DOMAIN work[s][T] \subseteq DOMAIN Local[T]
  <2>1. CASE T \in Kept
    <3>1. Grows(past[mirroredAt[T]], Local)
      BY <1>5, <1>6 DEF MirrorInv, PastInv, NeverShrinks
    <3>. QED BY <1>4, <1>6, <2>1, <3>1, TruncatedTyped DEF Grows
  <2>2. CASE T \notin Kept
    BY <1>4, <1>6, <2>2, NoRows, TruncatedTyped
  <2>. QED BY <2>1, <2>2
<1>8. [work[s] EXCEPT ![T] = Local[T]] \in Database /\ IsTable(Local[T])
  BY <1>1, <1>5, TableReplaced
<1>9. Upserted(work[s][T], Local[T]) = Local[T]
  BY <1>7, <1>8, UpsertedIsRows
<1>. QED BY <1>3, <1>6, <1>8, <1>9

LEMMA ReferencesAre ==
  ASSUME NEW table, NEW rows, NEW db
  PROVE  ReferencesHold(table, rows, db) <=>
           /\ table = "Bet" => \A b \in DOMAIN rows : /\ rows[b].fight \in DOMAIN db.Fight
                                                      /\ rows[b].teller \in DOMAIN db.User
           /\ table = "TellerLedger" =>
                \A i \in DOMAIN rows :
                  /\ rows[i].teller \in DOMAIN db.User
                  /\ rows[i].table = "Bet" => rows[i].id \in DOMAIN db.Bet
                  /\ rows[i].table = "Collector" => rows[i].id \in DOMAIN db.Collector
           /\ table = "SessionReset" => \A i \in DOMAIN rows : rows[i] \in DOMAIN db.User
BY DEF ReferencesHold

\* A row refers only to tables that come before its own.
LEMMA ReferencesKept ==
  ASSUME NEW db \in Database, NEW new, NEW i \in 1 .. 7, NEW k \in 1 .. 7, i <= k, NEW rows,
         ReferencesHold(SYNC_TABLES[i], rows, db)
  PROVE  ReferencesHold(SYNC_TABLES[i], rows, [db EXCEPT ![SYNC_TABLES[k]] = new])
<1>. DEFINE next == [db EXCEPT ![SYNC_TABLES[k]] = new]
<1>1. i \in {1, 2, 3, 4, 5, 6, 7} /\ k \in {1, 2, 3, 4, 5, 6, 7}
  OBVIOUS
<1>2. SYNC_TABLES[k] \in {"Bet", "TellerLedger", "SessionReset"} =>
        next.Fight = db.Fight /\ next.User = db.User /\ next.Collector = db.Collector
  BY DEF Database
<1>3. SYNC_TABLES[k] \in {"TellerLedger", "SessionReset"} => next.Bet = db.Bet
  BY DEF Database
<1>4. SYNC_TABLES[i] = "Bet" => SYNC_TABLES[k] \in {"Bet", "TellerLedger", "SessionReset"}
  <2>1. SYNC_TABLES[i] = "Bet" => i = 5
    BY <1>1, SevenTables
  <2>. QED BY <1>1, <2>1, SevenTables
<1>5. SYNC_TABLES[i] \in {"TellerLedger", "SessionReset"} =>
        SYNC_TABLES[k] \in {"TellerLedger", "SessionReset"}
  <2>1. SYNC_TABLES[i] \in {"TellerLedger", "SessionReset"} => i \in {6, 7}
    BY <1>1, SevenTables
  <2>. QED BY <1>1, <2>1, SevenTables
<1>. HIDE DEF next
<1>. QED BY <1>2, <1>3, <1>4, <1>5, ReferencesAre DEF next

LEMMA TablesDiffer ==
  ASSUME NEW i \in 1 .. 7, NEW k \in 1 .. 7, i # k
  PROVE  SYNC_TABLES[i] # SYNC_TABLES[k]
<1>1. i \in {1, 2, 3, 4, 5, 6, 7} /\ k \in {1, 2, 3, 4, 5, 6, 7}
  OBVIOUS
<1>2. CASE i \in {1, 2, 3}
  BY <1>1, <1>2, SevenTables
<1>3. CASE i \in {4, 5}
  BY <1>1, <1>3, SevenTables
<1>4. CASE i \in {6, 7}
  BY <1>1, <1>4, SevenTables
<1>. QED BY <1>1, <1>2, <1>3, <1>4

LEMMA CopyKeeps ==
  ASSUME MirrorInv, NEW s \in Syncs, CopyTable(s)
  PROVE  MirrorInv'
<1>. USE DEF remote
<1>1. /\ pc[s] = "copying" /\ copied[s] < Len(SYNC_TABLES)
      /\ UNCHANGED <<past, mirror, mirroredAt, online, pc, result, running, stateFile, faults>>
      /\ SyncsTyped /\ MirrorWhole /\ PastInv
  BY DEF CopyTable, MirrorInv
<1>2. PICK k \in 0 .. 6 : k = copied[s]
  BY <1>1, SevenTables DEF SyncsTyped
<1>3. PICK T \in TableNames : T = SYNC_TABLES[k + 1] /\ T = NextTable(s)
  BY <1>1, <1>2, CopyIsRows DEF NextTable
<1>4. PICK w \in Database : w = work[s]
  BY <1>1 DEF SyncsTyped
<1>5. PICK rows : rows = Local[T]
  OBVIOUS
<1>6. /\ ReferencesHold(T, rows, w) /\ [w EXCEPT ![T] = rows] \in Database
      /\ Upserted(w[T], rows) = rows
      /\ mirroredAt[T] <= Len(past) /\ Len(past) \in DOMAIN past
  BY <1>1, <1>3, <1>4, <1>5, CopyIsRows, LocalTyped DEF CopyTable, Accepted
<1>7. /\ work' = [work EXCEPT ![s][T] = Upserted(@, rows)]
      /\ readAt' = [readAt EXCEPT ![s][T] = Len(past)]
      /\ copied' = [copied EXCEPT ![s] = @ + 1]
  BY <1>3, <1>5 DEF CopyTable
<1>8. /\ work' \in [Syncs -> Database] /\ work'[s] = [w EXCEPT ![T] = rows]
      /\ \A r \in Syncs \ {s} : work'[r] = work[r]
  BY <1>1, <1>4, <1>6, <1>7 DEF SyncsTyped
<1>9. /\ readAt' \in [Syncs -> [TableNames -> DOMAIN past]]
      /\ readAt'[s][T] = Len(past)
      /\ \A table \in TableNames \ {T} : readAt'[s][table] = readAt[s][table]
      /\ \A r \in Syncs \ {s} : readAt'[r] = readAt[r]
  BY <1>1, <1>6, <1>7 DEF SyncsTyped
<1>10. /\ copied' \in [Syncs -> 0 .. Len(SYNC_TABLES)] /\ copied'[s] = k + 1
       /\ \A r \in Syncs \ {s} : copied'[r] = copied[r]
  <2>1. k + 1 \in 0 .. Len(SYNC_TABLES)
    BY <1>2, SevenTables
  <2>. QED BY <1>1, <1>2, <1>7, <2>1 DEF SyncsTyped
<1>11. SyncsTyped'
  BY <1>1, <1>8, <1>9, <1>10 DEF SyncsTyped
<1>12. PastInv' /\ MirrorWhole' /\ OneCopies'
  BY <1>1 DEF MirrorInv, PastInv, NeverShrinks, MirrorWhole, ReferencesHold, OneCopies
<1>13. Truncated(mirror)' = Truncated(mirror)
  BY <1>1 DEF Truncated
<1>14. ASSUME NEW i \in 1 .. Len(SYNC_TABLES)
       PROVE  IF i <= k + 1 THEN CopiedIsRead(s, SYNC_TABLES[i])'
              ELSE work'[s][SYNC_TABLES[i]] = Truncated(mirror)[SYNC_TABLES[i]]
  <2>1. /\ i \in 1 .. 7 /\ k + 1 \in 1 .. 7 /\ SYNC_TABLES[i] \in TableNames
        /\ i # k + 1 => SYNC_TABLES[i] # T
    <3>1. i \in 1 .. 7 /\ k + 1 \in 1 .. 7 /\ i \in DOMAIN SYNC_TABLES
      BY <1>2, SevenTables DEF SYNC_TABLES
    <3>2. SYNC_TABLES[i] \in TableNames
      BY <3>1 DEF TableNames
    <3>. QED BY <1>3, <3>1, <3>2, TablesDiffer
  <2>2. /\ i <= k => CopiedIsRead(s, SYNC_TABLES[i])
        /\ ~(i <= k) => work[s][SYNC_TABLES[i]] = Truncated(mirror)[SYNC_TABLES[i]]
    BY <1>1, <1>2 DEF MirrorInv, CopiesInOrder
  <2>3. CASE i = k + 1
    <3>0. i <= k + 1
      BY <2>1, <2>3
    <3>1. ReferencesHold(T, rows, [w EXCEPT ![T] = rows])
      <4>1. ReferencesHold(SYNC_TABLES[i], rows, w) /\ SYNC_TABLES[i] = T
        BY <1>3, <1>6, <2>3, Zenon
      <4>2. ReferencesHold(SYNC_TABLES[i], rows, [w EXCEPT ![SYNC_TABLES[k + 1]] = rows])
        BY <3>0, <2>1, <4>1, ReferencesKept
      <4>. QED BY <1>3, <4>1, <4>2
    <3>2. T \in DOMAIN w
      BY <1>3, <1>4, SevenTables DEF Database
    <3>3. work'[s][T] = rows
      BY <1>8, <3>2
    <3>4. readAt'[s][T] >= mirroredAt[T] /\ rows = past[readAt'[s][T]][T]
      <4>1. mirroredAt[T] \in Nat /\ Len(past) \in Nat
        BY <1>1, <1>3, LocalTyped DEF MirrorWhole
      <4>. QED BY <1>5, <1>6, <1>9, <4>1 DEF Local
    <3>5. CopiedIsRead(s, T)'
      BY <1>1, <1>8, <3>1, <3>3, <3>4 DEF CopiedIsRead, ReferencesHold
    <3>6. SYNC_TABLES[i] = T
      BY <1>3, <2>3, Zenon
    <3>. QED BY <3>0, <3>5, <3>6
  <2>4. CASE i <= k
    <3>1. work'[s][SYNC_TABLES[i]] = w[SYNC_TABLES[i]] /\ i <= k + 1
      BY <1>2, <1>8, <2>1, <2>4, SevenTables DEF Database
    <3>2. ReferencesHold(SYNC_TABLES[i], w[SYNC_TABLES[i]], [w EXCEPT ![T] = rows])
      <4>1. ReferencesHold(SYNC_TABLES[i], w[SYNC_TABLES[i]], w) /\ i <= k + 1
        BY <1>4, <2>2, <2>4, <3>1 DEF CopiedIsRead
      <4>2. ReferencesHold(SYNC_TABLES[i], w[SYNC_TABLES[i]], [w EXCEPT ![SYNC_TABLES[k + 1]] = rows])
        BY <2>1, <4>1, ReferencesKept
      <4>. QED BY <1>3, <4>2
    <3>3. readAt'[s][SYNC_TABLES[i]] = readAt[s][SYNC_TABLES[i]]
      BY <1>2, <1>9, <2>1, <2>4
    <3>4. CopiedIsRead(s, SYNC_TABLES[i])'
      BY <1>1, <1>4, <1>8, <2>2, <2>4, <3>1, <3>2, <3>3 DEF CopiedIsRead, ReferencesHold
    <3>. QED BY <3>1, <3>4
  <2>5. CASE ~(i <= k + 1)
    <3>1. work'[s][SYNC_TABLES[i]] = w[SYNC_TABLES[i]] /\ ~(i <= k)
      BY <1>2, <1>8, <2>1, <2>5, SevenTables DEF Database
    <3>. QED BY <1>4, <2>2, <2>5, <3>1
  <2>. QED BY <1>2, <2>1, <2>3, <2>4, <2>5
<1>15. CopiesInOrder(s)'
  BY <1>10, <1>13, <1>14 DEF CopiesInOrder
<1>16. ASSUME NEW r \in Syncs \ {s} PROVE CopiesInOrder(r)'
  <2>1. pc'[r] # "copying"
    BY <1>1 DEF MirrorInv, OneCopies
  <2>. QED BY <2>1 DEF CopiesInOrder
<1>. QED BY <1>11, <1>12, <1>15, <1>16 DEF MirrorInv

LEMMA CommitWhole ==
  ASSUME MirrorInv, NEW s \in Syncs, Commit(s)
  PROVE  /\ MirrorWhole'
         /\ \A table \in TableNames : mirroredAt'[table] >= mirroredAt[table]
<1>1. /\ pc[s] = "copying" /\ copied[s] = Len(SYNC_TABLES) /\ past' = past
      /\ mirror' = work[s] /\ mirroredAt' = readAt[s]
  BY DEF Commit
<1>2. ASSUME NEW table \in TableNames PROVE CopiedIsRead(s, table)
  <2>1. PICK i \in 1 .. Len(SYNC_TABLES) : table = SYNC_TABLES[i]
    BY SevenTables
  <2>2. i <= copied[s]
    BY <1>1, SevenTables
  <2>. QED BY <1>1, <2>1, <2>2 DEF MirrorInv, CopiesInOrder
<1>3. work[s] \in Database /\ readAt[s] \in [TableNames -> DOMAIN past]
  BY DEF MirrorInv, SyncsTyped
<1>4. ASSUME NEW table \in TableNames
      PROVE  /\ mirror'[table] = past'[mirroredAt'[table]][table]
             /\ ReferencesHold(table, mirror[table], mirror)'
  BY <1>1, <1>2 DEF CopiedIsRead, ReferencesHold
<1>. QED BY <1>1, <1>2, <1>3, <1>4 DEF MirrorWhole, CopiedIsRead

LEMMA CommitKeeps ==
  ASSUME MirrorInv, NEW s \in Syncs, Commit(s)
  PROVE  MirrorInv'
<1>1. PICK outcome \in Outcomes : Finished(s, outcome)
  BY DEF Commit, Outcomes
<1>2. \A r \in Syncs : pc'[r] # "copying"
  <2>1. \A r \in Syncs \ {s} : pc'[r] = pc[r]
    BY <1>1, FinishedTyped
  <2>2. \A r \in Syncs \ {s} : pc[r] # "copying"
    BY DEF MirrorInv, OneCopies, Commit
  <2>3. pc'[s] # "copying"
    BY <1>1, FinishedTyped
  <2>. QED BY <2>1, <2>2, <2>3
<1>3. SyncsTyped'
  BY <1>1, FinishedTyped DEF Commit, SyncsTyped, MirrorInv
<1>4. PastInv' /\ MirrorWhole'
  BY CommitWhole DEF Commit, MirrorInv, PastInv, NeverShrinks
<1>. QED BY <1>2, <1>3, <1>4 DEF MirrorInv, OneCopies, CopiesInOrder

-----------------------------------------------------------------------------
(* The theorems                                                            *)

LEMMA InitMirror == Init => MirrorInv
<1>. SUFFICES ASSUME Init PROVE MirrorInv
  OBVIOUS
<1>1. /\ past \in Seq(Database) /\ Len(past) = 1 /\ DOMAIN past = {1} /\ past[1] = EmptyDatabase
  BY EmptyTyped DEF Init
<1>2. PastInv
  <2>1. Grows(EmptyDatabase, EmptyDatabase)
    BY DEF Grows
  <2>2. Len(past) \in 1 .. MaxWrites + 1
    BY <1>1, MirrorConstants
  <2>. QED BY <1>1, <2>1, <2>2 DEF PastInv, NeverShrinks
<1>3. NoReads \in [TableNames -> DOMAIN past]
  BY <1>2, NoReadsTyped
<1>4. SyncsTyped
  <2>1. 0 \in 0 .. Len(SYNC_TABLES) /\ 0 \in 0 .. MaxFaults /\ "none" \in Outcomes
    BY SevenTables, MirrorConstants DEF Outcomes
  <2>. QED BY <1>3, <2>1, EmptyTyped DEF Init, SyncsTyped
<1>5. MirrorWhole
  <2>1. ASSUME NEW table \in TableNames
        PROVE  /\ mirror[table] = past[mirroredAt[table]][table]
               /\ ReferencesHold(table, mirror[table], mirror)
    <3>1. mirror = EmptyDatabase /\ mirroredAt[table] = 1
      BY DEF Init, NoReads
    <3>2. /\ DOMAIN EmptyDatabase.Bet = {} /\ DOMAIN EmptyDatabase.TellerLedger = {}
          /\ DOMAIN EmptyDatabase.SessionReset = {}
      BY NoRows DEF EmptyDatabase
    <3>3. ReferencesHold(table, EmptyDatabase[table], EmptyDatabase)
      BY <3>2, ReferencesAre
    <3>. QED BY <1>1, <3>1, <3>3
  <2>. QED BY <1>3, <2>1, EmptyTyped DEF Init, MirrorWhole
<1>6. OneCopies /\ \A s \in Syncs : CopiesInOrder(s)
  BY DEF Init, OneCopies, CopiesInOrder
<1>. QED BY <1>2, <1>4, <1>5, <1>6 DEF MirrorInv

LEMMA NextMirror == MirrorInv /\ [Next]_vars => MirrorInv'
<1>. SUFFICES ASSUME MirrorInv, [Next]_vars PROVE MirrorInv'
  OBVIOUS
<1>1. CASE LocalWrites
  BY <1>1, LocalWritesKeep
<1>2. CASE StartAuto
  <2>1. Timer \in Syncs
    BY DEF Syncs
  <2>. QED BY <1>2, <2>1, WaitingKeeps
<1>3. ASSUME NEW s \in Syncs, Syncing(s) PROVE MirrorInv'
  BY <1>3, WaitingKeeps, BeginKeeps, CopyKeeps, CommitKeeps DEF Syncing
<1>4. CASE GoOffline \/ GoOnline \/ Restart
  BY <1>4, WorldKeeps
<1>5. CASE UNCHANGED vars
  <2>1. SyncsTyped'
    BY <1>5 DEF vars, remote, attempt, MirrorInv, SyncsTyped
  <2>. QED BY <1>5, <2>1, OthersKeep DEF vars, remote, attempt
<1>. QED BY <1>1, <1>2, <1>3, <1>4, <1>5 DEF Next

THEOREM Inductive == Spec => []MirrorInv
BY InitMirror, NextMirror, PTL DEF Spec

(***************************************************************************)
(* TypeOK for any number of tellers, fights, tickets and syncs: every      *)
(* table of the mirror was read locally at some time, and the rows of the  *)
(* mirror refer to rows it has.                                            *)
(***************************************************************************)
THEOREM MirrorIsSound == Spec => []TypeOK
<1>1. MirrorInv => TypeOK
  <2>. SUFFICES ASSUME MirrorInv PROVE TypeOK
    OBVIOUS
  <2>1. {stateFile} \cup {result[s] : s \in Syncs} \subseteq {"none", "ok", "failed"}
    BY DEF MirrorInv, SyncsTyped, Outcomes
  <2>. QED BY <2>1 DEF TypeOK, MirrorInv, PastInv, SyncsTyped, MirrorWhole
<1>. QED BY <1>1, Inductive, PTL

NoTableGoesBack == \A table \in TableNames : mirroredAt'[table] >= mirroredAt[table]

LEMMA StepGoesOn == MirrorInv /\ Next => NoTableGoesBack
<1>. SUFFICES ASSUME MirrorInv, Next PROVE NoTableGoesBack
  OBVIOUS
<1>1. \A table \in TableNames : mirroredAt[table] \in Nat
  BY LocalTyped DEF MirrorInv, MirrorWhole, PastInv
<1>2. CASE mirroredAt' = mirroredAt
  BY <1>1, <1>2 DEF NoTableGoesBack
<1>3. ASSUME NEW s \in Syncs, Commit(s) PROVE NoTableGoesBack
  BY <1>3, CommitWhole DEF NoTableGoesBack
<1>. USE DEF remote
<1>4. CASE LocalWrites
  BY <1>2, <1>4 DEF LocalWrites, ChangeRate, SaveUser, SaveCollector, CashEntry, CreateFight, PlaceBet, ResetSession, Write
<1>5. CASE StartAuto
  BY <1>2, <1>5 DEF StartAuto, Starts
<1>6. ASSUME NEW s \in Syncs, Syncing(s) PROVE NoTableGoesBack
  <2>1. CASE ~Commit(s)
    BY <1>2, <1>6, <2>1 DEF Syncing, StartManual, Starts, Unreachable, Begin, CopyTable, Fails, Save, SaveFails
  <2>. QED BY <1>3, <2>1
<1>7. CASE GoOffline \/ GoOnline \/ Restart
  BY <1>2, <1>7 DEF GoOffline, GoOnline, Restart
<1>. QED BY <1>4, <1>5, <1>6, <1>7 DEF Next

(***************************************************************************)
(* MirrorNeverGoesBack for any number of syncs that overlap: the lock that *)
(* TRUNCATE takes orders their reads as their commits are.                 *)
(***************************************************************************)
THEOREM NeverBack == Spec => MirrorNeverGoesBack
<1>1. MirrorInv /\ [Next]_vars => [NoTableGoesBack]_vars
  BY StepGoesOn
<1>. QED BY <1>1, Inductive, PTL DEF Spec, MirrorNeverGoesBack, NoTableGoesBack

-----------------------------------------------------------------------------
(* Over a quiet book the mirror is a backup                                *)

Whole == INSTANCE Backup WITH copy <- mirror, at <- mirroredAt["Setting"]

\* A sync that is in the middle of its reads has read all it has from the book
\* as it is now; one that is through them, from the book as it was then.
ReadTogether(s) ==
  pc[s] = "copying" =>
    /\ \A i \in 1 .. Len(SYNC_TABLES) :
         i <= copied[s] => readAt[s][SYNC_TABLES[i]] = readAt[s]["Setting"]
    /\ copied[s] \notin {0, Len(SYNC_TABLES)} => readAt[s]["Setting"] = Len(past)

MirrorTogether == \A table \in TableNames : mirroredAt[table] = mirroredAt["Setting"]

QuietInv ==
  /\ MirrorInv
  /\ MirrorTogether
  /\ \A s \in Syncs : ReadTogether(s)

\* Steps in which no sync begins, copies or commits.
LEMMA OthersStayTogether ==
  ASSUME QuietInv, MirrorInv', UNCHANGED mirroredAt,
         \A r \in Syncs : pc'[r] = "copying" =>
           /\ pc[r] = "copying" /\ copied'[r] = copied[r] /\ readAt'[r] = readAt[r]
           /\ copied[r] \in {0, Len(SYNC_TABLES)} \/ Len(past') = Len(past)
  PROVE  QuietInv'
<1>1. MirrorTogether'
  BY DEF QuietInv, MirrorTogether
<1>2. ASSUME NEW s \in Syncs PROVE ReadTogether(s)'
  BY DEF QuietInv, ReadTogether
<1>. QED BY <1>1, <1>2 DEF QuietInv

LEMMA CopyStaysTogether ==
  ASSUME QuietInv, MirrorInv', NEW s \in Syncs, CopyTable(s)
  PROVE  QuietInv'
<1>. USE DEF remote
<1>1. /\ pc[s] = "copying" /\ copied[s] < Len(SYNC_TABLES) /\ SyncsTyped
      /\ UNCHANGED <<past, mirroredAt, pc>>
      /\ readAt' = [readAt EXCEPT ![s][NextTable(s)] = Len(past)]
      /\ copied' = [copied EXCEPT ![s] = @ + 1]
  BY DEF CopyTable, QuietInv, MirrorInv
<1>2. PICK k \in 0 .. 6 : k = copied[s]
  BY <1>1, SevenTables DEF SyncsTyped
<1>3. PICK T \in TableNames : T = SYNC_TABLES[k + 1] /\ T = NextTable(s)
  BY <1>1, <1>2, CopyIsRows DEF NextTable, QuietInv
<1>4. /\ readAt'[s][T] = Len(past)
      /\ \A table \in TableNames \ {T} : readAt'[s][table] = readAt[s][table]
      /\ \A r \in Syncs \ {s} : readAt'[r] = readAt[r] /\ copied'[r] = copied[r]
      /\ copied'[s] = k + 1
  BY <1>1, <1>2, <1>3 DEF SyncsTyped
<1>5. ASSUME NEW i \in 1 .. Len(SYNC_TABLES), i <= k + 1
      PROVE  readAt'[s][SYNC_TABLES[i]] = Len(past)
  <2>1. /\ i \in 1 .. 7 /\ k + 1 \in 1 .. 7 /\ i \in DOMAIN SYNC_TABLES
        /\ i = k + 1 \/ (i <= k /\ k # 0 /\ k # 7)
    BY <1>2, <1>5, SevenTables DEF SYNC_TABLES
  <2>2. CASE i = k + 1
    BY <1>3, <1>4, <2>2
  <2>3. CASE i <= k /\ i # k + 1 /\ k # 0 /\ k # 7
    <3>1. SYNC_TABLES[i] \in TableNames \ {T}
      BY <1>3, <2>1, <2>3, TablesDiffer DEF TableNames
    <3>2. readAt[s][SYNC_TABLES[i]] = Len(past)
      BY <1>1, <1>2, <2>3, SevenTables DEF QuietInv, ReadTogether
    <3>. QED BY <1>4, <3>1, <3>2
  <2>. QED BY <2>1, <2>2, <2>3
<1>6. readAt'[s]["Setting"] = Len(past)
  <2>1. 1 \in 1 .. Len(SYNC_TABLES) /\ 1 <= k + 1
    BY <1>2, SevenTables
  <2>. QED BY <1>5, <2>1, SevenTables
<1>7. ReadTogether(s)'
  BY <1>1, <1>4, <1>5, <1>6 DEF ReadTogether
<1>8. ASSUME NEW r \in Syncs \ {s} PROVE ReadTogether(r)'
  BY <1>1, <1>4 DEF QuietInv, ReadTogether
<1>9. MirrorTogether'
  BY <1>1 DEF QuietInv, MirrorTogether
<1>. QED BY <1>7, <1>8, <1>9 DEF QuietInv

LEMMA CommitIsWhole ==
  ASSUME QuietInv, NEW s \in Syncs, Commit(s)
  PROVE  /\ MirrorTogether'
         /\ \E i \in mirroredAt["Setting"] .. Len(past) : mirror' = past[i] /\ mirroredAt'["Setting"] = i
<1>1. /\ pc[s] = "copying" /\ copied[s] = Len(SYNC_TABLES) /\ past' = past
      /\ mirror' = work[s] /\ mirroredAt' = readAt[s] /\ MirrorInv
  BY DEF Commit, QuietInv
<1>2. "Setting" \in TableNames
  BY SevenTables
<1>3. MirrorTogether'
  <2>1. ASSUME NEW table \in TableNames PROVE readAt[s][table] = readAt[s]["Setting"]
    <3>1. PICK i \in 1 .. Len(SYNC_TABLES) : table = SYNC_TABLES[i]
      BY SevenTables
    <3>2. i <= copied[s]
      BY <1>1, SevenTables
    <3>. QED BY <1>1, <3>1, <3>2 DEF QuietInv, ReadTogether
  <2>. QED BY <1>1, <2>1 DEF MirrorTogether
<1>4. PICK k \in DOMAIN past : k = mirroredAt'["Setting"]
  BY <1>1, <1>2 DEF MirrorInv, SyncsTyped
<1>5. /\ MirrorWhole' /\ k >= mirroredAt["Setting"] /\ mirroredAt["Setting"] \in Nat
      /\ k \in Nat /\ k <= Len(past)
  BY <1>1, <1>2, <1>4, CommitWhole, LocalTyped DEF MirrorInv, PastInv, MirrorWhole
<1>6. mirror' = past[k]
  <2>1. \A table \in TableNames : mirror'[table] = past[k][table]
    BY <1>1, <1>3, <1>4, <1>5 DEF MirrorWhole, MirrorTogether
  <2>2. past[k] \in Database /\ mirror' \in Database
    BY <1>1, <1>4, <1>5, ElementOfSeq, LocalTyped DEF MirrorInv, PastInv, MirrorWhole
  <2>. QED BY <2>1, <2>2, SevenTables DEF Database
<1>7. k \in mirroredAt["Setting"] .. Len(past)
  BY <1>1, <1>5, LocalTyped DEF MirrorInv, PastInv
<1>. QED BY <1>3, <1>4, <1>6, <1>7

LEMMA WriteIsChange ==
  ASSUME MirrorInv, NEW db, Write(db)
  PROVE  Whole!Change
<1>1. past \in Seq(Database) /\ past' = Append(past, db) /\ mirror' = mirror /\ mirroredAt' = mirroredAt
  BY DEF MirrorInv, PastInv, Write, remote
<1>2. past \in Seq(Database \cup {db}) /\ Len(past) \in Nat
  BY <1>1, ElementOfSeq, LenProperties
<1>3. Len(past') = Len(past) + 1 /\ \A i \in 1 .. Len(past) : past'[i] = past[i]
  BY <1>1, <1>2
<1>. QED BY <1>1, <1>3 DEF Whole!Change

LEMMA LocalWritesAre == LocalWrites => \E db : Write(db)
BY DEF LocalWrites, ChangeRate, SaveUser, SaveCollector, CashEntry, CreateFight, PlaceBet, ResetSession

LEMMA InitQuiet == Init => QuietInv /\ Whole!Init
<1>. SUFFICES ASSUME Init PROVE QuietInv /\ Whole!Init
  OBVIOUS
<1>1. MirrorInv /\ "Setting" \in TableNames
  BY InitMirror, SevenTables
<1>2. past = <<EmptyDatabase>> /\ mirror = EmptyDatabase /\ \A table \in TableNames : mirroredAt[table] = 1
  BY DEF Init, NoReads
<1>3. \A s \in Syncs : pc[s] # "copying"
  BY DEF Init
<1>4. QuietInv
  BY <1>1, <1>2, <1>3 DEF QuietInv, MirrorTogether, ReadTogether
<1>5. Whole!Init
  BY <1>1, <1>2 DEF Whole!Init
<1>. QED BY <1>4, <1>5

LEMMA QuietStep ==
  QuietInv /\ [Next /\ Quiet]_vars => QuietInv' /\ [Whole!Change \/ Whole!Renew]_(Whole!vars)
<1>. SUFFICES ASSUME QuietInv, [Next /\ Quiet]_vars
              PROVE  QuietInv' /\ [Whole!Change \/ Whole!Renew]_(Whole!vars)
  OBVIOUS
<1>. USE DEF remote
<1>1. MirrorInv /\ MirrorInv' /\ SyncsTyped
  BY NextMirror DEF QuietInv, MirrorInv
<1>2. ASSUME UNCHANGED <<past, mirror, mirroredAt>> PROVE UNCHANGED Whole!vars
  BY <1>2 DEF Whole!vars
<1>3. CASE LocalWrites /\ Quiet
  <2>1. PICK db : Write(db)
    BY <1>3, LocalWritesAre
  <2>2. Whole!Change
    BY <1>1, <2>1, WriteIsChange
  <2>3. Len(past') # Len(past)
    <3>1. Len(past) \in Nat
      BY <1>1, LocalTyped DEF MirrorInv, PastInv
    <3>. QED BY <2>2, <3>1 DEF Whole!Change
  <2>4. \A s \in Syncs : pc[s] = "copying" => copied[s] \in {0, Len(SYNC_TABLES)}
    BY <1>3, <2>3 DEF Quiet
  <2>5. UNCHANGED <<mirroredAt, pc, copied, readAt>>
    BY <2>1 DEF Write, attempt
  <2>6. QuietInv'
    BY <1>1, <2>4, <2>5, OthersStayTogether
  <2>. QED BY <2>2, <2>6
<1>4. ASSUME NEW s \in Syncs, Begin(s)
      PROVE  QuietInv' /\ UNCHANGED Whole!vars
  <2>1. UNCHANGED <<past, mirror, mirroredAt>> /\ copied'[s] = 0
    BY <1>1, <1>4 DEF Begin, SyncsTyped
  <2>2. \A r \in Syncs : pc'[r] = "copying" => r = s
    BY <1>1, <1>4 DEF Begin, SyncsTyped, RemoteFree
  <2>3. \A r \in Syncs : ReadTogether(r)'
    <3>1. \A i \in 1 .. Len(SYNC_TABLES) : ~(i <= 0)
      BY SevenTables
    <3>. QED BY <2>1, <2>2, <3>1 DEF ReadTogether
  <2>4. MirrorTogether'
    BY <2>1 DEF QuietInv, MirrorTogether
  <2>. QED BY <1>1, <1>2, <2>1, <2>3, <2>4 DEF QuietInv
<1>5. ASSUME NEW s \in Syncs, CopyTable(s)
      PROVE  QuietInv' /\ UNCHANGED Whole!vars
  BY <1>1, <1>2, <1>5, CopyStaysTogether DEF CopyTable
<1>6. ASSUME NEW s \in Syncs, Commit(s)
      PROVE  QuietInv' /\ Whole!Renew
  <2>1. UNCHANGED past
    BY <1>6 DEF Commit
  <2>2. \A r \in Syncs : pc'[r] # "copying"
    BY <1>1, <1>6, FinishedTyped DEF Commit, Outcomes, MirrorInv, OneCopies
  <2>3. QuietInv'
    BY <1>1, <1>6, <2>2, CommitIsWhole DEF QuietInv, ReadTogether
  <2>4. Whole!Renew
    BY <1>6, <2>1, CommitIsWhole DEF Whole!Renew
  <2>. QED BY <2>3, <2>4
<1>7. ASSUME UNCHANGED <<past, mirror, mirroredAt>>,
             \A r \in Syncs : pc'[r] = "copying" =>
               pc[r] = "copying" /\ copied'[r] = copied[r] /\ readAt'[r] = readAt[r]
      PROVE  QuietInv' /\ UNCHANGED Whole!vars
  BY <1>1, <1>2, <1>7, OthersStayTogether
<1>8. CASE StartAuto
  BY <1>1, <1>7, <1>8 DEF StartAuto, Starts, SyncsTyped
<1>9. ASSUME NEW s \in Syncs, StartManual(s) \/ Unreachable(s) \/ Fails(s) \/ Save(s) \/ SaveFails(s)
      PROVE  QuietInv' /\ UNCHANGED Whole!vars
  <2>1. UNCHANGED <<past, mirror, mirroredAt>>
    BY <1>9 DEF StartManual, Starts, Unreachable, Fails, Save, SaveFails
  <2>2. CASE Fails(s)
    <3>1. "failed" \in Outcomes /\ Finished(s, "failed")
      BY <2>2 DEF Outcomes, Fails
    <3>2. \A r \in Syncs : pc'[r] = "copying" => r \in Syncs \ {s}
      BY <1>1, <3>1, FinishedTyped
    <3>. QED BY <1>1, <1>7, <2>1, <3>1, <3>2, FinishedTyped
  <2>3. CASE StartManual(s) \/ Unreachable(s)
    BY <1>1, <1>7, <2>1, <2>3 DEF StartManual, Starts, Unreachable, SyncsTyped
  <2>4. CASE Save(s) \/ SaveFails(s)
    BY <1>1, <1>7, <2>1, <2>4 DEF Save, SaveFails, SyncsTyped
  <2>. QED BY <1>9, <2>2, <2>3, <2>4
<1>10. CASE GoOffline \/ GoOnline \/ Restart
  BY <1>7, <1>10 DEF GoOffline, GoOnline, Restart, attempt
<1>11. CASE UNCHANGED vars
  BY <1>7, <1>11 DEF vars, attempt
<1>12. CASE Next /\ Quiet
  <2>1. CASE LocalWrites
    BY <1>3, <1>12, <2>1
  <2>2. CASE \E s \in Syncs : Syncing(s)
    BY <1>4, <1>5, <1>6, <1>9, <2>2 DEF Syncing
  <2>. QED BY <1>8, <1>10, <1>12, <2>1, <2>2 DEF Next
<1>. QED BY <1>11, <1>12

(***************************************************************************)
(* Backup is implemented: for any number of syncs, faults and restarts, as *)
(* long as nothing is written locally between the reads of one sync, the   *)
(* mirror is always a whole state of the book and only moves on to later   *)
(* ones.                                                                   *)
(***************************************************************************)
THEOREM QuietIsBackup == QuietSpec => Whole!Spec
BY InitQuiet, QuietStep, PTL DEF QuietSpec, Whole!Spec
=============================================================================
