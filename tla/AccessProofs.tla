---------------------------- MODULE AccessProofs ----------------------------
(***************************************************************************)
(* Who may come in, and who stays.  Collectors stay different from each    *)
(* other for every instance: any names that normalising leaves normal, any *)
(* badges, any number of collectors and of requests that overlap.  And for *)
(* any number of connections and of changes the hub keeps its promises to  *)
(* its kiosks: no frame slips through while a kiosk connects, and no timer *)
(* closes the socket of a kiosk that answers.                              *)
(***************************************************************************)
EXTENDS Accounts, WsHub, TLAPS

-----------------------------------------------------------------------------
(* Collectors                                                              *)

Names == {Normal[n] : n \in RawNames}
Collector == [name : Names, active : BOOLEAN, code : Badges]

\* A request for a new collector once its badge is drawn.
Drawn == [op : {"newCollector"}, collector : Collectors, name : RawNames, code : Badges]

\* What a request may be between two of its steps.
Pending ==
  [step : {"sent", "in"}, by : Usernames, ask : Requests]
    \cup [step : {"checked"}, by : Usernames,
          ask : Drawn \cup {r \in Requests : r.op # "newCollector"}]

CallsTyped == call \in [Calls -> {Idle} \cup Pending]
CollectorsTyped == collectors \in [DOMAIN collectors -> Collector]

\* No two rows with one name or one badge, as the unique indexes have it.
RowsDiffer ==
  \A k, l \in DOMAIN collectors :
    k # l => /\ collectors[k].name # collectors[l].name
             /\ collectors[k].code # collectors[l].code

CollectorInv == CallsTyped /\ CollectorsTyped /\ RowsDiffer

-----------------------------------------------------------------------------
(* What requests ask for                                                   *)

\* Only two kinds of requests write collectors, and they have these fields.
LEMMA CollectorRequests ==
  ASSUME NEW r \in Requests
  PROVE  /\ r.op = "newCollector" =>
              r \in [op : {"newCollector"}, collector : Collectors, name : RawNames]
         /\ r.op = "editCollector" =>
              r \in [op : {"editCollector"}, collector : Collectors,
                     name : RawNames \cup {Same}, active : {{}, {TRUE}, {FALSE}}]
BY DEF Requests, UserAsks, PasswordAsks, CollectorAsks, CashAsks

\* A request that waits for its insert has drawn its badge.
LEMMA DrawnRequest ==
  ASSUME CallsTyped, NEW c \in Calls, Asks(c, "newCollector", "checked")
  PROVE  call[c].ask \in Drawn
BY DEF CallsTyped, Asks, Pending, Idle

\* A request in its service came as it was sent.
LEMMA ServedRequest ==
  ASSUME CallsTyped, NEW c \in Calls, call[c].step \in {"sent", "in"}
  PROVE  call[c].by \in Usernames /\ call[c].ask \in Requests
BY DEF CallsTyped, Pending, Idle

\* Names in the table are normal.
LEMMA NormalNames == \A n \in Names : Normal[n] = n
BY AccountsAssumption DEF Names

-----------------------------------------------------------------------------
(* Steps of requests                                                       *)

\* A request that ends, or goes on as it is, keeps the shape of requests.
LEMMA EndKeepsCalls ==
  ASSUME CallsTyped, NEW c \in Calls, Ends(c)
  PROVE  CallsTyped'
BY DEF CallsTyped, Ends

LEMMA GoInKeepsCalls ==
  ASSUME CallsTyped, NEW c \in Calls, call[c].step = "sent", Goes(c, "in")
  PROVE  CallsTyped'
<1>1. call[c].by \in Usernames /\ call[c].ask \in Requests
  BY ServedRequest
<1>2. [step |-> "in", by |-> call[c].by, ask |-> call[c].ask] \in Pending
  BY <1>1 DEF Pending
<1>. QED BY <1>2 DEF CallsTyped, Goes

LEMMA CheckKeepsCalls ==
  ASSUME CallsTyped, NEW c \in Calls, call[c].step = "in",
         call[c].ask.op # "newCollector", Goes(c, "checked")
  PROVE  CallsTyped'
<1>1. call[c].by \in Usernames /\ call[c].ask \in Requests
  BY ServedRequest
<1>2. [step |-> "checked", by |-> call[c].by, ask |-> call[c].ask] \in Pending
  BY <1>1 DEF Pending
<1>. QED BY <1>2 DEF CallsTyped, Goes

\* A step that leaves the collectors alone keeps what is said of them.
LEMMA RowsKept ==
  ASSUME CollectorsTyped, RowsDiffer, UNCHANGED collectors
  PROVE  CollectorsTyped' /\ RowsDiffer'
BY DEF CollectorsTyped, RowsDiffer

\* The badge drawn is written into the request, not yet into the table.
LEMMA DrawKeepsInv ==
  ASSUME CollectorInv, NEW c \in Calls, DrawBadge(c)
  PROVE  CollectorInv'
<1>. USE DEF CollectorInv
<1>1. CollectorsTyped' /\ RowsDiffer'
  BY RowsKept DEF DrawBadge
<1>2. CASE Ends(c)
  BY <1>1, <1>2, EndKeepsCalls
<1>3. ASSUME NEW b \in Badges,
             call' = [call EXCEPT ![c] = [step |-> "checked", by |-> @.by,
                        ask |-> [op |-> "newCollector", collector |-> @.ask.collector,
                                 name |-> @.ask.name, code |-> b]]]
      PROVE  CollectorInv'
  <2>1. call[c].by \in Usernames /\ call[c].ask \in Requests
    BY ServedRequest DEF DrawBadge, Asks
  <2>2. call[c].ask.collector \in Collectors /\ call[c].ask.name \in RawNames
    BY <2>1, CollectorRequests DEF DrawBadge, Asks
  <2>3. [op |-> "newCollector", collector |-> call[c].ask.collector,
         name |-> call[c].ask.name, code |-> b] \in Drawn
    BY <2>2 DEF Drawn
  <2>4. [step |-> "checked", by |-> call[c].by,
         ask |-> [op |-> "newCollector", collector |-> call[c].ask.collector,
                  name |-> call[c].ask.name, code |-> b]] \in Pending
    BY <2>1, <2>3 DEF Pending
  <2>. QED BY <1>1, <1>3, <2>4 DEF CallsTyped
<1>. QED BY <1>2, <1>3 DEF DrawBadge

\* The insert is refused if the name, normalised, or the badge is taken.
LEMMA InsertKeepsInv ==
  ASSUME CollectorInv, NEW c \in Calls, InsertCollector(c)
  PROVE  CollectorInv'
<1>. DEFINE ask == call[c].ask
            row == [name |-> Normal[ask.name], active |-> TRUE, code |-> ask.code]
<1>. USE DEF CollectorInv
<1>1. CallsTyped'
  BY EndKeepsCalls DEF InsertCollector, WritesCollectors
<1>2. CASE UNCHANGED collectors
  BY <1>1, <1>2, RowsKept
<1>3. CASE /\ ask.collector \notin DOMAIN collectors
           /\ ~NameTaken(Normal[ask.name], ask.collector)
           /\ ~BadgeTaken(ask.code)
           /\ collectors' = WithCollector(ask.collector, row)
  <2>1. ask \in Drawn
    BY DrawnRequest DEF InsertCollector
  <2>2. row \in Collector
    BY <2>1 DEF Drawn, Collector, Names
  <2>3. collectors' = [k \in DOMAIN collectors \cup {ask.collector} |->
                         IF k = ask.collector THEN row ELSE collectors[k]]
    BY <1>3 DEF WithCollector
  <2>. HIDE DEF row
  <2>4. CollectorsTyped'
    BY <2>2, <2>3 DEF CollectorsTyped
  <2>5. \A k \in DOMAIN collectors : /\ collectors[k].name # row.name
                                     /\ collectors[k].code # row.code
    BY <1>3 DEF NameTaken, BadgeTaken, row
  <2>6. RowsDiffer'
    BY <2>3, <2>5 DEF RowsDiffer
  <2>. QED BY <1>1, <2>4, <2>6
<1>. QED BY <1>2, <1>3 DEF InsertCollector

\* A collector is renamed only to a name that, normalised, nobody else has.
LEMMA UpdateKeepsInv ==
  ASSUME CollectorInv, NEW c \in Calls, UpdateCollector(c)
  PROVE  CollectorInv'
<1>. DEFINE ask == call[c].ask
            k == ask.collector
            named == ask.name # Same
            name == IF named THEN Normal[ask.name] ELSE collectors[k].name
            active == IF ask.active = {} THEN collectors[k].active ELSE TRUE \in ask.active
            row == [name |-> name, active |-> active, code |-> collectors[k].code]
<1>. USE DEF CollectorInv
<1>1. CallsTyped'
  BY EndKeepsCalls DEF UpdateCollector, WritesCollectors
<1>2. CASE UNCHANGED collectors
  BY <1>1, <1>2, RowsKept
<1>3. CASE /\ k \in DOMAIN collectors
           /\ named => ~NameTaken(Normal[ask.name], k)
           /\ collectors' = [collectors EXCEPT ![k] = row]
  <2>1. ask \in [op : {"editCollector"}, collector : Collectors,
                 name : RawNames \cup {Same}, active : {{}, {TRUE}, {FALSE}}]
    BY ServedRequest, CollectorRequests DEF UpdateCollector, Asks
  <2>2. collectors[k] \in Collector
    BY <1>3 DEF CollectorsTyped
  <2>3. named => Normal[ask.name] \in Names
    BY <2>1 DEF Names
  <2>4. row \in Collector
    <3>1. /\ collectors[k].name \in Names
          /\ collectors[k].active \in BOOLEAN
          /\ collectors[k].code \in Badges
      BY <2>2 DEF Collector
    <3>2. name \in Names
      <4>1. CASE named
        BY <2>3, <4>1
      <4>2. CASE ~named
        BY <3>1, <4>2
      <4>. QED BY <4>1, <4>2
    <3>3. active \in BOOLEAN
      <4>1. CASE ask.active = {}
        BY <3>1, <4>1
      <4>2. CASE ask.active # {}
        <5>1. active = (TRUE \in ask.active)
          BY <4>2
        <5>2. (TRUE \in ask.active) \in BOOLEAN
          OBVIOUS
        <5>. HIDE DEF active
        <5>. QED BY <5>1, <5>2, Zenon
      <4>. QED BY <4>1, <4>2
    <3>. HIDE DEF name, active
    <3>. QED BY <3>1, <3>2, <3>3 DEF Collector
  <2>5. \A l \in DOMAIN collectors \ {k} : /\ collectors[l].name # row.name
                                           /\ collectors[l].code # row.code
    BY <1>3, <2>4 DEF NameTaken, RowsDiffer
  <2>. HIDE DEF row
  <2>6. CollectorsTyped'
    BY <1>3, <2>4 DEF CollectorsTyped
  <2>7. RowsDiffer'
    BY <1>3, <2>5 DEF RowsDiffer, CollectorsTyped
  <2>. QED BY <1>1, <2>6, <2>7
<1>. QED BY <1>2, <1>3 DEF UpdateCollector

-----------------------------------------------------------------------------

LEMMA InitInv == Init => CollectorInv
<1>. SUFFICES ASSUME Init PROVE CollectorInv
  OBVIOUS
<1>1. CallsTyped
  BY DEF Init, CallsTyped
<1>2. DOMAIN collectors = {}
  BY DEF Init
<1>. QED BY <1>1, <1>2 DEF Init, CollectorInv, CollectorsTyped, RowsDiffer

LEMMA ServeKeepsInv ==
  ASSUME CollectorInv, NEW c \in Calls, Serve(c)
  PROVE  CollectorInv'
<1>. USE DEF CollectorInv
<1>1. CASE Authenticate(c)
  BY <1>1, RowsKept, EndKeepsCalls, GoInKeepsCalls DEF Authenticate, Reads
<1>2. CASE CreateUser(c)
  BY <1>2, RowsKept, EndKeepsCalls DEF CreateUser, WritesUsers
<1>3. CASE UpdateUser(c)
  BY <1>3, RowsKept, EndKeepsCalls DEF UpdateUser, WritesUsers
<1>4. CASE ResetPassword(c)
  BY <1>4, RowsKept, EndKeepsCalls DEF ResetPassword, WritesUsers
<1>5. CASE ChangeLook(c)
  BY <1>5, RowsKept, EndKeepsCalls, CheckKeepsCalls DEF ChangeLook, ReadsOn, Asks
<1>6. CASE ChangeWrite(c)
  BY <1>6, RowsKept, EndKeepsCalls DEF ChangeWrite, WritesUsers
<1>7. CASE DrawBadge(c)
  BY <1>7, DrawKeepsInv
<1>8. CASE InsertCollector(c)
  BY <1>8, InsertKeepsInv
<1>9. CASE UpdateCollector(c)
  BY <1>9, UpdateKeepsInv
<1>10. CASE FindParties(c)
  BY <1>10, RowsKept, EndKeepsCalls, CheckKeepsCalls DEF FindParties, ReadsOn, Asks
<1>11. CASE PostEntry(c)
  BY <1>11, RowsKept, EndKeepsCalls DEF PostEntry
<1>12. CASE GivesUp(c)
  BY <1>12, RowsKept, EndKeepsCalls DEF GivesUp
<1>. QED BY <1>1, <1>2, <1>3, <1>4, <1>5, <1>6, <1>7, <1>8, <1>9, <1>10, <1>11, <1>12 DEF Serve

LEMMA NextInv == CollectorInv /\ [Next]_vars => CollectorInv'
<1>. SUFFICES ASSUME CollectorInv, [Next]_vars PROVE CollectorInv'
  OBVIOUS
<1>. USE DEF CollectorInv
<1>1. CASE SuperLogin
  BY <1>1, RowsKept DEF SuperLogin, CallsTyped
<1>2. ASSUME NEW u \in Usernames, Logout(u) PROVE CollectorInv'
  BY <1>2, RowsKept DEF Logout, CallsTyped
<1>3. ASSUME NEW u \in Usernames, NEW p \in Passwords, Login(u, p) PROVE CollectorInv'
  BY <1>3, RowsKept DEF Login, CallsTyped
<1>4. ASSUME NEW c \in Calls, NEW u \in Usernames, NEW r \in Requests, Send(c, u, r)
      PROVE  CollectorInv'
  <2>1. [step |-> "sent", by |-> u, ask |-> r] \in Pending
    BY DEF Pending
  <2>2. CallsTyped'
    BY <1>4, <2>1 DEF Send, CallsTyped
  <2>. QED BY <1>4, <2>2, RowsKept DEF Send
<1>5. ASSUME NEW c \in Calls, Serve(c) PROVE CollectorInv'
  BY <1>5, ServeKeepsInv
<1>6. CASE UNCHANGED vars
  BY <1>6, RowsKept DEF vars, CallsTyped
<1>. QED BY <1>1, <1>2, <1>3, <1>4, <1>5, <1>6 DEF Next, Office

LEMMA InvSuffices == CollectorInv => CollectorsDiffer
<1>. SUFFICES ASSUME CollectorInv, NEW k \in DOMAIN collectors, NEW l \in DOMAIN collectors, k # l
              PROVE  /\ collectors[k].name # collectors[l].name
                     /\ collectors[k].code # collectors[l].code
                     /\ Normal[collectors[k].name] # Normal[collectors[l].name]
  BY DEF CollectorsDiffer
<1>1. collectors[k].name \in Names /\ collectors[l].name \in Names
  BY DEF CollectorInv, CollectorsTyped, Collector
<1>. QED BY <1>1, NormalNames DEF CollectorInv, RowsDiffer

(***************************************************************************)
(* No two collectors ever have one name, typed however, or one badge,      *)
(* whatever creations and renamings overlap (collectors.service.js: the    *)
(* unique indexes decide, on names normalizeName has made).                *)
(***************************************************************************)
THEOREM DifferentCollectors == Spec => []CollectorsDiffer
<1>1. Init => CollectorInv
  BY InitInv
<1>2. CollectorInv /\ [Next]_vars => CollectorInv'
  BY NextInv
<1>3. CollectorInv => CollectorsDiffer
  BY InvSuffices
<1>. QED BY <1>1, <1>2, <1>3, PTL DEF Spec

-----------------------------------------------------------------------------
(* The connections of the hub                                              *)

HubTyped ==
  /\ db \in Nat /\ sent \in Nat /\ outbox \subseteq Nat
  /\ DOMAIN phase = Conns /\ DOMAIN socket = Conns
  /\ snapshot \in [Conns -> Int] /\ newest \in [Conns -> Int]
  /\ pingTimer \in [Conns -> Int] /\ owes \in [Conns -> Int]
  /\ deadlines \in [Conns -> SUBSET Int]
  /\ pongDeadline \in [Conns -> BOOLEAN]

-----------------------------------------------------------------------------
(* The feed                                                                *)

\* No frame tells of what is not committed.
FramesFromDb == sent <= db /\ \A v \in outbox : v <= db

\* An open socket is in the broadcast set from its authentication on.
OpenJoined(c) ==
  phase[c] \in {"loading", "loaded", "served"} /\ socket[c] = "OPEN" => c \in wsClients

\* The snapshot is read in one place.
NotLoadedYet(c) == phase[c] \in {"new", "authenticating", "loading"} => snapshot[c] = NoFrame

\* What a kiosk got, or will get when it is welcomed, is as new as anything sent.
LoadedUpToDate(c) ==
  socket[c] = "OPEN" /\ snapshot[c] # NoFrame =>
    /\ phase[c] = "loaded" => newest[c] >= sent \/ snapshot[c] >= sent
    /\ phase[c] = "served" => newest[c] >= sent

FeedInv ==
  /\ HubTyped
  /\ FramesFromDb
  /\ \A c \in Conns : OpenJoined(c) /\ NotLoadedYet(c) /\ LoadedUpToDate(c)

\* The steps that touch the tables, timers and sockets of no feed.
LEMMA FeedIdle ==
  ASSUME FeedInv, HubTyped',
         UNCHANGED <<feed, wsClients, phase, snapshot, newest>>,
         \A c \in Conns : socket'[c] = "OPEN" => socket[c] = "OPEN"
  PROVE  FeedInv'
BY DEF FeedInv, feed, FramesFromDb, OpenJoined, NotLoadedYet, LoadedUpToDate

LEMMA NextTyped == HubTyped /\ [HubNext]_hubVars => HubTyped'
<1>. SUFFICES ASSUME HubTyped, [HubNext]_hubVars PROVE HubTyped'
  OBVIOUS
<1>. USE DEF HubTyped, feed, keepalive
<1>1. CASE Commit
  <2>1. db' \in Nat /\ outbox' \subseteq Nat
    BY <1>1, db + 1 \in Nat DEF Commit
  <2>2. UNCHANGED <<sent, phase, socket, snapshot, newest, keepalive>>
    BY <1>1 DEF Commit
  <2>. QED BY <2>1, <2>2
<1>2. ASSUME NEW v \in outbox, Broadcast(v) PROVE HubTyped'
  <2>1. v \in Nat /\ MaxOf(sent, v) \in Nat /\ \A c \in Conns : MaxOf(newest[c], v) \in Int
    BY DEF MaxOf
  <2>. QED BY <1>2, <2>1 DEF Broadcast
<1>3. ASSUME NEW c \in Conns, Handling(c) PROVE HubTyped'
  <2>1. CASE Connect(c)
    BY <2>1 DEF Connect
  <2>2. CASE Refuse(c)
    BY <2>2 DEF Refuse
  <2>3. CASE Admit(c)
    BY <2>3 DEF Admit
  <2>4. CASE LoadSnapshot(c)
    BY <2>4 DEF LoadSnapshot
  <2>5. CASE SnapshotFails(c)
    BY <2>5 DEF SnapshotFails
  <2>6. CASE Welcome(c)
    <3>1. MaxOf(newest[c], snapshot[c]) \in Int
      BY DEF MaxOf
    <3>. QED BY <2>6, <3>1 DEF Welcome, PING_INTERVAL
  <2>. QED BY <1>3, <2>1, <2>2, <2>3, <2>4, <2>5, <2>6 DEF Handling
<1>4. ASSUME NEW c \in Conns, Timing(c) \/ CloseEvent(c) \/ Peer(c) PROVE HubTyped'
  <2>1. CASE SendPing(c)
    BY <2>1 DEF SendPing, PING_INTERVAL, PING_TIMEOUT, Off
  <2>2. CASE PongTimeout(c)
    BY <2>2 DEF PongTimeout
  <2>3. CASE CloseEvent(c)
    <3>1. CASE phase[c] = "served"
      <4>1. DOMAIN socket' = Conns
        BY <2>3 DEF CloseEvent
      <4>2. /\ pingTimer' = [pingTimer EXCEPT ![c] = Off]
            /\ pongDeadline' = [pongDeadline EXCEPT ![c] = FALSE]
        BY <2>3, <3>1 DEF CloseEvent, Cleanup
      <4>3. PICK left \in SUBSET Int : deadlines' = [deadlines EXCEPT ![c] = left]
        <5>. DEFINE earlier == {d \in deadlines[c] : \E e \in deadlines[c] : d < e}
        <5>1. earlier \in SUBSET Int /\ deadlines[c] \in SUBSET Int
          OBVIOUS
        <5>2. deadlines' = [deadlines EXCEPT ![c] = IF pongDeadline[c] THEN earlier ELSE @]
          BY <2>3, <3>1 DEF CloseEvent, Cleanup
        <5>. HIDE DEF earlier
        <5>. QED BY <5>1, <5>2
      <4>. QED BY <2>3, <4>1, <4>2, <4>3 DEF CloseEvent, Off
    <3>2. CASE phase[c] # "served"
      BY <2>3, <3>2 DEF CloseEvent
    <3>. QED BY <3>1, <3>2
  <2>4. CASE Pong(c)
    BY <2>4 DEF Pong, Off
  <2>5. CASE PeerCloses(c) \/ PeerVanishes(c)
    BY <2>5 DEF PeerCloses, PeerVanishes
  <2>. QED BY <1>4, <2>1, <2>2, <2>3, <2>4, <2>5 DEF Timing, Peer
<1>5. CASE Tick
  BY <1>5 DEF Tick, Off
<1>6. CASE Restart
  BY <1>6 DEF Restart, Off
<1>7. CASE UNCHANGED hubVars
  BY <1>7 DEF hubVars
<1>. QED BY <1>1, <1>2, <1>3, <1>4, <1>5, <1>6, <1>7 DEF HubNext

LEMMA NextFeed == FeedInv /\ [HubNext]_hubVars => FeedInv'
<1>. SUFFICES ASSUME FeedInv, [HubNext]_hubVars PROVE FeedInv'
  OBVIOUS
<1>0. HubTyped /\ HubTyped'
  BY NextTyped DEF FeedInv
<1>1. CASE Commit
  BY <1>0, <1>1 DEF Commit, HubTyped, FeedInv, FramesFromDb, OpenJoined, NotLoadedYet,
    LoadedUpToDate
<1>2. ASSUME NEW v \in outbox, Broadcast(v) PROVE FeedInv'
  <2>1. /\ v \in Nat /\ v <= db
        /\ sent' \in Nat /\ sent' <= db
        /\ (sent' = v /\ v >= sent) \/ (sent' = sent /\ sent >= v)
    BY <1>0, <1>2 DEF Broadcast, MaxOf, HubTyped, FeedInv, FramesFromDb
  <2>2. UNCHANGED <<db, phase, socket, snapshot>> /\ outbox' \subseteq outbox
    BY <1>2 DEF Broadcast
  <2>3. ASSUME NEW c \in Conns
        PROVE  OpenJoined(c)' /\ NotLoadedYet(c)' /\ LoadedUpToDate(c)'
    <3>1. OpenJoined(c) /\ NotLoadedYet(c) /\ LoadedUpToDate(c)
      BY DEF FeedInv
    <3>2. OpenJoined(c)' /\ NotLoadedYet(c)'
      BY <1>2, <2>2, <3>1 DEF Broadcast, OpenJoined, NotLoadedYet
    <3>3. ASSUME phase[c] \in {"loaded", "served"}, socket[c] = "OPEN"
          PROVE  newest'[c] >= v /\ newest'[c] >= newest[c]
      BY <1>0, <1>2, <2>1, <3>1, <3>3 DEF Broadcast, OpenJoined, MaxOf, HubTyped
    <3>4. newest[c] \in Int /\ newest'[c] \in Int /\ snapshot[c] \in Int /\ sent \in Nat
      BY <1>0 DEF HubTyped
    <3>5. LoadedUpToDate(c)'
      BY <2>1, <2>2, <3>1, <3>3, <3>4 DEF LoadedUpToDate
    <3>. QED BY <3>2, <3>5
  <2>4. FramesFromDb'
    BY <2>1, <2>2 DEF FramesFromDb, FeedInv
  <2>. QED BY <1>0, <2>3, <2>4 DEF FeedInv
<1>3. ASSUME NEW c \in Conns, Handling(c) PROVE FeedInv'
  <2>. USE <1>0 DEF HubTyped, feed, FeedInv, FramesFromDb, OpenJoined, NotLoadedYet,
    LoadedUpToDate
  <2>1. CASE Connect(c)
    BY <2>1 DEF Connect
  <2>2. CASE Refuse(c)
    BY <2>2 DEF Refuse
  <2>3. CASE Admit(c)
    BY <2>3 DEF Admit, Joined
  <2>4. CASE LoadSnapshot(c)
    BY <2>4 DEF LoadSnapshot
  <2>5. CASE SnapshotFails(c)
    BY <2>5 DEF SnapshotFails
  <2>6. CASE Welcome(c)
    BY <2>6 DEF Welcome, Joined, MaxOf
  <2>. QED BY <1>3, <2>1, <2>2, <2>3, <2>4, <2>5, <2>6 DEF Handling
<1>4. ASSUME NEW c \in Conns, CloseEvent(c) PROVE FeedInv'
  BY <1>0, <1>4 DEF CloseEvent, Cleanup, HubTyped, feed, FeedInv, FramesFromDb, OpenJoined,
    NotLoadedYet, LoadedUpToDate
<1>5. ASSUME NEW c \in Conns, Timing(c) \/ Peer(c) PROVE FeedInv'
  <2>. USE <1>0, FeedIdle DEF HubTyped
  <2>1. CASE SendPing(c)
    BY <2>1 DEF SendPing
  <2>2. CASE PongTimeout(c)
    BY <2>2 DEF PongTimeout
  <2>3. CASE Pong(c)
    BY <2>3 DEF Pong
  <2>4. CASE PeerCloses(c) \/ PeerVanishes(c)
    BY <2>4 DEF PeerCloses, PeerVanishes
  <2>. QED BY <1>5, <2>1, <2>2, <2>3, <2>4 DEF Timing, Peer
<1>6. CASE Tick \/ UNCHANGED hubVars
  BY <1>0, <1>6, FeedIdle DEF Tick, hubVars
<1>7. CASE Restart
  BY <1>0, <1>7 DEF Restart, HubTyped, FeedInv, FramesFromDb, OpenJoined, NotLoadedYet,
    LoadedUpToDate
<1>. QED BY <1>1, <1>2, <1>3, <1>4, <1>5, <1>6, <1>7 DEF HubNext

(***************************************************************************)
(* A kiosk that was welcomed knows at least the newest state any kiosk was *)
(* told of.  The argument is the order of the connection handler: a socket *)
(* is in the broadcast set before its snapshot is read, so that a frame    *)
(* either was sent before, and the snapshot is newer, or reaches it.       *)
(***************************************************************************)
THEOREM NothingSlipsThrough == HubSpec => []NothingMissed
<1>1. HubInit => FeedInv
  BY DEF HubInit, FeedInv, HubTyped, FramesFromDb, OpenJoined, NotLoadedYet, LoadedUpToDate,
    NoFrame, Off
<1>2. FeedInv /\ [HubNext]_hubVars => FeedInv'
  BY NextFeed
<1>3. FeedInv => NothingMissed
  BY DEF FeedInv, LoadedUpToDate, NothingMissed
<1>. QED BY <1>1, <1>2, <1>3, PTL DEF HubSpec

-----------------------------------------------------------------------------
(* The keepalive                                                           *)

\* The handler arms the timers at its end.
NoTimersYet(c) ==
  phase[c] # "served" => pingTimer[c] = Off /\ owes[c] = Off /\ deadlines[c] = {}

\* An open socket whose peer is there has one deadline, that of the PING it has
\* not answered yet, and the handler knows it.
OneDeadline(c) ==
  socket[c] = "OPEN" /\ c \notin silent =>
    \/ owes[c] = Off /\ deadlines[c] = {}
    \/ /\ owes[c] \in 0 .. PING_TIMEOUT - 1
       /\ deadlines[c] = {PING_TIMEOUT - owes[c]} /\ pongDeadline[c]
       /\ pingTimer[c] = PING_INTERVAL - owes[c]

KeepaliveInv == HubTyped /\ \A c \in Conns : NoTimersYet(c) /\ OneDeadline(c)

\* The steps that touch no timer.
LEMMA TimersIdle ==
  ASSUME KeepaliveInv, HubTyped', UNCHANGED keepalive, silent \subseteq silent',
         \A c \in Conns : /\ phase[c] = "served" => phase'[c] = "served"
                          /\ socket'[c] = "OPEN" => socket[c] = "OPEN" \/ phase[c] # "served"
  PROVE  KeepaliveInv'
BY DEF KeepaliveInv, keepalive, NoTimersYet, OneDeadline

LEMMA NextKeepalive == KeepaliveInv /\ [HubNext]_hubVars => KeepaliveInv'
<1>. SUFFICES ASSUME KeepaliveInv, [HubNext]_hubVars PROVE KeepaliveInv'
  OBVIOUS
<1>0. HubTyped /\ HubTyped'
  BY NextTyped DEF KeepaliveInv
<1>1. CASE Commit \/ (\E v \in outbox : Broadcast(v)) \/ UNCHANGED hubVars
  BY <1>0, <1>1, TimersIdle DEF Commit, Broadcast, hubVars
<1>2. ASSUME NEW c \in Conns, Handling(c) PROVE KeepaliveInv'
  <2>1. CASE Welcome(c)
    BY <1>0, <2>1 DEF Welcome, HubTyped, KeepaliveInv, NoTimersYet, OneDeadline
  <2>2. CASE Connect(c) \/ Refuse(c) \/ Admit(c) \/ LoadSnapshot(c) \/ SnapshotFails(c)
    BY <1>0, <2>2, TimersIdle
      DEF Connect, Refuse, Admit, LoadSnapshot, SnapshotFails, HubTyped
  <2>. QED BY <1>2, <2>1, <2>2 DEF Handling
<1>3. ASSUME NEW c \in Conns, SendPing(c) PROVE KeepaliveInv'
  <2>1. /\ phase' = phase /\ socket' = socket /\ silent' = silent
        /\ pingTimer'[c] = PING_INTERVAL
        /\ socket[c] = "OPEN" => /\ deadlines'[c] = deadlines[c] \cup {PING_TIMEOUT}
                                 /\ pongDeadline'[c]
                                 /\ owes'[c] = IF owes[c] = Off THEN 0 ELSE owes[c]
        /\ \A e \in Conns \ {c} : /\ pingTimer'[e] = pingTimer[e] /\ owes'[e] = owes[e]
                                  /\ deadlines'[e] = deadlines[e]
                                  /\ pongDeadline'[e] = pongDeadline[e]
    BY <1>0, <1>3 DEF SendPing, HubTyped
  <2>2. NoTimersYet(c) /\ OneDeadline(c) /\ pingTimer[c] = 0
    BY <1>3 DEF SendPing, KeepaliveInv
  <2>3. phase[c] = "served"
    BY <2>2 DEF NoTimersYet, Off
  <2>4. socket[c] = "OPEN" /\ c \notin silent => owes[c] = Off /\ deadlines[c] = {}
    BY <2>2 DEF OneDeadline, PING_INTERVAL, PING_TIMEOUT
  <2>5. NoTimersYet(c)' /\ OneDeadline(c)'
    BY <2>1, <2>3, <2>4 DEF NoTimersYet, OneDeadline, PING_INTERVAL, PING_TIMEOUT
  <2>6. \A e \in Conns \ {c} : NoTimersYet(e)' /\ OneDeadline(e)'
    BY <2>1 DEF KeepaliveInv, NoTimersYet, OneDeadline
  <2>. QED BY <1>0, <2>5, <2>6 DEF KeepaliveInv
<1>4. ASSUME NEW c \in Conns, PongTimeout(c) PROVE KeepaliveInv'
  BY <1>0, <1>4 DEF PongTimeout, HubTyped, KeepaliveInv, NoTimersYet, OneDeadline, Off
<1>5. ASSUME NEW c \in Conns, Pong(c) PROVE KeepaliveInv'
  <2>1. pongDeadline[c] /\ \A d, e \in deadlines[c] : ~(d < e)
    BY <1>0, <1>5 DEF Pong, KeepaliveInv, OneDeadline, PING_TIMEOUT, HubTyped, Off
  <2>2. {d \in deadlines[c] : \E e \in deadlines[c] : d < e} = {}
    BY <2>1
  <2>. QED BY <1>0, <1>5, <2>1, <2>2
    DEF Pong, HubTyped, KeepaliveInv, NoTimersYet, OneDeadline, Off
<1>6. ASSUME NEW c \in Conns, PeerCloses(c) \/ PeerVanishes(c) PROVE KeepaliveInv'
  BY <1>0, <1>6, TimersIdle DEF PeerCloses, PeerVanishes, HubTyped
<1>7. ASSUME NEW c \in Conns, CloseEvent(c) PROVE KeepaliveInv'
  <2>1. CASE phase[c] = "served"
    <3>1. socket'[c] = "CLOSED" /\ phase'[c] = "served"
      BY <1>0, <1>7, <2>1 DEF CloseEvent, HubTyped
    <3>2. NoTimersYet(c)' /\ OneDeadline(c)'
      BY <3>1 DEF NoTimersYet, OneDeadline
    <3>3. ASSUME NEW e \in Conns \ {c} PROVE NoTimersYet(e)' /\ OneDeadline(e)'
      <4>1. /\ phase'[e] = phase[e] /\ socket'[e] = socket[e] /\ pingTimer'[e] = pingTimer[e]
            /\ owes'[e] = owes[e] /\ deadlines'[e] = deadlines[e]
            /\ pongDeadline'[e] = pongDeadline[e] /\ silent' = silent
        BY <1>0, <1>7, <2>1 DEF CloseEvent, Cleanup, HubTyped
      <4>. QED BY <4>1 DEF KeepaliveInv, NoTimersYet, OneDeadline
    <3>. QED BY <1>0, <3>2, <3>3 DEF KeepaliveInv
  <2>2. CASE phase[c] # "served"
    BY <1>0, <1>7, <2>2, TimersIdle DEF CloseEvent, keepalive, HubTyped
  <2>. QED BY <2>1, <2>2
<1>8. CASE Tick
  <2>. SUFFICES ASSUME NEW c \in Conns PROVE NoTimersYet(c)' /\ OneDeadline(c)'
    BY <1>0 DEF KeepaliveInv
  <2>1. NoTimersYet(c) /\ OneDeadline(c) /\ Answers(c)
    BY <1>8 DEF Tick, KeepaliveInv
  <2>2. /\ pingTimer'[c] = IF pingTimer[c] = Off THEN Off ELSE pingTimer[c] - 1
        /\ deadlines'[c] = {d - 1 : d \in deadlines[c]}
        /\ owes'[c] = IF owes[c] \in {Off, PING_TIMEOUT} THEN owes[c] ELSE owes[c] + 1
        /\ UNCHANGED <<phase, socket, pongDeadline, silent>>
    BY <1>8 DEF Tick
  <2>3. deadlines[c] = {} => deadlines'[c] = {}
    BY <2>2
  <2>4. NoTimersYet(c)'
    BY <2>1, <2>2, <2>3 DEF NoTimersYet
  <2>5. OneDeadline(c)'
    <3>1. CASE socket[c] = "OPEN" /\ c \notin silent /\ owes[c] # Off
      <4>1. owes[c] = 0 /\ deadlines[c] = {2} /\ pingTimer[c] = 2 /\ pongDeadline[c]
        BY <2>1, <3>1 DEF OneDeadline, Answers, PING_TIMEOUT, PING_INTERVAL
      <4>2. owes'[c] = 1 /\ deadlines'[c] = {1} /\ pingTimer'[c] = 1 /\ pongDeadline'[c]
        BY <2>2, <4>1 DEF PING_TIMEOUT, Off
      <4>. QED BY <4>2 DEF OneDeadline, PING_TIMEOUT, PING_INTERVAL
    <3>2. CASE owes[c] = Off
      BY <2>1, <2>2, <2>3, <3>2 DEF OneDeadline, Off
    <3>3. CASE socket[c] # "OPEN" \/ c \in silent
      BY <2>2, <3>3 DEF OneDeadline
    <3>. QED BY <3>1, <3>2, <3>3
  <2>. QED BY <2>4, <2>5
<1>9. CASE Restart
  BY <1>0, <1>9 DEF Restart, KeepaliveInv, NoTimersYet, OneDeadline, Off
<1>. QED BY <1>1, <1>2, <1>3, <1>4, <1>5, <1>6, <1>7, <1>8, <1>9 DEF HubNext, Timing, Peer

(***************************************************************************)
(* A PONG clears the last deadline only, which is enough: while the peer   *)
(* answers in time there is never more than one, because the next PING is  *)
(* not sent before the deadline of the last one has been cleared.          *)
(***************************************************************************)
THEOREM NobodyIsCutOff == HubSpec => AnsweringKiosksStay
<1>. DEFINE OnlySilent == \A c \in Conns : PongTimeout(c) /\ socket[c] = "OPEN" => c \in silent
<1>1. HubInit => KeepaliveInv
  BY DEF HubInit, KeepaliveInv, HubTyped, NoTimersYet, OneDeadline, NoFrame, Off
<1>2. KeepaliveInv /\ [HubNext]_hubVars => KeepaliveInv'
  BY NextKeepalive
<1>3. KeepaliveInv => OnlySilent
  BY DEF KeepaliveInv, OneDeadline, PongTimeout, Expired, PING_TIMEOUT
<1>4. KeepaliveInv /\ [HubNext]_hubVars => [OnlySilent]_hubVars
  BY <1>3
<1>. QED BY <1>1, <1>2, <1>4, PTL DEF HubSpec, AnsweringKiosksStay

=============================================================================
