------------------------------- MODULE WsHub -------------------------------
(***************************************************************************)
(* The WebSocket hub (websocket.plugin.js, lib/websocket.js).  A route     *)
(* commits a change and broadcasts a frame about it when its handler       *)
(* resumes; a kiosk that connects is authenticated, joins the broadcast    *)
(* set, and is sent a WELCOME with the current fight, read from the        *)
(* database in between.  Each `await` of the connection handler is a place *)
(* where anything else may happen.                                         *)
(*                                                                         *)
(* What frames tell is reduced to how recent it is: the n-th commit makes  *)
(* version n, and a frame carries the version it was built from.  Time is  *)
(* counted in units of 15 seconds, for the keepalive timers.               *)
(***************************************************************************)
EXTENDS Integers, FiniteSets

CONSTANTS Conns,        \* connections that kiosks may open, each once
          MaxVersion    \* bound: changes committed

VARIABLES db,           \* the version of the database
          outbox,       \* versions committed and not broadcast yet
          sent,         \* history: the newest version ever broadcast
          wsClients,    \* the broadcast set
          phase,        \* connection -> where its handler is
          socket,       \* connection -> readyState
          snapshot,     \* connection -> version read for its WELCOME
          newest,       \* history: connection -> newest version it got
          shown,        \* connection -> version of the last frame it got
          pingTimer,    \* connection -> time to the next PING, or Off
          deadlines,    \* connection -> time left on each running deadline
          pongDeadline, \* connection -> the handler still knows the last one
          owes,         \* connection -> age of its oldest unanswered PING
          silent        \* connections whose peer is gone without a word

feed == <<db, outbox, sent>>
keepalive == <<pingTimer, deadlines, pongDeadline, owes>>
hubVars == <<feed, wsClients, phase, socket, snapshot, newest, shown, keepalive, silent>>

Off == -1                    \* a timer that is not running
NoFrame == -1

PING_INTERVAL == 2           \* 30 s
PING_TIMEOUT_LONG == 3       \* Fault: a deadline longer than the interval
PING_TIMEOUT == 2            \* 30 s

MaxOf(a, b) == IF a >= b THEN a ELSE b

HubInit ==
  /\ db = 0 /\ outbox = {} /\ sent = 0
  /\ wsClients = {}
  /\ phase = [c \in Conns |-> "new"]
  /\ socket = [c \in Conns |-> "CLOSED"]
  /\ snapshot = [c \in Conns |-> NoFrame]
  /\ newest = [c \in Conns |-> NoFrame]
  /\ shown = [c \in Conns |-> NoFrame]
  /\ pingTimer = [c \in Conns |-> Off]
  /\ deadlines = [c \in Conns |-> {}]
  /\ pongDeadline = [c \in Conns |-> FALSE]
  /\ owes = [c \in Conns |-> Off]
  /\ silent = {}

-----------------------------------------------------------------------------
(* Routes                                                                  *)

Commit ==
  /\ db < MaxVersion
  /\ db' = db + 1
  /\ outbox' = outbox \cup {db + 1}
  /\ UNCHANGED <<sent, wsClients, phase, socket, snapshot, newest, shown, keepalive, silent>>

\* Every open socket of the set gets the frame, the others leave the set.
\* Two handlers may resume in another order than they committed.
Broadcast(v) ==
  LET open == {c \in wsClients : socket[c] = "OPEN"} IN
  /\ v \in outbox
  /\ outbox' = outbox \ {v}
  /\ sent' = MaxOf(sent, v)
  /\ wsClients' = open
  /\ shown' = [c \in Conns |-> IF c \in open THEN v ELSE shown[c]]
  /\ newest' = [c \in Conns |-> IF c \in open THEN MaxOf(newest[c], v) ELSE newest[c]]
  /\ UNCHANGED <<db, phase, socket, snapshot, keepalive, silent>>

-----------------------------------------------------------------------------
(* The connection handler, between its awaits                              *)

\* Fault: the socket joins only once it has been welcomed.
JoinedWhenWelcomed(c, at) == IF at = "welcomed" THEN wsClients \cup {c} ELSE wsClients

\* wsClients.add comes right after authentication, before the snapshot.
Joined(c, at) == IF at = "authenticated" THEN wsClients \cup {c} ELSE wsClients

\* The upgrade is done and the handler awaits the token and the user.
Connect(c) ==
  /\ phase[c] = "new"
  /\ phase' = [phase EXCEPT ![c] = "authenticating"]
  /\ socket' = [socket EXCEPT ![c] = "OPEN"]
  /\ UNCHANGED <<feed, wsClients, snapshot, newest, shown, keepalive, silent>>

\* 4401 without a valid token, 4403 for a deactivated user.
Refuse(c) ==
  /\ phase[c] = "authenticating"
  /\ phase' = [phase EXCEPT ![c] = "refused"]
  /\ socket' = [socket EXCEPT ![c] = IF @ = "OPEN" THEN "CLOSING" ELSE @]
  /\ UNCHANGED <<feed, wsClients, snapshot, newest, shown, keepalive, silent>>

Admit(c) ==
  /\ phase[c] = "authenticating"
  /\ phase' = [phase EXCEPT ![c] = "loading"]
  /\ wsClients' = Joined(c, "authenticated")
  /\ UNCHANGED <<feed, socket, snapshot, newest, shown, keepalive, silent>>

LoadSnapshot(c) ==
  /\ phase[c] = "loading"
  /\ phase' = [phase EXCEPT ![c] = "loaded"]
  /\ snapshot' = [snapshot EXCEPT ![c] = db]
  /\ UNCHANGED <<feed, wsClients, socket, newest, shown, keepalive, silent>>

\* The query failed: the socket stays and waits for broadcasts.
SnapshotFails(c) ==
  /\ phase[c] = "loading"
  /\ phase' = [phase EXCEPT ![c] = "loaded"]
  /\ UNCHANGED <<feed, wsClients, socket, snapshot, newest, shown, keepalive, silent>>

\* The handler runs to its end: WELCOME (lost on a socket that is not open
\* any more), the ping timer, and only now the listeners.
Welcome(c) ==
  LET welcomed == socket[c] = "OPEN" /\ snapshot[c] # NoFrame IN
  /\ phase[c] = "loaded"
  /\ phase' = [phase EXCEPT ![c] = "served"]
  /\ wsClients' = Joined(c, "welcomed")
  /\ shown' = [shown EXCEPT ![c] = IF welcomed THEN snapshot[c] ELSE @]
  /\ newest' = [newest EXCEPT ![c] = IF welcomed THEN MaxOf(@, snapshot[c]) ELSE @]
  /\ pingTimer' = [pingTimer EXCEPT ![c] = PING_INTERVAL]
  /\ UNCHANGED <<feed, socket, snapshot, deadlines, pongDeadline, owes, silent>>

-----------------------------------------------------------------------------
(* Keepalive                                                               *)

Expired(c) == 0 \in deadlines[c]

\* setInterval: the timer is armed again after the callback, which does
\* nothing on a socket that is not open.  Timers of equal duration fire in
\* the order they were armed, so a deadline fires before the next PING.
SendPing(c) ==
  LET alive == socket[c] = "OPEN" IN
  /\ pingTimer[c] = 0
  /\ ~Expired(c)
  /\ pingTimer' = [pingTimer EXCEPT ![c] = PING_INTERVAL]
  /\ deadlines' = [deadlines EXCEPT ![c] = IF alive THEN @ \cup {PING_TIMEOUT} ELSE @]
  /\ pongDeadline' = [pongDeadline EXCEPT ![c] = @ \/ alive]
  /\ owes' = [owes EXCEPT ![c] = IF alive /\ @ = Off THEN 0 ELSE @]
  /\ UNCHANGED <<feed, wsClients, phase, socket, snapshot, newest, shown, silent>>

\* The peer answers; the handler clears the deadline it knows, the last one.
Pong(c) ==
  /\ phase[c] = "served" /\ socket[c] = "OPEN"
  /\ c \notin silent
  /\ owes[c] # Off
  /\ owes' = [owes EXCEPT ![c] = Off]
  /\ deadlines' = [deadlines EXCEPT ![c] =
       IF pongDeadline[c] THEN {d \in @ : \E e \in @ : d < e} ELSE @]
  /\ pongDeadline' = [pongDeadline EXCEPT ![c] = FALSE]
  /\ UNCHANGED <<feed, wsClients, phase, socket, snapshot, newest, shown, pingTimer, silent>>

\* A deadline fires: close 4408.
PongTimeout(c) ==
  /\ Expired(c)
  /\ deadlines' = [deadlines EXCEPT ![c] = @ \ {0}]
  /\ socket' = [socket EXCEPT ![c] = IF @ = "OPEN" THEN "CLOSING" ELSE @]
  /\ UNCHANGED <<feed, wsClients, phase, snapshot, newest, shown, pingTimer,
                 pongDeadline, owes, silent>>

\* Fault: the close handler forgets the broadcast set.
CleanupTimersOnly(c) ==
  /\ pingTimer' = [pingTimer EXCEPT ![c] = Off]
  /\ deadlines' = [deadlines EXCEPT ![c] = {}]
  /\ pongDeadline' = [pongDeadline EXCEPT ![c] = FALSE]
  /\ UNCHANGED wsClients

Cleanup(c) ==
  /\ pingTimer' = [pingTimer EXCEPT ![c] = Off]
  /\ deadlines' = [deadlines EXCEPT ![c] =
       IF pongDeadline[c] THEN {d \in @ : \E e \in @ : d < e} ELSE @]
  /\ pongDeadline' = [pongDeadline EXCEPT ![c] = FALSE]
  /\ wsClients' = wsClients \ {c}

\* The socket is closed: 'close' (or 'error') is emitted, for the listeners
\* that are attached by then.
CloseEvent(c) ==
  /\ socket[c] = "CLOSING"
  /\ socket' = [socket EXCEPT ![c] = "CLOSED"]
  /\ IF phase[c] = "served"
     THEN Cleanup(c)
     ELSE UNCHANGED <<wsClients, pingTimer, deadlines, pongDeadline>>
  /\ UNCHANGED <<feed, phase, snapshot, newest, shown, owes, silent>>

-----------------------------------------------------------------------------
(* The world                                                               *)

\* The kiosk closes its socket, or the connection is reset.
PeerCloses(c) ==
  /\ socket[c] = "OPEN"
  /\ socket' = [socket EXCEPT ![c] = "CLOSING"]
  /\ UNCHANGED <<feed, wsClients, phase, snapshot, newest, shown, keepalive, silent>>

\* The kiosk loses its power or its cable: no close, and no answer.
PeerVanishes(c) ==
  /\ socket[c] = "OPEN" /\ c \notin silent
  /\ silent' = silent \cup {c}
  /\ UNCHANGED <<feed, wsClients, phase, socket, snapshot, newest, shown, keepalive>>

\* Any other peer answers before the PING is as old as the timeout.
Answers(c) == owes[c] # Off /\ socket[c] = "OPEN" /\ c \notin silent => owes[c] + 1 < PING_TIMEOUT

\* Fifteen seconds pass; no timer that is due has to wait that long.
Tick ==
  /\ \E c \in Conns : pingTimer[c] # Off
  /\ \A c \in Conns : pingTimer[c] # 0 /\ ~Expired(c) /\ Answers(c)
  /\ pingTimer' = [c \in Conns |-> IF pingTimer[c] = Off THEN Off ELSE pingTimer[c] - 1]
  /\ deadlines' = [c \in Conns |-> {d - 1 : d \in deadlines[c]}]
  /\ owes' = [c \in Conns |-> IF owes[c] \in {Off, PING_TIMEOUT} THEN owes[c] ELSE owes[c] + 1]
  /\ UNCHANGED <<feed, wsClients, phase, socket, snapshot, newest, shown, pongDeadline, silent>>

\* onClose closes and clears; the process ends, and with it the handlers,
\* the timers, and frames that were not sent.
Restart ==
  /\ wsClients' = {}
  /\ outbox' = {}
  /\ phase' = [c \in Conns |-> IF phase[c] = "new" THEN "new" ELSE "ended"]
  /\ socket' = [c \in Conns |-> "CLOSED"]
  /\ pingTimer' = [c \in Conns |-> Off]
  /\ deadlines' = [c \in Conns |-> {}]
  /\ pongDeadline' = [c \in Conns |-> FALSE]
  /\ owes' = [c \in Conns |-> Off]
  /\ UNCHANGED <<db, sent, snapshot, newest, shown, silent>>

-----------------------------------------------------------------------------

Handling(c) == \/ Connect(c) \/ Refuse(c) \/ Admit(c)
               \/ LoadSnapshot(c) \/ SnapshotFails(c) \/ Welcome(c)

Timing(c) == SendPing(c) \/ PongTimeout(c)

Peer(c) == Pong(c) \/ PeerCloses(c) \/ PeerVanishes(c)

HubNext ==
  \/ Commit
  \/ \E v \in outbox : Broadcast(v)
  \/ \E c \in Conns : Handling(c) \/ Timing(c) \/ CloseEvent(c) \/ Peer(c)
  \/ Tick
  \/ Restart

HubSpec == HubInit /\ [][HubNext]_hubVars

\* Time passes, timers fire, sockets finish closing, and living peers answer.
Fairness ==
  /\ WF_hubVars(Tick)
  /\ \A c \in Conns :
       WF_hubVars(Timing(c)) /\ WF_hubVars(CloseEvent(c)) /\ WF_hubVars(Pong(c))

FairHubSpec == HubSpec /\ Fairness

-----------------------------------------------------------------------------

(***************************************************************************)
(* A kiosk that was welcomed has, in its WELCOME or in a frame since, at   *)
(* least the newest state any kiosk was ever told of: nothing broadcast    *)
(* while it connected slips through between its snapshot and its place in  *)
(* the broadcast set (websocket.plugin.js, connection handler).            *)
(***************************************************************************)
NothingMissed ==
  \A c \in Conns :
    phase[c] = "served" /\ socket[c] = "OPEN" /\ snapshot[c] # NoFrame => newest[c] >= sent

(***************************************************************************)
(* "If no PONG arrives within PING_TIMEOUT_MS of a PING, the socket is     *)
(* closed", and only then: no timer left behind by an earlier PING closes  *)
(* the socket of a kiosk that answers every PING in time.                  *)
(***************************************************************************)
AnsweringKiosksStay ==
  [][\A c \in Conns :
       PongTimeout(c) /\ socket[c] = "OPEN" => c \in silent]_hubVars
=============================================================================
