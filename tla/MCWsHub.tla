------------------------------ MODULE MCWsHub ------------------------------
(***************************************************************************)
(* WsHub on small instances: two kiosks and the frames they get, with no   *)
(* time passing, or a single kiosk and its timers.                         *)
(***************************************************************************)
EXTENDS WsHub

CONSTANTS c1, c2

VARIABLE hour           \* which of the two it is; it never changes

HourInit == HubInit /\ hour \in {"rush", "quiet"}

\* Nobody is slow: the ping timers do not run.
FeedNext ==
  \/ Commit
  \/ \E v \in outbox : Broadcast(v)
  \/ \E c \in Conns : Handling(c) \/ PeerCloses(c) \/ CloseEvent(c)
  \/ Restart

\* One kiosk connects, and one frame is sent.
OneKiosk == phase'[c2] = "new" /\ db' <= 1

HourNext ==
  /\ \/ hour = "rush" /\ FeedNext
     \/ hour = "quiet" /\ HubNext /\ OneKiosk
  /\ UNCHANGED hour

HourSpec == HourInit /\ [][HourNext]_<<hubVars, hour>> /\ Fairness

(***************************************************************************)
(* A kiosk that vanished without closing is found out by the keepalive and *)
(* leaves the broadcast set (websocket.plugin.js, sendPing).               *)
(***************************************************************************)
VanishedKiosksLeave ==
  hour = "quiet" /\ phase[c1] = "served" /\ socket[c1] = "OPEN" /\ c1 \in silent
    ~> c1 \notin wsClients
=============================================================================
