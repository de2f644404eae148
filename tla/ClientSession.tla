--------------------------- MODULE ClientSession ----------------------------
(***************************************************************************)
(* One browser tab (client/js/app.js with the sockets and requests of      *)
(* client/js/signaling.js): the views, and the attempts at joining made    *)
(* one after another.                                                      *)
(*                                                                         *)
(* Each onJoinRoom() call is a coroutine with a SignalingClient of its     *)
(* own, but `signaling` and `webrtc` are globals and leaveRoom() acts on   *)
(* whatever they hold: the attempt that awaits and the attempt that is     *)
(* torn down need not be the same.  Callbacks and the continuations that   *)
(* the promises they settle run as microtasks are one step.  The global    *)
(* `signaling` is always the client of the latest attempt.                 *)
(***************************************************************************)
EXTENDS Naturals

CONSTANT MaxAttempts   \* bound: how often the user joins

ASSUME AttemptsAssumption == MaxAttempts \in Nat \ {0}

Attempt == 1..MaxAttempts

VARIABLES view,        \* the view that is shown
          attempt,     \* the latest attempt, 0 before the first
          webrtc,      \* the attempt whose WebRtcSession `webrtc` holds, 0 for null
          ws,          \* ws[a]: readyState of the client's WebSocket
          intentional, \* intentional[a]: isIntentionalClose
          stage        \* stage[a]: what the coroutine of attempt a awaits

sessionVars == <<view, attempt, webrtc, ws, intentional, stage>>

SessionTypeOK ==
    /\ view \in {"lobby", "preview", "room"}
    /\ attempt \in 0..MaxAttempts
    /\ webrtc \in 0..MaxAttempts
    /\ ws \in [Attempt -> {"none", "connecting", "open", "closing", "closed"}]
    /\ intentional \in [Attempt -> BOOLEAN]
    /\ stage \in [Attempt -> {"idle", "connecting", "joining", "starting", "done", "failed"}]

SessionInit ==
    /\ view = "lobby"
    /\ attempt = 0
    /\ webrtc = 0
    /\ ws = [a \in Attempt |-> "none"]
    /\ intentional = [a \in Attempt |-> FALSE]
    /\ stage = [a \in Attempt |-> "idle"]

-----------------------------------------------------------------------------
(* leaveRoom(), called when the sockets are `w` and the flags `i`. *)

\* close(): no effect on a socket that is closing or closed already
ClosedFrom(state) == IF state \in {"connecting", "open"} THEN "closing" ELSE state

\* Faulty: disconnect() is forgotten.
LeaveConnected(w, i) ==
    /\ view' = "lobby" /\ webrtc' = 0
    /\ ws' = w
    /\ intentional' = i

\* Faulty: the session is not closed.
LeaveSession(w, i) ==
    /\ view' = "lobby" /\ webrtc' = webrtc
    /\ ws' = [w EXCEPT ![attempt] = ClosedFrom(@)]
    /\ intentional' = [i EXCEPT ![attempt] = TRUE]

LeaveRoom(w, i) ==
    /\ view' = "lobby" /\ webrtc' = 0
    /\ ws' = [w EXCEPT ![attempt] = ClosedFrom(@)]
    /\ intentional' = [i EXCEPT ![attempt] = TRUE]

\* The promise that attempt a awaits is rejected: its catch calls leaveRoom().
Fail(a, w, i) ==
    /\ stage' = [stage EXCEPT ![a] = "failed"]
    /\ LeaveRoom(w, i)
    /\ UNCHANGED attempt

-----------------------------------------------------------------------------
(* The user. *)

ShowPreview ==
    /\ view = "lobby"
    /\ view' = "preview"
    /\ UNCHANGED <<attempt, webrtc, ws, intentional, stage>>

BackToLobby ==
    /\ view = "preview"
    /\ view' = "lobby"
    /\ UNCHANGED <<attempt, webrtc, ws, intentional, stage>>

OnJoinRoom ==
    /\ view = "preview"
    /\ attempt < MaxAttempts
    /\ view' = "room"
    /\ attempt' = attempt + 1
    /\ ws' = [ws EXCEPT ![attempt + 1] = "connecting"]
    /\ stage' = [stage EXCEPT ![attempt + 1] = "connecting"]
    /\ UNCHANGED <<webrtc, intentional>>

UserLeaves ==
    /\ view = "room"
    /\ LeaveRoom(ws, intentional)
    /\ UNCHANGED <<attempt, stage>>

-----------------------------------------------------------------------------
(* The socket, the request and the timers of attempt a. *)

\* onopen: connect() resolves and the request to join is sent
OnOpen(a) ==
    /\ ws[a] = "connecting"
    /\ ws' = [ws EXCEPT ![a] = "open"]
    /\ stage' = [stage EXCEPT ![a] = "joining"]
    /\ UNCHANGED <<view, attempt, webrtc, intentional>>

\* Faulty: the timer of connect() is never set.
NoConnectTimeout(a) == FALSE /\ stage[a] = "connecting" /\ UNCHANGED sessionVars

\* the timer of connect(): cleared when the promise settles
ConnectTimeout(a) ==
    /\ stage[a] = "connecting"
    /\ Fail(a, [ws EXCEPT ![a] = ClosedFrom(@)], [intentional EXCEPT ![a] = TRUE])

\* the timer of sendRequest(): cleared when the request leaves pendingRequests
RequestTimeout(a) ==
    /\ stage[a] = "joining"
    /\ Fail(a, ws, intentional)

\* room.joined; messages are only delivered on an open socket
JoinAccepted(a) ==
    /\ ws[a] = "open"
    /\ stage[a] = "joining"
    /\ stage' = [stage EXCEPT ![a] = "starting"]
    /\ webrtc' = a
    /\ UNCHANGED <<view, attempt, ws, intentional>>

\* an error that answers room.join
JoinRejected(a) ==
    /\ ws[a] = "open"
    /\ stage[a] = "joining"
    /\ Fail(a, ws, intentional)

\* webrtc.start() resolves: every offer was sent or given up
Started(a) ==
    /\ stage[a] = "starting"
    /\ stage' = [stage EXCEPT ![a] = "done"]
    /\ UNCHANGED <<view, attempt, webrtc, ws, intentional>>

\* the server's close frame arrives
ServerCloses(a) ==
    /\ ws[a] = "open"
    /\ ws' = [ws EXCEPT ![a] = "closing"]
    /\ UNCHANGED <<view, attempt, webrtc, intentional, stage>>

\* Faulty: an unexpected close is not told to the application.
OnCloseSilent(a) ==
    LET closed == [ws EXCEPT ![a] = "closed"] IN
    /\ ws[a] \in {"connecting", "open", "closing"}
    /\ IF stage[a] \in {"connecting", "joining"} THEN Fail(a, closed, intentional)
       ELSE ws' = closed /\ UNCHANGED <<view, attempt, webrtc, intentional, stage>>

\* onerror and onclose: what awaits the socket is rejected, and 'disconnected'
\* is emitted unless disconnect() was called; both end in leaveRoom()
OnClose(a) ==
    LET closed == [ws EXCEPT ![a] = "closed"] IN
    /\ ws[a] \in {"connecting", "open", "closing"}
    /\ \/ /\ stage[a] \in {"connecting", "joining"}
          /\ Fail(a, closed, intentional)
       \/ /\ stage[a] \notin {"connecting", "joining"}
          /\ ~intentional[a]
          /\ LeaveRoom(closed, intentional)
          /\ UNCHANGED <<attempt, stage>>
       \/ /\ stage[a] \notin {"connecting", "joining"}
          /\ intentional[a]
          /\ ws' = closed
          /\ UNCHANGED <<view, attempt, webrtc, intentional, stage>>

-----------------------------------------------------------------------------

User == ShowPreview \/ BackToLobby \/ OnJoinRoom \/ UserLeaves

Callback(a) ==
    \/ OnOpen(a) \/ OnClose(a) \/ ServerCloses(a)
    \/ ConnectTimeout(a) \/ RequestTimeout(a)
    \/ JoinAccepted(a) \/ JoinRejected(a) \/ Started(a)

SessionNext == User \/ \E a \in Attempt : Callback(a)

(***************************************************************************)
(* Fairness: timers fire, and a socket that is closing gets its close      *)
(* event (a browser ends the closing handshake by a timeout of its own).   *)
(* Nothing is assumed of the server, the network or the user.              *)
(***************************************************************************)
SessionFairness ==
    \A a \in Attempt :
        /\ WF_sessionVars(ConnectTimeout(a))
        /\ WF_sessionVars(RequestTimeout(a))
        /\ WF_sessionVars(ws[a] = "closing" /\ OnClose(a))

SessionSpec == SessionInit /\ [][SessionNext]_sessionVars

SessionFairSpec == SessionSpec /\ SessionFairness

-----------------------------------------------------------------------------
(* Properties. *)

(***************************************************************************)
(* The tab is connected only while it shows a room, and then by the latest *)
(* attempt alone: whatever fails, times out or is left, no socket of an    *)
(* earlier attempt stays open and none stays open in the lobby, where the  *)
(* server would go on showing the user to the others.                      *)
(***************************************************************************)
ConnectedOnlyInRoom ==
    \A a \in Attempt : ws[a] \in {"connecting", "open"} => view = "room" /\ a = attempt

(***************************************************************************)
(* The WebRtcSession in use belongs to the attempt that is shown, and that *)
(* attempt's join was accepted: there is no session in the lobby, and no   *)
(* late reply gives the tab the session of an attempt it gave up.          *)
(***************************************************************************)
SessionOfAttempt ==
    webrtc # 0 => /\ view = "room" /\ webrtc = attempt
                  /\ stage[webrtc] \in {"starting", "done"}

(***************************************************************************)
(* No attempt to join waits for ever, whatever the server does.            *)
(***************************************************************************)
JoinSettles ==
    \A a \in Attempt : stage[a] \in {"connecting", "joining"}
                           ~> stage[a] \in {"starting", "done", "failed"}

(***************************************************************************)
(* deploy/README.md, lines 55-56: "After a connection loss, the client     *)
(* returns to the lobby".                                                  *)
(***************************************************************************)
LossReturnsToLobby ==
    \A a \in Attempt : (view = "room" /\ attempt = a /\ ws[a] \in {"closing", "closed"})
                           ~> (view # "room" \/ attempt # a)

(***************************************************************************)
(* The client returns to the lobby because the user leaves or because the  *)
(* attempt it shows fails, never because of what becomes of an attempt     *)
(* left before: an attempt whose socket is open and stays so is not ended  *)
(* by a callback of another one.                                           *)
(***************************************************************************)
OnlyItsOwnEnd ==
    [][\A a \in Attempt : Callback(a) /\ view = "room" /\ view' = "lobby" => a = attempt]_sessionVars
=============================================================================
