------------------------- MODULE ClientSessionProofs ------------------------
(***************************************************************************)
(* The safety of a browser tab for any number of attempts at joining.      *)
(*                                                                         *)
(* ConnectedOnlyInRoom and SessionOfAttempt are not inductive: a socket    *)
(* must be known to connect only while its own attempt awaits it (or an    *)
(* attempt that is over could open one), and attempts to come to be        *)
(* untouched.                                                              *)
(***************************************************************************)
EXTENDS ClientSession, TLAPS

ConnectingIsAwaited ==
    \A a \in Attempt : ws[a] = "connecting" => stage[a] = "connecting"

LaterAttemptsUntouched ==
    \A a \in Attempt : a > attempt => ws[a] = "none" /\ stage[a] = "idle"

RoomHasAttempt == view = "room" => attempt \in Attempt

SessionInv ==
    /\ SessionTypeOK
    /\ ConnectedOnlyInRoom
    /\ SessionOfAttempt
    /\ ConnectingIsAwaited
    /\ LaterAttemptsUntouched
    /\ RoomHasAttempt

(***************************************************************************)
(* leaveRoom() establishes the invariant from one in which sockets and     *)
(* stages were changed without opening a socket or starting an attempt.    *)
(***************************************************************************)
LEMMA LeavingIsSafe ==
    ASSUME SessionInv,
           NEW w \in [Attempt -> {"none", "connecting", "open", "closing", "closed"}],
           NEW i \in [Attempt -> BOOLEAN],
           \A a \in Attempt : w[a] \in {"connecting", "open"} => w[a] = ws[a],
           \A a \in Attempt : a > attempt => w[a] = "none",
           LeaveRoom(w, i), UNCHANGED attempt,
           stage' \in [Attempt -> {"idle", "connecting", "joining", "starting", "done", "failed"}],
           \A a \in Attempt : a > attempt => stage'[a] = "idle"
    PROVE  SessionInv'
<1> USE AttemptsAssumption DEF Attempt
<1>1. /\ ws \in [Attempt -> {"none", "connecting", "open", "closing", "closed"}]
      /\ attempt \in 0..MaxAttempts
  BY DEF SessionInv, SessionTypeOK
<1>2. \A a \in Attempt : w[a] \in {"connecting", "open"} => a = attempt
  BY DEF SessionInv, ConnectedOnlyInRoom
<1>3. /\ view' = "lobby" /\ webrtc' = 0 /\ attempt' = attempt
      /\ ws' = [w EXCEPT ![attempt] = ClosedFrom(@)]
      /\ intentional' = [i EXCEPT ![attempt] = TRUE]
  BY DEF LeaveRoom
<1>4. \A a \in Attempt : ws'[a] = IF a = attempt THEN ClosedFrom(w[a]) ELSE w[a]
  BY <1>3
<1>5. \A a \in Attempt : ws'[a] \notin {"connecting", "open"}
  BY <1>2, <1>4 DEF ClosedFrom
<1>6. SessionTypeOK'
  <2>1. ws' \in [Attempt -> {"none", "connecting", "open", "closing", "closed"}]
    BY <1>3 DEF ClosedFrom
  <2>2. intentional' \in [Attempt -> BOOLEAN]
    BY <1>3
  <2> QED BY <2>1, <2>2, <1>1, <1>3 DEF SessionTypeOK
<1>7. LaterAttemptsUntouched'
  BY <1>1, <1>3, <1>4 DEF LaterAttemptsUntouched
<1> QED
  BY <1>3, <1>5, <1>6, <1>7
     DEF SessionInv, ConnectedOnlyInRoom, SessionOfAttempt, ConnectingIsAwaited, RoomHasAttempt

-----------------------------------------------------------------------------

(***************************************************************************)
(* The invariant holds when the page is loaded.                            *)
(***************************************************************************)
LEMMA SessionInvInit == SessionInit => SessionInv
BY AttemptsAssumption
   DEF SessionInit, SessionInv, SessionTypeOK, ConnectedOnlyInRoom, SessionOfAttempt,
       ConnectingIsAwaited, LaterAttemptsUntouched, RoomHasAttempt, Attempt

(***************************************************************************)
(* Every action of the user preserves the invariant.                       *)
(***************************************************************************)
LEMMA UserPreservesInv == SessionInv /\ User => SessionInv'
<1> SUFFICES ASSUME SessionInv, User PROVE SessionInv'
  OBVIOUS
<1> USE AttemptsAssumption DEF Attempt
<1>1. CASE ShowPreview
  BY <1>1 DEF ShowPreview, SessionInv, SessionTypeOK, ConnectedOnlyInRoom, SessionOfAttempt,
              ConnectingIsAwaited, LaterAttemptsUntouched, RoomHasAttempt
<1>2. CASE BackToLobby
  BY <1>2 DEF BackToLobby, SessionInv, SessionTypeOK, ConnectedOnlyInRoom, SessionOfAttempt,
              ConnectingIsAwaited, LaterAttemptsUntouched, RoomHasAttempt
<1>3. CASE OnJoinRoom
  <2>1. /\ attempt + 1 \in Attempt /\ attempt' = attempt + 1
        /\ webrtc = 0 /\ webrtc' = 0 /\ view' = "room"
    BY <1>3 DEF OnJoinRoom, SessionInv, SessionTypeOK, SessionOfAttempt
  <2>2. SessionTypeOK'
    BY <1>3, <2>1 DEF OnJoinRoom, SessionInv, SessionTypeOK
  <2>3. ConnectedOnlyInRoom' /\ ConnectingIsAwaited' /\ LaterAttemptsUntouched'
    BY <1>3, <2>1 DEF OnJoinRoom, SessionInv, SessionTypeOK, ConnectedOnlyInRoom,
                      ConnectingIsAwaited, LaterAttemptsUntouched
  <2> QED BY <2>1, <2>2, <2>3 DEF SessionInv, SessionOfAttempt, RoomHasAttempt
<1>4. CASE UserLeaves
  BY <1>4, LeavingIsSafe
     DEF UserLeaves, SessionInv, SessionTypeOK, LaterAttemptsUntouched
<1> QED BY <1>1, <1>2, <1>3, <1>4 DEF User

(***************************************************************************)
(* A rejected promise, whatever rejected it, preserves the invariant.      *)
(***************************************************************************)
LEMMA FailingIsSafe ==
    ASSUME SessionInv, NEW a \in Attempt, stage[a] # "idle",
           NEW w \in [Attempt -> {"none", "connecting", "open", "closing", "closed"}],
           NEW i \in [Attempt -> BOOLEAN],
           \A b \in Attempt : w[b] \in {"connecting", "open"} => w[b] = ws[b],
           \A b \in Attempt : b # a => w[b] = ws[b],
           Fail(a, w, i)
    PROVE  SessionInv'
<1> USE AttemptsAssumption DEF Attempt
<1>1. ~(a > attempt)
  BY DEF SessionInv, LaterAttemptsUntouched
<1>2. /\ stage' \in [Attempt -> {"idle", "connecting", "joining", "starting", "done", "failed"}]
      /\ \A b \in Attempt : b > attempt => stage'[b] = "idle"
  BY <1>1 DEF Fail, SessionInv, SessionTypeOK, LaterAttemptsUntouched
<1>3. \A b \in Attempt : b > attempt => w[b] = "none"
  BY <1>1 DEF SessionInv, LaterAttemptsUntouched
<1>4. LeaveRoom(w, i) /\ UNCHANGED attempt
  BY DEF Fail
<1> QED BY <1>2, <1>3, <1>4, LeavingIsSafe

(***************************************************************************)
(* Every callback of every attempt, stale ones included, preserves it.     *)
(***************************************************************************)
LEMMA CallbackPreservesInv ==
    ASSUME SessionInv, NEW a \in Attempt, Callback(a) PROVE SessionInv'
<1> USE AttemptsAssumption DEF Attempt
<1>0. /\ ws \in [Attempt -> {"none", "connecting", "open", "closing", "closed"}]
      /\ intentional \in [Attempt -> BOOLEAN]
      /\ stage \in [Attempt -> {"idle", "connecting", "joining", "starting", "done", "failed"}]
  BY DEF SessionInv, SessionTypeOK
<1>1. CASE OnOpen(a)
  <2>1. a = attempt /\ stage[a] = "connecting"
    BY <1>1 DEF OnOpen, SessionInv, ConnectedOnlyInRoom, ConnectingIsAwaited
  <2> QED
    BY <1>1, <2>1 DEF OnOpen, SessionInv, SessionTypeOK, ConnectedOnlyInRoom, SessionOfAttempt,
                      ConnectingIsAwaited, LaterAttemptsUntouched, RoomHasAttempt
<1>2. CASE OnClose(a)
  <2> DEFINE closed == [ws EXCEPT ![a] = "closed"]
  <2>1. /\ closed \in [Attempt -> {"none", "connecting", "open", "closing", "closed"}]
        /\ \A b \in Attempt : closed[b] \in {"connecting", "open"} => closed[b] = ws[b]
        /\ \A b \in Attempt : b # a => closed[b] = ws[b]
    BY <1>0
  <2>2. ~(a > attempt)
    BY <1>2 DEF OnClose, SessionInv, LaterAttemptsUntouched
  <2>3. CASE stage[a] \in {"connecting", "joining"} /\ Fail(a, closed, intentional)
    BY <1>0, <2>1, <2>3, FailingIsSafe
  <2>4. CASE LeaveRoom(closed, intentional) /\ UNCHANGED <<attempt, stage>>
    BY <1>0, <2>1, <2>2, <2>4, LeavingIsSafe DEF SessionInv, LaterAttemptsUntouched
  <2>5. CASE ws' = closed /\ UNCHANGED <<view, attempt, webrtc, intentional, stage>>
    BY <1>0, <2>1, <2>2, <2>5
       DEF SessionInv, SessionTypeOK, ConnectedOnlyInRoom, SessionOfAttempt,
           ConnectingIsAwaited, LaterAttemptsUntouched, RoomHasAttempt
  <2> QED BY <1>2, <2>3, <2>4, <2>5 DEF OnClose
<1>3. CASE ServerCloses(a)
  BY <1>0, <1>3 DEF ServerCloses, SessionInv, SessionTypeOK, ConnectedOnlyInRoom, SessionOfAttempt,
                    ConnectingIsAwaited, LaterAttemptsUntouched, RoomHasAttempt
<1>4. CASE ConnectTimeout(a)
  <2> DEFINE w == [ws EXCEPT ![a] = ClosedFrom(@)]
  <2>1. /\ w \in [Attempt -> {"none", "connecting", "open", "closing", "closed"}]
        /\ \A b \in Attempt : w[b] \in {"connecting", "open"} => w[b] = ws[b]
        /\ \A b \in Attempt : b # a => w[b] = ws[b]
    BY <1>0 DEF ClosedFrom
  <2>2. [intentional EXCEPT ![a] = TRUE] \in [Attempt -> BOOLEAN]
    BY <1>0
  <2>3. Fail(a, w, [intentional EXCEPT ![a] = TRUE]) /\ stage[a] # "idle"
    BY <1>4 DEF ConnectTimeout
  <2> QED BY <2>1, <2>2, <2>3, FailingIsSafe
<1>5. CASE RequestTimeout(a)
  BY <1>0, <1>5, FailingIsSafe DEF RequestTimeout
<1>6. CASE JoinAccepted(a)
  <2>1. a = attempt /\ view = "room"
    BY <1>6 DEF JoinAccepted, SessionInv, ConnectedOnlyInRoom
  <2> QED
    BY <1>0, <1>6, <2>1
       DEF JoinAccepted, SessionInv, SessionTypeOK, ConnectedOnlyInRoom, SessionOfAttempt,
           ConnectingIsAwaited, LaterAttemptsUntouched, RoomHasAttempt
<1>7. CASE JoinRejected(a)
  BY <1>0, <1>7, FailingIsSafe DEF JoinRejected
<1>8. CASE Started(a)
  BY <1>0, <1>8 DEF Started, SessionInv, SessionTypeOK, ConnectedOnlyInRoom, SessionOfAttempt,
                    ConnectingIsAwaited, LaterAttemptsUntouched, RoomHasAttempt
<1> QED
  BY <1>1, <1>2, <1>3, <1>4, <1>5, <1>6, <1>7, <1>8 DEF Callback

-----------------------------------------------------------------------------

(***************************************************************************)
(* The invariant is kept by every step of a tab.                           *)
(***************************************************************************)
LEMMA SessionInvHolds == SessionSpec => []SessionInv
<1>1. SessionInv /\ [SessionNext]_sessionVars => SessionInv'
  <2> SUFFICES ASSUME SessionInv, [SessionNext]_sessionVars PROVE SessionInv'
    OBVIOUS
  <2>1. CASE User
    BY <2>1, UserPreservesInv
  <2>2. CASE \E a \in Attempt : Callback(a)
    BY <2>2, CallbackPreservesInv
  <2>3. CASE UNCHANGED sessionVars
    BY <2>3 DEF sessionVars, SessionInv, SessionTypeOK, ConnectedOnlyInRoom, SessionOfAttempt,
                ConnectingIsAwaited, LaterAttemptsUntouched, RoomHasAttempt
  <2> QED BY <2>1, <2>2, <2>3 DEF SessionNext
<1> QED BY SessionInvInit, <1>1, PTL DEF SessionSpec

(***************************************************************************)
(* app.js and signaling.js keep the state of a tab in its type.            *)
(***************************************************************************)
THEOREM SessionTypeCorrect == SessionSpec => []SessionTypeOK
BY SessionInvHolds, PTL DEF SessionInv

(***************************************************************************)
(* However many attempts overlap, at most the latest is connected, and     *)
(* only while a room is shown.                                             *)
(***************************************************************************)
THEOREM OneConnection == SessionSpec => []ConnectedOnlyInRoom
BY SessionInvHolds, PTL DEF SessionInv

(***************************************************************************)
(* `webrtc` is null or the session of the accepted attempt that is shown.  *)
(***************************************************************************)
THEOREM SessionIsOfAttempt == SessionSpec => []SessionOfAttempt
BY SessionInvHolds, PTL DEF SessionInv
=============================================================================
