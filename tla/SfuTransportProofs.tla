------------------------ MODULE SfuTransportProofs -------------------------
(***************************************************************************)
(* Theorems about the transports of the SFU, for any number of them.  The  *)
(* properties follow the flights of a handshake from one end to the other, *)
(* so the inductive invariant is about what may be under way: the SFU      *)
(* sends nothing before ICE is connected, hence no browser finishes before *)
(* that, hence neither does the SFU (Flights); and when the SFU has        *)
(* finished it is ready (Ready).                                           *)
(***************************************************************************)
EXTENDS SfuTransport, TLAPS

Flights(t) ==
    /\ down[t] # {} => agent[t] # "gathering"
    /\ browser[t] \in {"finish", "done"} => agent[t] # "gathering"
    /\ "finish" \in up[t] => browser[t] \in {"finish", "done", "failed"}
    /\ "finished" \in down[t] \/ browser[t] = "done" => ssl[t] = "done"
    /\ "alert" \in down[t] \/ browser[t] = "failed" => ssl[t] = "error"

Ready(t) ==
    /\ state[t] = "CONNECTED" => ssl[t] = "done"
    /\ ssl[t] = "done" =>
          /\ srtp[t]
          /\ agent[t] # "gathering"
          /\ browser[t] \in {"finish", "done"}
          /\ \/ state[t] \in {"CONNECTED", "FAILED"}
             \/ state[t] = "ICE_GATHERING" /\ gathered[t]

HandshakeInv == \A t \in Transport : Flights(t) /\ Ready(t)

(***************************************************************************)
(* The handlers of requests and a crash touch none of this.                *)
(***************************************************************************)
handshake == <<state, agent, gathered, ssl, srtp, browser, up, down>>

\* The control server and its restart leave the handshakes alone.
LEMMA ControlLeavesHandshake ==
    ASSUME Control \/ Crash
    PROVE  UNCHANGED handshake
BY DEF Control, Crash, Take, PostTransport, PostDescription, DeleteTransport,
       DestroyAgent, handshake, ice, network

(***************************************************************************)
(* What a datagram makes the DTLS server do: begin with a hello, end with  *)
(* the finish of the browser, repeat what it sent, or nothing.             *)
(***************************************************************************)
Begins(t, to, f) ==
    /\ ssl[t] = "hello" /\ ssl' = [ssl EXCEPT ![t] = to]
    /\ Sends(t, f, agent[t] = "connected")
    /\ UNCHANGED <<srtp, state>>

Ends(t) ==
    /\ ssl[t] = "finish" /\ ssl' = [ssl EXCEPT ![t] = "done"]
    /\ srtp' = [srtp EXCEPT ![t] = TRUE]
    /\ state' = [state EXCEPT ![t] = "CONNECTED"]
    /\ Sends(t, "finished", agent[t] = "connected")

Repeats(t, f) ==
    Sends(t, f, agent[t] = "connected") /\ UNCHANGED <<ssl, srtp, state>>

\* What a datagram can do to a handshake.
LEMMA ReceiveCases ==
    ASSUME NEW t \in Transport, NEW f \in {"hello", "finish"}, ReceiveDatagram(t, f)
    PROVE  \/ Begins(t, "finish", "certificate")
           \/ Begins(t, "error", "alert")
           \/ f = "finish" /\ Ends(t)
           \/ ssl[t] = "finish" /\ Repeats(t, "certificate")
           \/ ssl[t] = "done" /\ Repeats(t, "finished")
           \/ UNCHANGED <<ssl, srtp, state, down>>
<1>1. FeedData(t, f)
  BY DEF ReceiveDatagram
<1>2. CASE ssl[t] = "done"
  BY <1>1, <1>2 DEF FeedData, ReadAfterwards, Repeats
<1>3. CASE ssl[t] # "done"
  <2>1. DoHandshake(t, f)
    BY <1>1, <1>3 DEF FeedData
  <2>2. CASE f = "hello" /\ AcceptHello(t)
    BY <2>2 DEF AcceptHello, Begins
  <2>3. CASE /\ f = "finish" /\ ssl[t] = "finish"
             /\ ssl' = [ssl EXCEPT ![t] = "done"]
             /\ OnDtlsHandshakeComplete(t)
             /\ Sends(t, "finished", agent[t] = "connected")
    BY <2>3 DEF OnDtlsHandshakeComplete, InitSrtp, Ends
  <2>4. CASE /\ f = "hello" /\ ssl[t] = "finish"
             /\ WantsMore(t, agent[t] = "connected")
             /\ UNCHANGED state
    BY <2>4 DEF WantsMore, Repeats
  <2>5. CASE ssl[t] = "error" /\ UNCHANGED <<ssl, state, srtp, down>>
    BY <2>5
  <2>6. QED BY <2>1, <2>2, <2>3, <2>4, <2>5 DEF DoHandshake
<1>4. QED BY <1>2, <1>3

\* What is sent is one of the three flights.
LEMMA SendsType ==
    ASSUME SfuTypeOK, NEW t \in Transport,
           NEW f \in {"certificate", "finished", "alert"}, NEW c \in BOOLEAN, Sends(t, f, c)
    PROVE  down' \in [Transport -> SUBSET {"certificate", "finished", "alert"}]
BY DEF Sends, SfuTypeOK

\* A datagram keeps the types.
LEMMA ReceiveTypes ==
    ASSUME SfuTypeOK, NEW t \in Transport, NEW f \in {"hello", "finish"},
           ReceiveDatagram(t, f)
    PROVE  SfuTypeOK'
<1>1. up' \in [Transport -> SUBSET {"hello", "finish"}]
  BY DEF ReceiveDatagram, SfuTypeOK
<1> DEFINE Typed == /\ ssl' \in [Transport -> {"hello", "finish", "done", "error"}]
                    /\ srtp' \in [Transport -> BOOLEAN]
                    /\ state' \in [Transport -> {"NEW", "ICE_GATHERING", "ICE_CONNECTED",
                                               "CONNECTED", "FAILED"}]
                    /\ down' \in [Transport -> SUBSET {"certificate", "finished", "alert"}]
<1>2. Typed
  <2>1. CASE Begins(t, "finish", "certificate") \/ Begins(t, "error", "alert")
    BY <2>1, SendsType DEF Begins, SfuTypeOK
  <2>2. CASE Ends(t)
    BY <2>2, SendsType DEF Ends, SfuTypeOK
  <2>3. CASE Repeats(t, "certificate") \/ Repeats(t, "finished")
    BY <2>3, SendsType DEF Repeats, SfuTypeOK
  <2>4. CASE UNCHANGED <<ssl, srtp, state, down>>
    BY <2>4 DEF SfuTypeOK
  <2>5. QED BY <2>1, <2>2, <2>3, <2>4, ReceiveCases
<1>3. QED
  BY <1>1, <1>2 DEF ReceiveDatagram, SfuTypeOK, control, ice

(***************************************************************************)
(* Every step keeps every variable in its type.                            *)
(***************************************************************************)
LEMMA TypesKept == SfuTypeOK /\ [SfuNext]_sfuVars => SfuTypeOK'
<1> SUFFICES ASSUME SfuTypeOK, [SfuNext]_sfuVars PROVE SfuTypeOK'
  OBVIOUS
<1>1. CASE Control
  <2>1. PICK t \in Transport : \/ \E r \in {"post", "describe", "delete"} : Take(t, r)
                               \/ PostTransport(t)
                               \/ PostDescription(t)
                               \/ DeleteTransport(t)
                               \/ DestroyAgent(t)
    BY <1>1 DEF Control
  <2>2. CASE \E r \in {"post", "describe", "delete"} : Take(t, r)
    BY <2>2 DEF Take, SfuTypeOK, Requests, ice, network
  <2>3. CASE PostTransport(t)
    BY <2>3 DEF PostTransport, SfuTypeOK, ice, network
  <2>4. CASE PostDescription(t)
    BY <2>4 DEF PostDescription, SfuTypeOK, network
  <2>5. CASE DeleteTransport(t)
    BY <2>5 DEF DeleteTransport, SfuTypeOK, ice, network
  <2>6. CASE DestroyAgent(t)
    BY <2>6 DEF DestroyAgent, SfuTypeOK, ice, network
  <2>7. QED BY <2>1, <2>2, <2>3, <2>4, <2>5, <2>6
<1>2. CASE Crash
  BY <1>2 DEF Crash, SfuTypeOK, ice, network
<1>3. ASSUME NEW t \in Transport, Callback(t) PROVE SfuTypeOK'
  <2>1. CASE OnGatheringDone(t)
    BY <2>1 DEF OnGatheringDone, SfuTypeOK, control, network
  <2>2. CASE OnIceConnected(t)
    BY <2>2 DEF OnIceConnected, WantsMore, Sends, SfuTypeOK, control
  <2>3. CASE OnIceFailed(t)
    BY <2>3 DEF OnIceFailed, SfuTypeOK, control, network
  <2>4. CASE \E f \in {"hello", "finish"} : ReceiveDatagram(t, f)
    BY <2>4, ReceiveTypes
  <2>5. QED BY <1>3, <2>1, <2>2, <2>3, <2>4 DEF Callback
<1>4. ASSUME NEW t \in Transport, BrowserStarts(t) PROVE SfuTypeOK'
  BY <1>4 DEF BrowserStarts, SfuTypeOK, control, ice
<1>5. ASSUME NEW t \in Transport, BrowserRepeats(t) PROVE SfuTypeOK'
  BY <1>5 DEF BrowserRepeats, SfuTypeOK, control, ice
<1>6. ASSUME NEW t \in Transport, NEW f \in {"certificate", "finished", "alert"},
             BrowserReceives(t, f)
      PROVE  SfuTypeOK'
  BY <1>6 DEF BrowserReceives, SfuTypeOK, control, ice
<1>7. ASSUME NEW t \in Transport, Lose(t) PROVE SfuTypeOK'
  BY <1>7 DEF Lose, SfuTypeOK, control, ice
<1>8. CASE UNCHANGED sfuVars
  BY <1>8 DEF sfuVars, control, ice, network, SfuTypeOK
<1>9. QED
  BY <1>1, <1>2, <1>3, <1>4, <1>5, <1>6, <1>7, <1>8 DEF SfuNext

(***************************************************************************)
(* The variables of control_server.cpp, transport.cpp and their            *)
(* environment keep their types.                                           *)
(***************************************************************************)
THEOREM SfuTypeCorrect == SfuSpec => []SfuTypeOK
<1>1. SfuInit => SfuTypeOK
  <2> SUFFICES ASSUME SfuInit PROVE SfuTypeOK
    OBVIOUS
  <2>1. requests \subseteq Requests
    BY DEF SfuInit
  <2>2. /\ up \in [Transport -> SUBSET {"hello", "finish"}]
        /\ down \in [Transport -> SUBSET {"certificate", "finished", "alert"}]
    BY DEF SfuInit
  <2>3. QED BY <2>1, <2>2 DEF SfuInit, SfuTypeOK
<1>2. QED BY <1>1, TypesKept, PTL DEF SfuSpec

-----------------------------------------------------------------------------
(***************************************************************************)
(* A transport that a step leaves alone keeps what the invariant says.     *)
(***************************************************************************)
Same(u) ==
    /\ state'[u] = state[u] /\ agent'[u] = agent[u] /\ gathered'[u] = gathered[u]
    /\ ssl'[u] = ssl[u] /\ srtp'[u] = srtp[u] /\ browser'[u] = browser[u]
    /\ up'[u] = up[u] /\ down'[u] = down[u]

\* A transport that nothing touches.
LEMMA SameKeeps ==
    ASSUME NEW u \in Transport, Same(u), Flights(u), Ready(u)
    PROVE  Flights(u)' /\ Ready(u)'
BY DEF Same, Flights, Ready

(***************************************************************************)
(* The DTLS server keeps the invariant of its transport.                   *)
(***************************************************************************)
LEMMA ReceiveKeeps ==
    ASSUME SfuTypeOK, NEW t \in Transport, NEW f \in {"hello", "finish"},
           ReceiveDatagram(t, f), Flights(t), Ready(t)
    PROVE  Flights(t)' /\ Ready(t)'
<1>1. /\ agent' = agent /\ gathered' = gathered /\ browser' = browser
      /\ f \in up[t] /\ up'[t] \in SUBSET up[t]
  BY DEF ReceiveDatagram, ice, SfuTypeOK
<1>2. agent[t] = "gathering" => \A g : Sends(t, g, agent[t] = "connected") => down' = down
  BY DEF Sends
<1>3. \A g \in {"certificate", "finished", "alert"} :
          Sends(t, g, agent[t] = "connected") => down'[t] \in {down[t], down[t] \cup {g}}
  BY DEF Sends, SfuTypeOK
<1>4. CASE Begins(t, "finish", "certificate")
  <2>1. ssl'[t] = "finish" /\ ssl[t] = "hello" /\ state' = state /\ srtp' = srtp
    BY <1>4 DEF Begins, SfuTypeOK
  <2>2. /\ down'[t] \in {down[t], down[t] \cup {"certificate"}}
        /\ agent[t] = "gathering" => down' = down
    BY <1>2, <1>3, <1>4 DEF Begins
  <2>3. QED BY <1>1, <2>1, <2>2 DEF Flights, Ready
<1>5. CASE Begins(t, "error", "alert")
  <2>1. ssl'[t] = "error" /\ ssl[t] = "hello" /\ state' = state /\ srtp' = srtp
    BY <1>5 DEF Begins, SfuTypeOK
  <2>2. /\ down'[t] \in {down[t], down[t] \cup {"alert"}}
        /\ agent[t] = "gathering" => down' = down
    BY <1>2, <1>3, <1>5 DEF Begins
  <2>3. QED BY <1>1, <2>1, <2>2 DEF Flights, Ready
<1>6. CASE f = "finish" /\ Ends(t)
  <2>1. ssl'[t] = "done" /\ ssl[t] = "finish" /\ srtp'[t] /\ state'[t] = "CONNECTED"
    BY <1>6 DEF Ends, SfuTypeOK
  <2>2. /\ down'[t] \in {down[t], down[t] \cup {"finished"}}
        /\ agent[t] = "gathering" => down' = down
    BY <1>2, <1>3, <1>6 DEF Ends
  <2>3. browser[t] \in {"finish", "done"} /\ agent[t] # "gathering"
    BY <1>1, <1>6, <2>1 DEF Flights
  <2>4. QED BY <1>1, <2>1, <2>2, <2>3 DEF Flights, Ready
<1>7. CASE ssl[t] = "finish" /\ Repeats(t, "certificate")
  <2>1. ssl' = ssl /\ state' = state /\ srtp' = srtp
    BY <1>7 DEF Repeats
  <2>2. /\ down'[t] \in {down[t], down[t] \cup {"certificate"}}
        /\ agent[t] = "gathering" => down' = down
    BY <1>2, <1>3, <1>7 DEF Repeats
  <2>3. QED BY <1>1, <2>1, <2>2 DEF Flights, Ready
<1>8. CASE ssl[t] = "done" /\ Repeats(t, "finished")
  <2>1. ssl' = ssl /\ state' = state /\ srtp' = srtp
    BY <1>8 DEF Repeats
  <2>2. /\ down'[t] \in {down[t], down[t] \cup {"finished"}}
        /\ agent[t] = "gathering" => down' = down
    BY <1>2, <1>3, <1>8 DEF Repeats
  <2>3. QED BY <1>1, <1>8, <2>1, <2>2 DEF Flights, Ready
<1>9. CASE UNCHANGED <<ssl, srtp, state, down>>
  BY <1>1, <1>9 DEF Flights, Ready
<1>10. QED BY <1>4, <1>5, <1>6, <1>7, <1>8, <1>9, ReceiveCases

(***************************************************************************)
(* Every step of a transport, its browser and their network leaves the     *)
(* other transports alone and keeps the invariant of its own.              *)
(***************************************************************************)
LEMMA OnlyOne ==
    ASSUME SfuTypeOK, NEW t \in Transport, NEW u \in Transport \ {t},
           \/ Callback(t) \/ BrowserStarts(t) \/ BrowserRepeats(t) \/ Lose(t)
           \/ \E f \in {"certificate", "finished", "alert"} : BrowserReceives(t, f)
    PROVE  Same(u)
<1>1. CASE OnGatheringDone(t)
  BY <1>1 DEF OnGatheringDone, Same, SfuTypeOK, network
<1>2. CASE OnIceConnected(t)
  BY <1>2 DEF OnIceConnected, WantsMore, Sends, Same, SfuTypeOK
<1>3. CASE OnIceFailed(t)
  BY <1>3 DEF OnIceFailed, Same, SfuTypeOK, network
<1>4. ASSUME NEW f \in {"hello", "finish"}, ReceiveDatagram(t, f) PROVE Same(u)
  <2>1. /\ agent' = agent /\ gathered' = gathered /\ browser' = browser /\ up'[u] = up[u]
    BY <1>4 DEF ReceiveDatagram, ice, SfuTypeOK
  <2>2. ssl'[u] = ssl[u] /\ srtp'[u] = srtp[u] /\ state'[u] = state[u] /\ down'[u] = down[u]
    BY <1>4, ReceiveCases DEF Begins, Ends, Repeats, Sends, SfuTypeOK
  <2>3. QED BY <2>1, <2>2 DEF Same
<1>5. CASE BrowserStarts(t) \/ BrowserRepeats(t)
  BY <1>5 DEF BrowserStarts, BrowserRepeats, Same, SfuTypeOK, ice
<1>6. CASE Lose(t)
  BY <1>6 DEF Lose, Same, SfuTypeOK, ice
<1>7. ASSUME NEW f \in {"certificate", "finished", "alert"}, BrowserReceives(t, f)
      PROVE  Same(u)
  BY <1>7 DEF BrowserReceives, Same, SfuTypeOK, ice
<1>8. QED BY <1>1, <1>2, <1>3, <1>4, <1>5, <1>6, <1>7 DEF Callback

\* Every step keeps the invariant.
LEMMA HandshakeKept == SfuTypeOK /\ HandshakeInv /\ [SfuNext]_sfuVars => HandshakeInv'
<1> SUFFICES ASSUME SfuTypeOK, HandshakeInv, [SfuNext]_sfuVars, NEW u \in Transport
             PROVE  Flights(u)' /\ Ready(u)'
  BY DEF HandshakeInv
<1>0. Flights(u) /\ Ready(u)
  BY DEF HandshakeInv
<1>1. CASE UNCHANGED handshake
  BY <1>0, <1>1, SameKeeps DEF handshake, Same
<1>2. CASE Control \/ Crash \/ UNCHANGED sfuVars
  <2>1. UNCHANGED handshake
    BY <1>2, ControlLeavesHandshake DEF sfuVars, ice, network, handshake
  <2>2. QED BY <1>1, <2>1
<1>3. ASSUME NEW t \in Transport \ {u},
             \/ Callback(t) \/ BrowserStarts(t) \/ BrowserRepeats(t) \/ Lose(t)
             \/ \E f \in {"certificate", "finished", "alert"} : BrowserReceives(t, f)
      PROVE  Flights(u)' /\ Ready(u)'
  BY <1>0, <1>3, OnlyOne, SameKeeps
<1>4. CASE OnGatheringDone(u)
  BY <1>0, <1>4 DEF OnGatheringDone, Flights, Ready, SfuTypeOK, network
<1>5. CASE OnIceConnected(u)
  <2>1. /\ agent[u] = "gathering" /\ agent'[u] = "connected" /\ state'[u] = "ICE_CONNECTED"
        /\ ssl' = ssl /\ srtp' = srtp /\ browser' = browser /\ up' = up
    BY <1>5 DEF OnIceConnected, WantsMore, SfuTypeOK
  <2>2. down'[u] \in {down[u], down[u] \cup {"certificate"}}
    BY <1>5 DEF OnIceConnected, WantsMore, Sends, SfuTypeOK
  <2>3. QED BY <1>0, <2>1, <2>2 DEF Flights, Ready
<1>6. CASE OnIceFailed(u)
  BY <1>0, <1>6 DEF OnIceFailed, Flights, Ready, SfuTypeOK, network
<1>7. CASE \E f \in {"hello", "finish"} : ReceiveDatagram(u, f)
  BY <1>0, <1>7, ReceiveKeeps
<1>8. CASE BrowserStarts(u) \/ BrowserRepeats(u)
  BY <1>0, <1>8 DEF BrowserStarts, BrowserRepeats, Flights, Ready, SfuTypeOK, ice
<1>9. CASE Lose(u)
  BY <1>0, <1>9 DEF Lose, Flights, Ready, SfuTypeOK, ice
<1>10. ASSUME NEW f \in {"certificate", "finished", "alert"}, BrowserReceives(u, f)
       PROVE  Flights(u)' /\ Ready(u)'
  <2>1. /\ state' = state /\ agent' = agent /\ gathered' = gathered /\ ssl' = ssl
        /\ srtp' = srtp /\ f \in down[u] /\ down'[u] \in SUBSET down[u]
    BY <1>10 DEF BrowserReceives, SfuTypeOK, ice
  <2>2. \/ /\ f = "certificate" /\ browser[u] = "hello" /\ browser'[u] = "finish"
           /\ up'[u] = up[u] \cup {"finish"}
        \/ f = "finished" /\ browser[u] = "finish" /\ browser'[u] = "done" /\ up' = up
        \/ f = "alert" /\ browser'[u] = "failed" /\ up' = up
        \/ browser' = browser /\ up' = up
    BY <1>10 DEF BrowserReceives, SfuTypeOK
  <2>3. QED BY <1>0, <2>1, <2>2 DEF Flights, Ready
<1>11. QED
  BY <1>2, <1>3, <1>4, <1>5, <1>6, <1>7, <1>8, <1>9, <1>10 DEF SfuNext, Callback

\* It holds of every behaviour.
LEMMA HandshakeHolds == SfuSpec => [](SfuTypeOK /\ HandshakeInv)
<1>1. SfuInit => HandshakeInv
  BY DEF SfuInit, HandshakeInv, Flights, Ready
<1>2. QED BY <1>1, SfuTypeCorrect, HandshakeKept, PTL DEF SfuSpec

(***************************************************************************)
(* doHandshake() never ends before onIceStateChange() told the SFU that it *)
(* is connected, so that the SRTP sessions are made once.                  *)
(***************************************************************************)
THEOREM KeysAreMadeOnce == SfuSpec => []KeysMadeOnce
<1>1. HandshakeInv => KeysMadeOnce
  BY DEF HandshakeInv, Ready, KeysMadeOnce
<1>2. QED BY <1>1, HandshakeHolds, PTL

(***************************************************************************)
(* sendRtp(), onRtp() and onRtcp() pass their test of state_ only when     *)
(* there are keys, which the browser has too or is about to have.          *)
(***************************************************************************)
THEOREM NoMediaWithoutKeys == SfuSpec => []MediaOnlyWithKeys
<1>1. HandshakeInv => MediaOnlyWithKeys
  BY DEF HandshakeInv, Ready, MediaOnlyWithKeys
<1>2. QED BY <1>1, HandshakeHolds, PTL

(***************************************************************************)
(* When a browser has ended the handshake, the transport it talks to has   *)
(* its keys and lets media through, unless ICE failed or gathering ended   *)
(* after the handshake.                                                    *)
(***************************************************************************)
THEOREM TransportIsReady == SfuSpec => []ReadyBeforeBrowser
<1>1. HandshakeInv => ReadyBeforeBrowser
  BY DEF HandshakeInv, Flights, Ready, ReadyBeforeBrowser
<1>2. QED BY <1>1, HandshakeHolds, PTL
=============================================================================
