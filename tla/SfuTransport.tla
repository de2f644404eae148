---------------------------- MODULE SfuTransport ----------------------------
(***************************************************************************)
(* The transports of the SFU: the HTTP handlers of sfu/src/                *)
(* control_server.cpp, each WebRtcTransport (transport.cpp) with its ICE   *)
(* agent, its DTLS server and its SRTP sessions, and the browser at the    *)
(* other end, which is the DTLS client (a=setup:passive in the answer).    *)
(*                                                                         *)
(* The handlers run on the threads of the HTTP server and share            *)
(* transports_ without a lock; the callbacks of all agents run on the one  *)
(* thread of libjuice, one at a time.                                      *)
(*                                                                         *)
(* A handshake has four flights: "hello" and "finish" of the browser,      *)
(* "certificate" and "finished" of the SFU.  Datagrams are lost, reordered *)
(* and repeated.  The browser has a timer; the SFU has none, and OpenSSL   *)
(* looks at its own only when it is called with nothing left to read.      *)
(*                                                                         *)
(* Not modelled: close(), sendRtp() and onPublisherRtp(), which no code    *)
(* calls, and the contents of media.  (SrtpContext::init() is called with  *)
(* isClient = false and so takes the keys of the two directions for one    *)
(* another: the packets of the browser, though let through by the state,   *)
(* cannot be unprotected.)                                                 *)
(***************************************************************************)
EXTENDS FiniteSets

CONSTANT Transport

VARIABLES requests, \* what the HTTP threads are handling
          crashed,  \* the process met undefined behaviour and stopped
          table,    \* transports_ and what is left of those erased from it
          state,    \* state_
          agent,    \* what the ICE agent last told
          gathered, \* it has told that gathering is done
          described,\* it has the description of the browser
          ssl,      \* the flight that the DTLS server waits for, "done" or "error"
          srtp,     \* initialized_
          browser,  \* the flight that the browser repeats, "idle", "done" or "failed"
          up, down  \* datagrams on their way to the SFU and to the browser

control == <<requests, crashed, table>>
ice == <<agent, gathered, described>>
network == <<up, down>>
sfuVars == <<control, state, ice, ssl, srtp, browser, network>>

Requests == Transport \X {"post", "describe", "delete"}

SfuTypeOK ==
    /\ requests \subseteq Requests
    /\ crashed \in BOOLEAN
    /\ table \in [Transport -> {"absent", "open", "freeing", "gone"}]
    /\ state \in [Transport -> {"NEW", "ICE_GATHERING", "ICE_CONNECTED", "CONNECTED", "FAILED"}]
    /\ agent \in [Transport -> {"gathering", "connected", "failed"}]
    /\ gathered \in [Transport -> BOOLEAN] /\ described \in [Transport -> BOOLEAN]
    /\ ssl \in [Transport -> {"hello", "finish", "done", "error"}]
    /\ srtp \in [Transport -> BOOLEAN]
    /\ browser \in [Transport -> {"idle", "hello", "finish", "done", "failed"}]
    /\ up \in [Transport -> SUBSET {"hello", "finish"}]
    /\ down \in [Transport -> SUBSET {"certificate", "finished", "alert"}]

SfuInit ==
    /\ requests = {} /\ crashed = FALSE
    /\ table = [t \in Transport |-> "absent"]
    /\ state = [t \in Transport |-> "NEW"]
    /\ agent = [t \in Transport |-> "gathering"]
    /\ gathered = [t \in Transport |-> FALSE]
    /\ described = [t \in Transport |-> FALSE]
    /\ ssl = [t \in Transport |-> "hello"]
    /\ srtp = [t \in Transport |-> FALSE]
    /\ browser = [t \in Transport |-> "idle"]
    /\ up = [t \in Transport |-> {}]
    /\ down = [t \in Transport |-> {}]

-----------------------------------------------------------------------------
(* The answer to "post" says where the SFU is, and that it is passive. *)
Answered(t) == table[t] # "absent"

(***************************************************************************)
(* The control API.  A request is taken by a thread, then handled.         *)
(***************************************************************************)
Take(t, r) ==
    /\ <<t, r>> \notin requests
    /\ r = "post" => table[t] = "absent"
    /\ r = "describe" => Answered(t) /\ ~described[t]
    /\ r = "delete" => Answered(t)
    /\ requests' = requests \cup {<<t, r>>}
    /\ UNCHANGED <<crashed, table, state, ice, ssl, srtp, browser, network>>

(* The constructor starts the agent, and the callbacks may come.  *)
PostTransport(t) ==
    /\ <<t, "post">> \in requests
    /\ requests' = requests \ {<<t, "post">>}
    /\ table' = [table EXCEPT ![t] = "open"]
    /\ UNCHANGED <<crashed, state, ice, ssl, srtp, browser, network>>

(* A description of a transport that is not in the map is answered 404.    *)
PostDescription(t) ==
    /\ <<t, "describe">> \in requests
    /\ requests' = requests \ {<<t, "describe">>}
    /\ described' = [described EXCEPT ![t] = @ \/ table[t] = "open"]
    /\ UNCHANGED <<crashed, table, state, agent, gathered, ssl, srtp, browser, network>>

(***************************************************************************)
(* erase() destroys the transport, its members in the reverse of the order *)
(* they are declared in: srtp_, dtls_ and, at last, the agent.  Until then *)
(* the agent calls back into a transport that is half gone.                *)
(***************************************************************************)
DeleteTransport(t) ==
    /\ <<t, "delete">> \in requests
    /\ \/ /\ table[t] = "open"
          /\ table' = [table EXCEPT ![t] = "freeing"]
          /\ UNCHANGED requests
       \/ /\ table[t] = "gone"
          /\ requests' = requests \ {<<t, "delete">>}
          /\ UNCHANGED table
    /\ UNCHANGED <<crashed, state, ice, ssl, srtp, browser, network>>

DestroyAgent(t) ==
    /\ table[t] = "freeing"
    /\ table' = [table EXCEPT ![t] = "gone"]
    /\ requests' = requests \ {<<t, "delete">>}
    /\ UNCHANGED <<crashed, state, ice, ssl, srtp, browser, network>>

Control == \E t \in Transport : \/ \E r \in {"post", "describe", "delete"} : Take(t, r)
                                \/ PostTransport(t)
                                \/ PostDescription(t)
                                \/ DeleteTransport(t)
                                \/ DestroyAgent(t)

(***************************************************************************)
(* Undefined behaviour: two threads in transports_ of which one changes    *)
(* it, or a callback that meets the freed parts.  When it does no harm the *)
(* steps are those of the other actions; here it stops the process.        *)
(***************************************************************************)
Crash ==
    /\ \/ \E q, r \in requests : q # r /\ q[2] \in {"post", "delete"}
       \/ \E t \in Transport : table[t] = "freeing"
    /\ crashed' = TRUE
    /\ UNCHANGED <<requests, table, state, ice, ssl, srtp, browser, network>>

-----------------------------------------------------------------------------
(***************************************************************************)
(* The DTLS server.  What it sends goes through juice_send(), which has no *)
(* address to send to before a pair is selected, and is not repeated.      *)
(***************************************************************************)
\* Faulty: as if the agent had an address to send to before it is connected.
SendsAnyway(t, f, connected) ==
    down' = [down EXCEPT ![t] = @ \cup {f}]

Sends(t, f, connected) ==
    down' = IF connected THEN [down EXCEPT ![t] = @ \cup {f}] ELSE down

(* SSL_do_handshake() with nothing to read repeats the flight when the     *)
(* timer of OpenSSL is over, and wants more otherwise.                     *)
WantsMore(t, connected) ==
    /\ UNCHANGED <<ssl, srtp>>
    /\ \/ ssl[t] = "finish" /\ Sends(t, "certificate", connected)
       \/ UNCHANGED down

(* Both sessions are made of the keys of this handshake. *)
InitSrtp(t) == srtp' = [srtp EXCEPT ![t] = TRUE]

\* Faulty: the state waits for ICE, which was connected before.
CompleteBeforeIce(t) ==
    /\ InitSrtp(t)
    /\ state' = IF agent[t] = "connected" THEN state
                ELSE [state EXCEPT ![t] = "CONNECTED"]

OnDtlsHandshakeComplete(t) ==
    /\ InitSrtp(t)
    /\ state' = [state EXCEPT ![t] = "CONNECTED"]

(* The offer of the browser is acceptable or not.  Why not is only logged. *)
AcceptHello(t) ==
    /\ ssl[t] = "hello"
    /\ \/ ssl' = [ssl EXCEPT ![t] = "finish"] /\ Sends(t, "certificate", agent[t] = "connected")
       \/ ssl' = [ssl EXCEPT ![t] = "error"] /\ Sends(t, "alert", agent[t] = "connected")
    /\ UNCHANGED <<state, srtp>>

DoHandshake(t, f) ==
    \/ f = "hello" /\ AcceptHello(t)
    \/ /\ f = "finish" /\ ssl[t] = "finish"
       /\ ssl' = [ssl EXCEPT ![t] = "done"]
       /\ OnDtlsHandshakeComplete(t)
       /\ Sends(t, "finished", agent[t] = "connected")
    \/ /\ f = "hello" /\ ssl[t] = "finish"
       /\ WantsMore(t, agent[t] = "connected")
       /\ UNCHANGED state
    \/ /\ ssl[t] = "error"
       /\ UNCHANGED <<ssl, state, srtp, down>>

(* SSL_read() repeats the last flight when the browser has repeated its.   *)
\* Faulty: feedData() does not flush what SSL_read() answers.
ReadWithoutFlush(t, f) ==
    UNCHANGED <<ssl, state, srtp, down>>

ReadAfterwards(t, f) ==
    /\ IF f = "finish" THEN Sends(t, "finished", agent[t] = "connected") ELSE UNCHANGED down
    /\ UNCHANGED <<ssl, state, srtp>>

FeedData(t, f) ==
    IF ssl[t] # "done" THEN DoHandshake(t, f) ELSE ReadAfterwards(t, f)

(* Whether an agent still calls back.                                      *)
CallsBack(t) == table[t] \in {"open", "freeing"} /\ agent[t] # "failed"

(* The network may keep a copy of what it delivers.                        *)
ReceiveDatagram(t, f) ==
    /\ CallsBack(t)
    /\ f \in up[t]
    /\ up' \in {up, [up EXCEPT ![t] = @ \ {f}]}
    /\ FeedData(t, f)
    /\ UNCHANGED <<control, ice, browser>>

-----------------------------------------------------------------------------
(***************************************************************************)
(* The callbacks of the agent.  Gathering waits for a STUN server and may  *)
(* be done long after a pair of local addresses is connected.              *)
(***************************************************************************)
OnGatheringDone(t) ==
    /\ CallsBack(t) /\ ~gathered[t]
    /\ gathered' = [gathered EXCEPT ![t] = TRUE]
    /\ state' = [state EXCEPT ![t] = "ICE_GATHERING"]
    /\ UNCHANGED <<control, agent, described, ssl, srtp, browser, network>>

\* Faulty: media is let through once ICE is connected.
ConnectedByIce(t) ==
    /\ CallsBack(t) /\ described[t] /\ agent[t] = "gathering"
    /\ agent' = [agent EXCEPT ![t] = "connected"]
    /\ state' = [state EXCEPT ![t] = "CONNECTED"]
    /\ WantsMore(t, TRUE)
    /\ UNCHANGED <<control, gathered, described, browser, up>>

(* startHandshake() finds the handshake at most half way: see KeysMadeOnce. *)
OnIceConnected(t) ==
    /\ CallsBack(t) /\ described[t] /\ agent[t] = "gathering"
    /\ agent' = [agent EXCEPT ![t] = "connected"]
    /\ state' = [state EXCEPT ![t] = "ICE_CONNECTED"]
    /\ WantsMore(t, TRUE)
    /\ UNCHANGED <<control, gathered, described, browser, up>>

OnIceFailed(t) ==
    /\ CallsBack(t) /\ described[t]
    /\ agent' = [agent EXCEPT ![t] = "failed"]
    /\ state' = [state EXCEPT ![t] = "FAILED"]
    /\ UNCHANGED <<control, gathered, described, ssl, srtp, browser, network>>

Callback(t) ==
    \/ OnGatheringDone(t)
    \/ OnIceConnected(t)
    \/ OnIceFailed(t)
    \/ \E f \in {"hello", "finish"} : ReceiveDatagram(t, f)

-----------------------------------------------------------------------------
(***************************************************************************)
(* The browser and the network.                                            *)
(***************************************************************************)
BrowserStarts(t) ==
    /\ browser[t] = "idle" /\ Answered(t)
    /\ browser' = [browser EXCEPT ![t] = "hello"]
    /\ up' = [up EXCEPT ![t] = @ \cup {"hello"}]
    /\ UNCHANGED <<control, state, ice, ssl, srtp, down>>

BrowserRepeats(t) ==
    /\ browser[t] \in {"hello", "finish"}
    /\ up' = [up EXCEPT ![t] = @ \cup {browser[t]}]
    /\ UNCHANGED <<control, state, ice, ssl, srtp, browser, down>>

BrowserReceives(t, f) ==
    /\ f \in down[t]
    /\ down' \in {down, [down EXCEPT ![t] = @ \ {f}]}
    /\ \/ /\ f = "certificate" /\ browser[t] = "hello"
          /\ browser' = [browser EXCEPT ![t] = "finish"]
          /\ up' = [up EXCEPT ![t] = @ \cup {"finish"}]
       \/ /\ f = "finished" /\ browser[t] = "finish"
          /\ browser' = [browser EXCEPT ![t] = "done"]
          /\ UNCHANGED up
       \/ /\ f = "alert" /\ browser[t] # "done"
          /\ browser' = [browser EXCEPT ![t] = "failed"]
          /\ UNCHANGED up
       \/ /\ \/ f = "certificate" /\ browser[t] # "hello"
             \/ f = "finished" /\ browser[t] # "finish"
          /\ UNCHANGED <<browser, up>>
    /\ UNCHANGED <<control, state, ice, ssl, srtp>>

Lose(t) ==
    /\ \/ \E f \in up[t] : up' = [up EXCEPT ![t] = @ \ {f}] /\ UNCHANGED down
       \/ \E f \in down[t] : down' = [down EXCEPT ![t] = @ \ {f}] /\ UNCHANGED up
    /\ UNCHANGED <<control, state, ice, ssl, srtp, browser>>

SfuNext ==
    /\ ~crashed
    /\ \/ Control
       \/ Crash
       \/ \E t \in Transport :
             \/ Callback(t)
             \/ BrowserStarts(t)
             \/ BrowserRepeats(t)
             \/ \E f \in {"certificate", "finished", "alert"} : BrowserReceives(t, f)
             \/ Lose(t)

SfuSpec == SfuInit /\ [][SfuNext]_sfuVars

(***************************************************************************)
(* A browser starts, has a timer and goes on; a network loses datagrams    *)
(* but not all of them; and a browser waits longer each time, so that at   *)
(* last the timer of OpenSSL is over when the SFU hears from it again.     *)
(***************************************************************************)
HeardLate(t) == ReceiveDatagram(t, "hello") /\ (ssl[t] = "finish" => "certificate" \in down'[t])

SfuFairness ==
    \A t \in Transport :
        /\ WF_sfuVars(BrowserStarts(t) /\ ~crashed)
        /\ WF_sfuVars(BrowserRepeats(t) /\ ~crashed)
        /\ SF_sfuVars(HeardLate(t) /\ ~crashed)
        /\ SF_sfuVars(ReceiveDatagram(t, "finish") /\ ~crashed)
        /\ SF_sfuVars(BrowserReceives(t, "certificate") /\ ~crashed)
        /\ SF_sfuVars(BrowserReceives(t, "finished") /\ ~crashed)

SfuFairSpec == SfuSpec /\ SfuFairness

-----------------------------------------------------------------------------
(***************************************************************************)
(* The handshake never ends before the agent told that it is connected,    *)
(* though it may begin before: doHandshake(), which both feedData() and    *)
(* startHandshake() call and which makes the SRTP sessions each time       *)
(* SSL_do_handshake() returns 1, makes them once.                          *)
(***************************************************************************)
KeysMadeOnce == \A t \in Transport : ssl[t] = "done" => agent[t] # "gathering"

(***************************************************************************)
(* In the state that lets media through (sendRtp, onRtp and onRtcp) there  *)
(* are keys, and they are those the browser has or is about to have.       *)
(***************************************************************************)
MediaOnlyWithKeys ==
    \A t \in Transport :
        state[t] = "CONNECTED" => srtp[t] /\ browser[t] \in {"finish", "done"}

(***************************************************************************)
(* A browser that has ended the handshake, and sends media, meets a        *)
(* transport that is ready: it has keys, and it is CONNECTED unless ICE    *)
(* failed or gathering was done last.  (That it is then ICE_GATHERING for  *)
(* ever is not what docs/SFU_PROTOCOL.md, section 3, draws.)               *)
(***************************************************************************)
ReadyBeforeBrowser ==
    \A t \in Transport :
        browser[t] = "done" =>
            /\ srtp[t]
            /\ \/ state[t] \in {"CONNECTED", "FAILED"}
               \/ state[t] = "ICE_GATHERING" /\ gathered[t]

(***************************************************************************)
(* Once ICE is connected the browser ends the handshake, although only     *)
(* its own timer makes up for what is lost, unless its offer is refused,   *)
(* ICE fails, the transport is deleted or the process stops.               *)
(***************************************************************************)
BrowserCompletes ==
    \A t \in Transport :
        agent[t] = "connected" ~>
            \/ browser[t] = "done"
            \/ ssl[t] = "error" \/ agent[t] = "failed" \/ table[t] # "open" \/ crashed
=============================================================================
