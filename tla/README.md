# maia-meet: specifications, model checking and proofs

TLA+ models of maia-meet, a small video meeting service: a signaling server that
keeps rooms in memory, browser clients that form a full mesh of WebRTC peer
connections, an experimental SFU in C++ and the scripts that install the service.
The models follow the source, with the source's names; PROJECT.json gives, for
every definition that models code, the file and the lines it stands for.

## The system

### Components

| component | state it keeps | operations |
|---|---|---|
| signaling server, `signaling/src/server.js` | `rooms` (room id → participants), per connection `participant`, `ws.isAlive`, `tokens`/`refillAt` | connection, message (ping, room.create, room.join, webrtc.*, chat.send), pong, error, close, heartbeat, shutdown |
| client signaling, `client/js/signaling.js` | `ws`, `isIntentionalClose`, `pendingRequests` with their timers | connect, disconnect, send, sendRequest, handleMessage |
| client session, `client/js/app.js`, `room.js` | the view, the globals `signaling`, `webrtc`, `isMuted`…, `RoomState.participants` | preview, join, leave, toggles, the handlers of signaling events |
| client mesh, `client/js/webrtc.js` | `peers`, `queues`, `departed`, `closed`, per peer `candidates` | start, handle (offer, answer, candidate), replaceTrack, removePeer, close |
| client devices, `client/js/devices.js` | `localStream`, `captureVersion`, `screenStream`, recorder, audio graph | getLocalStream, acquireTrack, setCamera/Microphone, screen share, recording, stop |
| SFU transport, `sfu/src/transport.cpp` (ICE, DTLS, SRTP) | `state_`, the keys, `rtpCallback_` | callbacks of ICE and DTLS, send and receive of RTP/RTCP, close |
| SFU routing, `router.cpp`, `rtp_rewriter.cpp` | publishers, routes, per subscription the offsets of sequence numbers and time stamps | add/remove publisher and subscription, route, rewrite |
| SFU control and conferences | the map of transports; conferences | HTTP POST/DELETE of transports, descriptions, candidates |
| installers, `deploy/install-*.py` | files, links and services of the host, their backups | prepare, install, roll back |

`client/js/ui.js`, `chat.js` keep no state but the DOM: the view, the tiles and what
the buttons show. `signaling/src/rooms.js`,
`participants.js` and `sfu-client.js` are imported by nothing. The SFU is not part
of the runtime: the server relays signals between browsers and nothing talks to it.

### Interactions

A browser opens one WebSocket per attempt at joining. It sends requests
(`room.join` with a request id, the others without); the server handles each in one
callback, answers on the same socket and broadcasts to the sockets of the room. A
newcomer offers to everyone in the `room.joined` it is sent; those who were there
answer. Offers, answers and candidates travel through the server from one
participant to one other. When a socket closes, the server tells the rest of the
room, and each of them closes its peer connection with the one who left. The
heartbeat (30 s) terminates sockets that did not answer the previous ping. A restart
of the server empties every room: browsers see their sockets close and go back to
the lobby.

### What is hard

- A server callback is atomic, the protocol is not: a join, a close and a relay of
  different sockets interleave in every order, on sockets that are closing, half
  open, or whose peer is gone.
- Nothing is retried. What `send()` drops and what a dead link swallows is lost; the
  design relies on closing and on the heartbeat to repair.
- In the browser every `await` is a point where the user may leave, the socket may
  close or another attempt may start, and the coroutine goes on with whatever the
  globals hold then.
- A peer's signaling operations are asynchronous and must be serial, while
  candidates come before, between and after them.
- Timers race with answers.
- A recorder ends when the tracks of its stream change, and its last data come later.
- An installation is a sequence of writes and commands, any of which may fail or be
  the last, and the next one starts from what is left.

The list `hazards` of PROJECT.json has each of these at its line, with the
properties that cover it, or why none does.

### What makes each component correct

- **Signaling server**: the Map of rooms and the connections agree; capacity; rooms
  are isolated; everyone learns who is there, all in one order; nobody is heard of
  before being introduced or after leaving; lost connections are removed; rooms are
  entered once and left for good.
- **Client session**: one connection at most, only while a room is shown, and by the
  latest attempt; every attempt settles; a loss leads to the lobby; an attempt that
  is over does not act on the next.
- **Mesh**: descriptions are applied in the state they need; peer connections exist
  only with participants of the room, who have a tile each; members that stay become
  connected, with every candidate.
- **Devices**: whatever is captured can be switched off; who shows muted is silent; a
  screen stays shared; newcomers are sent what is published; nothing records but what
  the button shows; no recording is lost.
- **SFU routing**: distances between packets are kept, time advances at a switch.
- **SFU transport**: there are keys before media is let through, made once; who ended
  the handshake meets a transport that is ready; the handshake ends whatever is lost.
- **Installers**: an installation that fails leaves what was there before; one that
  ends well is served, whatever an earlier one left; the current release is whole.

## The modules

```
RoomMembership         what the signaling service promises about rooms
      ^ implements
Signaling              server.js + network + room.js          <- SignalingProofs
      ^ implements, extends                                      ^ extends
Mesh                   webrtc.js over Signaling, real clients <- MeshProofs
ClientSession          app.js + signaling.js of one tab       <- ClientSessionProofs
LocalMedia             devices.js + tracks of webrtc.js
      ^ extends
Recorder               recording, over LocalMedia             <- TabProofs
RateLimiter            the token bucket of server.js          <- RateLimiterProofs
RtpRewriter            rtp_rewriter.cpp of the SFU            <- RtpRewriterProofs
SfuTransport           transport.cpp, its ICE, DTLS and SRTP, <- SfuTransportProofs
                       and the requests of control_server.cpp
Install                install-apps.py, install-vps.py, host  <- InstallProofs
MCSignaling, MCMesh, MCLocalMedia, MCRecorder, MCRtpRewriter   instances for TLC
```

### RoomMembership

The abstract specification: each connection is in no room, then in one room, then
gone for good, and no room is overfull. Its steps are `Enter`, `Leave` and
`EmptyRooms` (a restart).

### Signaling

| TLA+ | source |
|---|---|
| `sock[c]` | `readyState` of the server's WebSocket: `open`, `closing` until the 'close' event, then `closed` |
| `participant[c]` | the closure variable `participant`; its room, or `NoRoom` for `undefined` |
| `rooms` | the Map `rooms`, a function whose domain is the set of its keys |
| `alive[c]`, `running` | `ws.isAlive`; whether the server listens and the heartbeat timer runs |
| `link[c]` | the client's end: `up`, `closed` by the client, or `lost` in the network |
| `inbox[c]` | the messages sent and not delivered: one FIFO per connection, as TCP gives |
| `roster[c]` | `RoomState.participants` of the client |

A server callback runs to completion, so each is one action. The 'message' handler
is one action per way through it (`Join`, `JoinFull`, `Relay`, `RelayNoTarget`, …;
`Refused` groups those that only answer an error). `OnClose` is the 'close' handler
with its broadcast, `HeartbeatTick` a round over all of `wss.clients`, `Shutdown` and
`Restart` the end of the process, orderly or not. `Reaches` is the test in `send()`
with the fate of bytes on a dead link.

Abstractions: a participant's random identifier is the connection itself (a
connection joins once); payloads and error codes are not told apart; the token bucket
is reduced to its verdict, so any message may be refused with 429; the HTTP server
and the parsing of the configuration are left out. A request is any that a client can
send at any time, whatever it was told: clients of this module are arbitrary.

### Mesh

Extends Signaling by what a real client sends and does: `outbox` (requests under
way), `session` (the stages of `onJoinRoom()` and `WebRtcSession`), `departed`, `pc`
(the RTCPeerConnection with its buffer of candidates, reduced to its signaling state
and counts) and `ops` (the chains of promises of `queues`). An operation that awaits
is several steps; its continuation stays at the head of its queue. Operations still
queued when a peer leaves do nothing, so they are dropped at once. `addIceCandidate`
always succeeds; the tracks that are sent are the subject of LocalMedia.

`tiles` is the grid of videos: the listeners of RoomState put a tile up and take it
down, and so does `onRemoteTrack` put one up when a description brings tracks
(`ShowTracks`), possibly in an operation that was under way when somebody left. A
message of the chat is read as soon as it is sent (`SayAndRead`), one at a time: it is
there for the order of events in a room. `MeshAssumption` says that requests may be
refused (`"refused" \in Traffic`): a room may be full and a target gone.

### ClientSession

One tab: the view, the attempts at joining one after another, and for each the state
of its WebSocket, its `isIntentionalClose` and what its coroutine awaits.
`LeaveRoom` acts on the globals, so on the latest attempt, and not on the attempt
whose callback called it. Timers may fire at any time while they are set. The server
is any server.

### LocalMedia

| TLA+ | source |
|---|---|
| `view`, `muted`, `camera` | the view, `isMuted`, `isVideoEnabled` of app.js |
| `live`, `disabled` | the tracks that are capturing (`readyState`), those with `enabled = false` |
| `local`, `screen`, `watched` | `devices.localStream`, the track of `devices.screenStream`, the tracks with an `onended` handler |
| `tasks[k]` | a coroutine of a button or of the preview: what it does, what it waits for |
| `session`, `published` | `webrtc` is not null, `webrtc.localStream` |
| `peers`, `provide`, `sent` | the peer connections, what `handle()` has still to give to one, the tracks of its senders |
| `chain[p]` | who awaits the operations on p's senders, in the order in which they settle |

Every button of app.js is an action that runs to its first `await`; `Answer` and
`SenderSettles` resume a coroutine. The browser chains the operations on a connection,
so the track a sender ends up with is that of the last call; on a closed connection
promises never settle, and the coroutine stays where it is (`LeaveRoom` forgets it).
The `captureVersion` a coroutine holds matters only by whether it is still the current
one: `current`. Negotiation is that of Mesh and is not repeated: a peer joins once,
either before us (`JoinAccepted`) or after (`PeerOffers`, then `Provide` for each kind).
The browser shows one dialogue for choosing a screen at a time. `ShowView`, `ShowMuted`
and `ShowCamera` stand for the functions of ui.js together with the flags of app.js
they go with. Audio levels and the list of devices are left out.

`setCamera()`, `setMicrophone()` and `startScreenShare()` have no `captureVersion`: what
they are granted after the user left stays captured in the lobby. `LobbyIsDark` is
therefore about the captures that have one, and `NoOrphanCapture` about all.

### Recorder

Extends LocalMedia by `isRecording` (with the button), `devices.mediaRecorder`,
`recordedChunks` (whose data it holds) and, of each MediaRecorder, whether it records
(`capturing`) or its last task is queued (`stopping`). A MediaRecorder stops when a
track is added to its stream or removed, and when all have ended; its data and `onstop`
come in a later task, which reads the `recordedChunks` of that moment
(`RecorderStopped`). `TabStep` is any step of LocalMedia within the view, with what it
does to recorders; leaving ends them all (`Leave`).

### Install

Either script on one host. A run is a list of steps: to write a file, to set a link, to
copy the release, to check or reload nginx, and the commands of systemd; `todo` holds
those still to do. A step is a tuple of its kind and, for files and links, the place
and what is put there: the number of the run whose text it is, `Http` for the site
without HTTPS, or `Absent` to remove. `StepFails` runs the `except` branch from a step
that was not done or half done, `Killed` ends the run with no roll-back: a signal, a
power cut, or an error of the roll-back itself. What was being written is then `Torn`.
`loaded`, `proc` and `nginx` are what systemd and nginx have read, which differs from
what the files say until they are told; a `Reboot` reads them all. `Acceptable` has the
checks that refuse an installation.

Assumed of the host: a service whose release, environment and unit are there starts,
and `systemctl disable` removes the link that starts it, even of a unit that is gone.
Certificates are not renewed or lost.

### RateLimiter

`tokens` and `lastRefill` are the closure variables of a connection; `received` and
`accepted` record when its messages came. The two readings of `Date.now()` in one
callback are taken as one, and the clock is never set back. A refill gives all tokens
at once, so a burst before it and one after it may be accepted within one interval,
twice the number that deploy/README.md:47 calls "Messages per connection per second":
`AtMostTwoBursts` is the bound that holds.

### RtpRewriter

`rw` is the object of rtp_rewriter.cpp with its 16- and 32-bit fields (`SeqMod`,
`TsMod`); the other variables are its environment: a source that numbers its packets,
a network that delays and loses some, a switch to another source (`reset()`, which
router.cpp does not call yet). Time stamps advance by one from packet to packet; the
step at a switch (90000 in the code) must exceed twice the delay of the network, as
`TsStep` does `MaxDelay`.

### SfuTransport

| TLA+ | source |
|---|---|
| `requests` | the requests that the threads of the HTTP server are handling |
| `table[t]` | the entry of `transports_`; `freeing` while `erase()` destroys its parts |
| `state[t]` | `state_` |
| `agent`, `gathered`, `described` | what the agent of libjuice has told and been told |
| `ssl[t]` | the flight that `SSL_do_handshake()` waits for, `done` (`handshakeDone_`) or `error` |
| `srtp[t]` | `initialized_` of the SRTP context |
| `browser[t]`, `up`, `down` | the DTLS client and the datagrams in either direction |

The callbacks of libjuice run on one thread (its default mode), so each is an action;
they take no lock, and nothing else writes `state_`. A delete destroys the SRTP and
DTLS parts before the agent that calls into them, and two threads may be in
`transports_` at once: undefined behaviour, which either changes nothing that the
model sees or ends the process (`Crash`). DTLS is reduced to its four flights. What
OpenSSL does is modelled from how dtls_transport.cpp calls it: a call with nothing to
read repeats the flight if its timer is over, and `SSL_read()` answers a repeated
finish. What libjuice sends before a pair is selected is dropped.

Media itself is not modelled: nothing registers a callback for it or sends any. That
`init(km, false)` exchanges the keys of the two directions (transport.cpp:113, against
the comment at srtp_context.cpp:14) is therefore not seen by any property, though it
makes every packet of a browser unreadable. `close()` has no caller, so `CLOSED` is not
reached; candidates are not needed, as the agent learns the browser's address from its
checks. Identifiers are taken to be distinct, although `std::rand()` may repeat one.

### Faulty definitions

Definitions whose comment starts with "Faulty" are used by no specification. They
are wrong versions of the definition that follows or that they name, and are there to
show which mistakes the properties exclude.

## What is checked

| run | configuration | shows |
|---|---|---|
| rooms | 3 connections, 2 rooms of 2 places, every request, `MaxInbox` = 1 | `TypeOK`, `RoomsExact`, `CapacityRespected`, `RoomsIsolated`, `RosterConverges`, `SpokenOfWhileKnown`, `ImplementsMembership` |
| mesh_trio | 3 clients that come and go and chat, refusals, no other faults | `MeshTypeOK`, `DescriptionsFit`, `TilesMatchRoster`, `RoomEventsInOneOrder` |
| mesh_connect | 2 clients, a candidate each, every fault, fair | `PeersAreInRoster`, `ImplementsSignaling`, `MembersConnect`, `LostConnectionIsRemoved`, `GhostsVanish` |
| session | 3 attempts of one tab, fair | `ConnectedOnlyInRoom`, `SessionOfAttempt`, `JoinSettles`, `LossReturnsToLobby` |
| session_stale | 2 attempts | `OnlyItsOwnEnd` is **violated** |
| media_capture | every button, 4 tracks, 1 peer, 2 coroutines | `MediaTypeOK`, `NoOrphanCapture`, `ScreenStaysShared` |
| media_record | toggles and recording, 3 tracks, 1 peer, 2 coroutines, 2 recordings | `NoSecretRecording`, `NoRecordingIsLost`, `MutedIsSilent`, `LobbyIsDark` |
| media_newcomer | screen sharing, 1 peer | `NewcomersGetWhatIsPublished` is **violated** |
| rate_limit | limit 2, interval 3, 10 ticks, 8 messages | `AtMostTwoBursts`, `OnlyExcessRefused` |
| rewriter | 7 packets, 3 sources, numbers of 2 bits | `RewriterTypeOK`, `DistancesPreserved`, `TimestampsAdvanceAtSwitch` |
| sfu_transport | a transport and its browser, every request, loss, repetition, fair | `KeysMadeOnce`, `MediaOnlyWithKeys`, `ReadyBeforeBrowser`, `BrowserCompletes` |
| install | either installer, 3 installations, failures, kills, restarts of the host | `InstallTypeOK`, `FailureRestores`, `CurrentIsComplete`, `InstalledServes` |

The type invariants of ClientSession, RateLimiter, Recorder and SfuTransport are
theorems (see below) and not run again.

### Bounds

- `Conn`: a connection lives once, so three of them are three comings and goings:
  a room of two places is filled, refuses, is left and entered again; someone leaves
  while another joins and a third is told of both. Two rooms are what isolation needs.
- `MaxInbox`: no request is read while an inbox holds that many messages (closing and
  heartbeat still append to it). With 1, up to three messages wait for a client, and
  two clients that have seen different prefixes of the events are reached.
- `MaxCandidates`: one candidate in each direction comes before or after each
  description and between any two operations; more are handled the same way.
- `MaxInbox` = 9 in the runs of Mesh never binds: what clients send is finite, since
  one message of the chat is on its way at a time.
- `MaxAttempts` = 3: an attempt, its successor, and one that follows a failure the
  first caused in the second. The proofs are for any number.
- LocalMedia: two coroutines overlap (a button with another, or with the preview), each
  kind has a track and a replacement or a screen, and a peer comes before, during or
  after each. `None` is granted whenever a permission is refused.
- Recorder: two recordings are one that ends and one that begins before its data came.
  One peer suffices for what is muted or recorded.
- Install: three runs are one that is killed, one that repairs or fails over what the
  first left, and one after that; a restart of the host may come after each.
- RateLimiter: ten ticks are three refills, eight messages four times the limit.
- RtpRewriter: two-bit numbers wrap within seven packets; three sources begin at the
  start, in the middle and about to wrap; two packets may be under way, each overtaken
  by at most `MaxDelay` = 3 later ones.
- SfuTransport: transports meet only in `transports_` and in a crash, so one shows all
  that a property says of one; a datagram is in the network or not, so any number of
  losses and repetitions is covered. The safety properties are proved for any number.
- mesh_trio leaves faults out (`CallSpec` in MCMesh) for the sake of size. Deadlock is
  not checked in it: when everyone has left, the system has come to its end.
- Symmetry is used for safety only, over connections and rooms that no formula tells
  apart.

### Fairness

Mesh: the timer of the heartbeat keeps firing while the process runs; Node emits
'close' once a socket is closing (`ws` forces it after 30 s); the server reads what was
sent; a browser handles what it received, the end of its connection included; and the
promises of a peer connection settle. ClientSession: the two timers fire, and
a closing socket gets its close event. SfuTransport: the browser starts and its timer
fires, what is sent again and again arrives at last, and, as a browser waits longer
each time, it is at last heard after the timer of OpenSSL (1 s) is over. Requests need
not come, ICE need not connect. Nothing is assumed of users, of the network,
of TCP time-outs, of candidates, or, in ClientSession, of the server.

The server's fairness conditions are on actions that stop being enabled when it stops
(`running`), and a restart is always possible.

### Disagreements found

1. The `catch` of `onJoinRoom()` calls `leaveRoom()` (app.js:236), which acts on the
   globals. If the user leaves while an attempt is pending and joins again, the late
   rejection of the first attempt ends the second, whose connection is sound
   (session_stale).
2. `replaceTrack()` updates `localStream` only after it has awaited the senders that
   exist (webrtc.js:93). A newcomer whose offer is answered meanwhile is given the old
   track and keeps it, against webrtc.js:92 and signaling/test/browser.mjs:147
   (media_newcomer).

More needs no run to be seen, or is let through by what the runs check:

- The button goes on showing a recording that ended by itself, as it does when a device
  is switched on (devices.js:194, app.js:287); pressing it then only resets it.
  `NoSecretRecording` is the other direction, which docs/SECURITY.md:23 is about.
- `onstop` reads `this.recordedChunks`: when a second recording starts before the data
  of the first have come, they are in the second file too. `NoRecordingIsLost` asks
  that each file has its own data, not only its own.
- An installer that was killed while it wrote the snippet, the site or the hook leaves
  a file without its marker, which the next run refuses as unmanaged; so does
  install-vps.py when the link was made and the site was not. deploy/README.md:98-99
  has it that running "the installer again publishes the current checkout". An
  environment that was truncated is replaced by the example, while line 94 has it that
  "subsequent installations preserve" it. `InstalledServes` is about runs that end well.

- `room.join` makes the room it names when there is none (server.js:81), while
  docs/SIGNALING_PROTOCOL.md:26 says that it "Joins an existing room".
- The limit of messages a second can be exceeded twofold, as said above.
- The rewriter continues from the packet rewritten last, not from the highest number
  (rtp_rewriter.cpp:19). When that one was late, or the first packet of a new source
  overtakes another, two outbound packets share a number.
- When gathering is done after the handshake (transport.cpp:15), a transport goes from
  CONNECTED to ICE_GATHERING and drops media from then on, against the order of states
  that docs/SFU_PROTOCOL.md:23-37 draws. `ReadyBeforeBrowser` admits this and nothing
  else. A refused handshake is only logged (dtls_transport.cpp:103), while line 39 of
  that document asks for an error path.
- The keys of the two directions are exchanged, as said above.

## What is proved

### SignalingProofs

For every set of connections, rooms and payloads and every limit, from
`SignalingAssumption` alone:

- `TypeCorrect`: `Spec => []TypeOK`;
- `RoomsAreExact`: `Spec => []RoomsExact`;
- `CapacityHolds`: `Spec => []CapacityRespected`;
- `RoomsImplementMembership`: `Spec => ImplementsMembership`.

The inductive invariant is `RoomsInv == TypeOK /\ RoomsExact /\ Fresh`. `RoomsExact`
alone is not inductive: a socket that does not exist yet must be known to have no
participant (`Fresh`), or connecting could put it in a room. Most actions touch
neither rooms nor sockets, or move sockets within `wss.clients`; the lemma
`StepCases` sorts every step into those (`QuietStep`), a join, a close and a restart,
and each later proof treats these four. `RoomsBounded` adds, by induction over the
same cases, that the rooms are finite and within capacity: a join adds one member
under the guard, everything else only removes. The refinement maps a connection to its
room while it is in `wss.clients` and to `Gone` after; `RoomsExact` makes the members
the server counts those the abstract `Enter` counts.

With any number of messages under way, its second part proves `RoomsAreIsolated`
(`[]RoomsIsolated`), `RostersConverge` (`[]RosterConverges`) and `HeardOfWhileKnown`
(`[]SpokenOfWhileKnown`). `RosterInv` adds to `RoomsInv` what each client has been and
will be told (`ToldAt`): the two properties about what is on its way need each other,
and `NoComebackAt` (no introduction follows a departure in one inbox), or what is known
when a message is sent would not be when it is handled. `IsolatedAt` is there because
nobody may have heard of a connection before it joins. `StepKinds` sorts every step by
what it does to inboxes and rosters: one message more for some (`Tell`), a join, a
close, a delivery, a client that forgets, a restart, nothing; one lemma for each.

The third part is `EventsComeInOneOrder` (`[]RoomEventsInOneOrder`): two members of a
room that can be reached have the same events of the room (arrivals, departures, chat)
ahead of them, in the same order, as far as both inboxes go back. An event is identified
by how many events come after it in the inbox (`Later`), which taking the oldest message
does not change. A step either tells no event (`Hush`) or one and the same event to
everybody in one room who is reached (`Event`): the code has one
loop over the members for a message of the chat, an arrival and a departure. The newcomer's own `room.joined` stands for its arrival, and
is its first event because whoever is in no room has heard none (`Outside`), without
which the invariant would not survive a join.

### MeshProofs

For any clients, rooms and candidates, from `SignalingAssumption` and `MeshAssumption`:
`MeshImplementsSignaling` (`MeshSpec => ImplementsSignaling`), `MeshTypeCorrect`,
`PeersStayInRoster` (`[]PeersAreInRoster`) and `TilesFollowRoster`
(`[]TilesMatchRoster`). The refinement needs only that requests are well formed, and
brings the theorems of Signaling to the mesh. With them, `MeshInv` says that whoever has
a queue or an open peer connection at a client is in its roster (`BusyAt`): a signal is
heard from somebody who is known, and a departure takes the queue with it. So no
operation, early or late, opens a connection or puts up a tile for somebody who left.
`HeardAt` adds that nobody is relayed a signal of its own.

The second half is `DescriptionsAlwaysFit` (`[]DescriptionsFit`), under every fault of
the model. Which state the connection is in when an offer or an answer comes depends on
everything between the join and that moment, at two clients and the server, so the
invariant `FitInv` follows an exchange, in which c offers and d answers, through its
eleven stages: the `room.joined` that lists d for c, `start`, `sendOffer`, the offer in
c's outbox and d's inbox, `offer`, `createAnswer`, `sendAnswer`, the answer in d's outbox
and c's inbox, `answer`. For every two clients it says:

- of all stages of the two exchanges that a pair may have, at most one is found, and
  once (`Single`): there is never a second offer, nor one from each side (glare);
- until d has handled the offer, d's connection takes one, or d was told that c left;
  from the offer on c awaits the answer, or was told that d left (`Stands`);
- a connection exists only with somebody who has been in a room, and a closed session
  never has its link back (`Closing`): a client does not join twice.

A step either lets stages fade (losses, closed sockets, restarts), passes one to the
next, or is a join that starts an exchange where none was (`Silent`, `Listed`): of two
members, only the later one is sent the other in its list. Before the proof TLC checked
`FitInv` on the instance of `mesh_trio` and on two clients with all the faults.

### TabProofs

For any devices, peers, coroutines and recordings, from `MediaAssumption` (a track is of
one kind): `MediaTypeCorrect`, `CapturesAreHeld` (`[]NoOrphanCapture`), `MutedTabIsSilent`
(`[]MutedIsSilent`), `SharedScreenStays` (`ScreenStaysShared`, an action property) and,
where nobody selects devices or shares a screen, as in the run that checks it,
`LobbyStaysDark` (`[]LobbyIsDark`); then for the tab with its recorders
`RecorderTypeCorrect`, `NothingRecordsUnseen` (`[]NoSecretRecording`) and
`RecordingsAreSaved` (`[]NoRecordingIsLost`).

It begins with what the helpers on streams do to the tracks of a stream (`First`,
`Without`, `With`, `Swapped`). `MediaInv` then says who may have a track:

- every live track is in the stream, is the screen, or was given to a preview that waits
  for its other answer (`Owned`), and what that preview has is in no stream, sender or
  other coroutine (`Apart`): stopping or adding it disturbs nothing else;
- a coroutine that waits for the browser's answer waits for no sender (`ChainsOK`), so
  an answer never meets a sender that settles in the same coroutine;
- one dialogue for a screen is open at a time and only while none is shared (`Sharing`),
  or a second answer would overwrite a screen that captures;
- while muted, the microphones of the stream are disabled, except between a click and
  the answer it waits for (`MutedLocal`). What a sender has and is live is in the stream,
  because of `Owned` and `Apart`; that is why muting the stream silences the peers.

`MediaInvNext` has one lemma per button, answer and event of a peer. Recording changes
nothing of this (`RecordingOnlyWatches`: `TabSpec => MediaSpec`), so all of it holds with
recorders too. The invariant of the recorders, `TabInv`, adds that recording is shown in
the room only; of LocalMedia it uses nothing but that only `LeaveRoom` leaves the room.

### RtpRewriterProofs

For numbers of any width, any step, delays, losses and switches: `RewriterTypeCorrect`
and `DistancesArePreserved` (`[]DistancesPreserved`). The invariant is that all packets
of one source were shifted by one pair of offsets, those in the rewriter if it is the
current one. `ShiftKeepsDistance` is the arithmetic: the lemmas on `%` express it by a
product and a remainder.

`TimestampsAdvance` (`[]TimestampsAdvanceAtSwitch`) needs bounds, `ClockAssumption`: the
step at a switch exceeds twice the delay, and the step with twice what is sent in all
is at most half of the range, beyond which later and earlier mean nothing. With 90000 and 2^32 these are
delays below half a second of video and calls of about three hours; both hold of the
run's constants. Comparing stamps of the ring is not transitive, so the invariant
`ClockInv` has a witness: an unwound stamp `u[i]`, an integer, for every packet of the
log (`Unwinds`). Within a source the packets are near each other (`Near`), those of the
next one are later than all of the last (`Apart`), and `Ahead` and `Begins` say where
the source will go on and where it began. A switch prolongs `u` by `TsStep` after the
last packet, whichever that was, and a packet under way is at most `MaxDelay` before it.

### InstallProofs

For any number of installations, failures, kills and restarts of the host:
`InstallTypeCorrect`, `FailuresAreRestored` (`[]FailureRestores`), `CurrentStaysComplete`
(`[]CurrentIsComplete`) and `InstallationsServe` (`[]InstalledServes`). A run is half way
through a list of commands, so the invariant is stated by what is left of it: `FromEnd(e)`
is the step after which `e - 1` are left, and for each of the two installers and the two
roll-backs `InstallInv` has the list (`AppsPlan`, `VpsPlan`, `AppsUndo`, `RestoreVps`)
and what the steps already done have brought about (`AppsDone`, `AppsUndone`, ...), file
by file: how many steps are left tells which files are new, which are restored, and what
systemd and nginx have read. A failure at any step meets the roll-back at its beginning,
where nothing is claimed yet; a kill leaves what holds in every phase (`HostFacts`): the
releases that are or were linked are whole, and there is no service on the public host.
The type invariant is part of it, for `todo` must hold steps and the files contents.

### ClientSessionProofs

For every `MaxAttempts`: `SessionTypeCorrect`, `OneConnection`
(`[]ConnectedOnlyInRoom`) and `SessionIsOfAttempt` (`[]SessionOfAttempt`). The
inductive invariant adds that a socket connects only while its own attempt awaits it,
that later attempts are untouched, and that a room shown has an attempt. Every way
into `leaveRoom()` is one lemma (`LeavingIsSafe`), every rejected promise another
(`FailingIsSafe`).

### RateLimiterProofs

For every limit, interval and bound: `LimiterTypeCorrect`, `RefusesOnlyExcess`
(`OnlyExcessRefused`) and `NeverMoreThanTwoBursts` (`[]AtMostTwoBursts`). The inductive
invariant relates the tokens to the history: the messages received since the last
refill are as many as the tokens spent, and none is older than the refill (`Epoch`);
of the accepted ones at most the limit belong to one refill, so what was accepted
`Limit` places before the last refill lies an interval before it (`Burst`).

### SfuTransportProofs

For any set of transports: `SfuTypeCorrect`, `KeysAreMadeOnce`, `NoMediaWithoutKeys` and
`TransportIsReady`. The properties compare the two ends of a handshake, so the
inductive invariant speaks of what is between them: nothing leaves the SFU before ICE
is connected, a finish in the network means that the browser was answered, a finished
that the SFU is done (`Flights`); and whoever is done is ready (`Ready`). `ReceiveCases`
sorts what a datagram makes the DTLS server do, `OnlyOne` shows that a step of one
transport leaves the others as they are.

### Only model-checked

Liveness (`LostConnectionIsRemoved`, `GhostsVanish`, `MembersConnect`, `JoinSettles`,
`LossReturnsToLobby`, `BrowserCompletes`) stays with TLC: fairness and ENABLED are out of
the prover's reach, as are induction over data and recursive operators.
Every safety property that a passing run checks has a theorem. `OnlyItsOwnEnd` and
`NewcomersGetWhatIsPublished` are violated, as said above.

## Plan

All of the plan is done, in this order:

1. RoomMembership, Signaling, SignalingProofs; Mesh; ClientSession and its proofs.
2. LocalMedia: captures, tracks, toggles and screen share against the room and peers.
3. RateLimiter and its proofs; RtpRewriter.
4. SfuTransport with its DTLS handshake, the requests of the control server, and proofs.
5. Tiles and chat in Mesh; Recorder and its proofs; Install.
6. MeshProofs, RtpRewriterProofs, TabProofs, InstallProofs; the order of room events; the
   exchanges of descriptions.

What would come next: a module SfuRouter once the code connects the router to
transports, since subscriptions keep raw pointers to transports that a request may
delete.

## Not modelled

The texts, notifications, invitation link and styles of the page (no state but the
DOM), the audio level and the enumeration of devices (read and shown, used by nothing
else), the HTTP file server and the parsing of configuration (no interaction with the
rest), logging, the modules that nothing imports, the router's tables and the conferences
of the SFU (nothing calls them), its start-up and datagram loop (I/O), and the scripts
that only render text.
