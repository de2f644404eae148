----------------------------- MODULE LocalMedia -----------------------------
(***************************************************************************)
(* What a tab captures and what it sends: client/js/devices.js, the media  *)
(* buttons of client/js/app.js and the tracks of client/js/webrtc.js.      *)
(*                                                                         *)
(* Every button starts a coroutine (a task) that awaits the browser: first *)
(* the permission for a capture, then replaceTrack() on every peer         *)
(* connection.  Other buttons, the room and the peers go on meanwhile.     *)
(*                                                                         *)
(* Operations on a sender are chained by its peer connection, so the track *)
(* it ends up with is decided when they are called; what is awaited is     *)
(* that they settle.  On a connection that was closed they never do.       *)
(* A capture of a coroutine holds the captureVersion it began with: it is  *)
(* represented by whether it is still the current one.                     *)
(***************************************************************************)
EXTENDS Naturals, Sequences, SequencesExt

CONSTANTS Mic, Cam, Screen, \* bound: the tracks the browser may grant, by source
          Peer,             \* participants, each of which joins at most once
          Task,             \* bound: coroutines at one time
          Controls,         \* the buttons in use, of "toggle", "select", "screen"
          Answering,        \* handle(), where it awaits a sender
          None

Track == Mic \cup Cam \cup Screen

ASSUME MediaAssumption ==
    /\ Mic \cap Cam = {} /\ (Mic \cup Cam) \cap Screen = {}
    /\ None \notin Track /\ Answering \notin Task

Kind(t) == IF t \in Mic THEN "audio" ELSE "video"

VARIABLES view,      \* the view that is shown
          muted,     \* isMuted
          camera,    \* isVideoEnabled
          granted,   \* the tracks the browser has granted so far
          live,      \* those whose device or screen is being captured
          disabled,  \* those with track.enabled = false
          local,     \* devices.localStream
          screen,    \* the track of devices.screenStream, or None
          watched,   \* the screen tracks with an onended handler
          tasks,     \* the coroutines
          session,   \* webrtc is not null
          published, \* webrtc.localStream
          peers,     \* the participants: not there yet, connected, gone
          provide,   \* provide[p]: what handle() has still to give to p's transceivers
          chain,     \* chain[p]: who awaits the operations on p's senders, in order
          sent       \* sent[p]: the tracks of p's senders

devices == <<granted, live, disabled, local, screen, watched>>
shown == <<view, muted, camera>>
rtc == <<session, published, peers, provide, chain, sent>>
mediaVars == <<shown, devices, tasks, rtc>>

Idle == [what |-> "idle", asks |-> {}, current |-> FALSE, got |-> {},
         old |-> None, new |-> None]

NothingSent == [audio |-> None, video |-> None]

MediaTypeOK ==
    /\ view \in {"lobby", "preview", "room"}
    /\ muted \in BOOLEAN /\ camera \in BOOLEAN /\ session \in BOOLEAN
    /\ live \subseteq granted /\ disabled \subseteq granted /\ granted \subseteq Track
    /\ local \in Seq(Mic \cup Cam) /\ published \in Seq(Track)
    /\ IsInjective(local) /\ IsInjective(published)
    /\ screen \in Screen \cup {None} /\ watched \subseteq Screen
    /\ tasks \in [Task -> [what : {"idle", "preview", "mute", "video", "setCamera",
                                   "setMicrophone", "share", "unshare"},
                           asks : SUBSET {"audio", "video"}, current : BOOLEAN,
                           got : SUBSET Track, old : Track \cup {None},
                           new : Track \cup {None}]]
    /\ peers \in [Peer -> {"out", "in", "gone"}]
    /\ provide \in [Peer -> {<<>>, <<"video">>, <<"audio", "video">>}]
    /\ chain \in [Peer -> Seq(Task \cup {Answering})]
    /\ sent \in [Peer -> [audio : Mic \cup {None}, video : Cam \cup Screen \cup {None}]]

MediaInit ==
    /\ view = "lobby" /\ muted = FALSE /\ camera = TRUE
    /\ granted = {} /\ live = {} /\ disabled = {}
    /\ local = <<>> /\ screen = None /\ watched = {}
    /\ tasks = [k \in Task |-> Idle]
    /\ session = FALSE /\ published = <<>>
    /\ peers = [p \in Peer |-> "out"]
    /\ provide = [p \in Peer |-> <<>>]
    /\ chain = [p \in Peer |-> <<>>]
    /\ sent = [p \in Peer |-> NothingSent]

-----------------------------------------------------------------------------
(* What ui.js shows: each function, with the flag of app.js that goes with it. *)

ShowView(v) == view' = v
ShowMuted(on) == muted' = on
ShowCamera(on) == camera' = on

-----------------------------------------------------------------------------
(* Streams. *)

OfKind(s, kind) == {t \in Range(s) : Kind(t) = kind}

\* stream.getTracks().find(t => t.kind === kind)
First(s, kind) ==
    IF OfKind(s, kind) = {} THEN None
    ELSE s[CHOOSE i \in DOMAIN s : /\ Kind(s[i]) = kind
                                   /\ \A j \in DOMAIN s : Kind(s[j]) = kind => i <= j]

\* addTrack() and removeTrack(): a stream is a set in order of insertion
With(s, t) == IF t = None \/ t \in Range(s) THEN s ELSE Append(s, t)
Without(s, t) == IF t \notin Range(s) THEN s ELSE RemoveAt(s, CHOOSE i \in DOMAIN s : s[i] = t)

\* the one track of a set that has at most one
Only(S) == IF S = {} THEN None ELSE CHOOSE t \in S : TRUE

\* setAudioMuted() and setVideoEnabled(), on the stream s
Enable(s, kind, on) ==
    disabled' = IF on THEN disabled \ OfKind(s, kind)
                      ELSE disabled \cup OfKind(s, kind)

-----------------------------------------------------------------------------
(* Coroutines. *)

\* Faulty: captures that are pending go on.
NotCancelled == tasks

\* cancelPendingCapture()
Cancelled == [k \in Task |-> [tasks[k] EXCEPT !.current = FALSE]]

Begin(k, what, asks) ==
    /\ tasks[k] = Idle
    /\ tasks' = [tasks EXCEPT ![k] =
                   [Idle EXCEPT !.what = what, !.asks = asks, !.current = TRUE]]

\* stopLocalPreview(), but for the cancellation
StopLocal ==
    /\ live' = live \ Range(local)
    /\ local' = <<>>

\* What a coroutine does after replaceTrack(), `s` being devices.localStream,
\* `captured` what is live and `shared` what devices.screenStream holds
Complete(k, what, new, s, captured, shared) ==
    /\ tasks' = [tasks EXCEPT ![k] = Idle]
    /\ ShowMuted(muted /\ what # "mute")
    /\ ShowCamera(camera \/ what = "video")
    /\ disabled' = CASE what = "mute"  -> disabled \ OfKind(s, "audio")
                     [] what = "video" -> disabled \ OfKind(s, "video")
                     [] OTHER          -> disabled
    /\ live' = IF what = "unshare" THEN captured \ {shared} ELSE captured
    /\ screen' = IF what = "unshare" THEN None ELSE shared
    /\ watched' = CASE what = "share"   -> watched \cup {new}
                    [] what = "unshare" -> watched \ {shared}
                    [] OTHER            -> watched

Connected == {p \in Peer : peers[p] = "in"}

\* Faulty: the new track is added although there may be none.
SwappedUnchecked(s, old, new) == Append(Without(s, old), new)

Swapped(s, old, new) == With(Without(s, old), new)

\* webrtc.replaceTrack(old, new): settles at once when there is no peer
ReplaceTrack(k, what, old, new, s, captured, shared) ==
    LET kind == IF new # None THEN Kind(new) ELSE Kind(old) IN
    \/ /\ Connected = {}
       /\ published' = Swapped(published, old, new)
       /\ Complete(k, what, new, s, captured, shared)
       /\ UNCHANGED <<chain, sent>>
    \/ /\ Connected # {}
       /\ sent' = [p \in Peer |-> IF p \in Connected
                                  THEN [sent[p] EXCEPT ![kind] = new] ELSE sent[p]]
       /\ chain' = [p \in Peer |-> IF p \in Connected THEN Append(chain[p], k) ELSE chain[p]]
       /\ tasks' = [tasks EXCEPT ![k] = [Idle EXCEPT !.what = what, !.old = old, !.new = new]]
       /\ live' = captured
       /\ screen' = shared
       /\ watched' = IF what = "unshare" THEN watched \ {shared} ELSE watched
       /\ UNCHANGED <<muted, camera, disabled, published>>

Awaits(k, ch) == \E p \in Peer : k \in Range(ch[p])

\* The oldest operation on p's senders settles; a task that awaits no other goes on
SenderSettles(p) ==
    /\ peers[p] = "in" /\ chain[p] # <<>>
    /\ chain' = [chain EXCEPT ![p] = Tail(@)]
    /\ LET k == Head(chain[p]) IN
       \/ /\ k = Answering \/ Awaits(k, chain')
          /\ UNCHANGED <<shown, devices, tasks, published>>
       \/ /\ k # Answering /\ ~Awaits(k, chain')
          /\ published' = Swapped(published, tasks[k].old, tasks[k].new)
          /\ Complete(k, tasks[k].what, tasks[k].new, local, live, screen)
          /\ UNCHANGED <<view, granted, local>>
    /\ UNCHANGED <<session, peers, provide, sent>>

-----------------------------------------------------------------------------
(* What the browser answers to getUserMedia() and getDisplayMedia(): a new *)
(* track, or None when the user or the system refuses.                     *)

\* One of the two requests of getLocalStream() is answered before the other.
PreviewFirstAnswer(k, kind, t) ==
    /\ tasks[k].asks = {"audio", "video"}
    /\ tasks' = [tasks EXCEPT ![k].asks = @ \ {kind},
                              ![k].got = @ \cup ({t} \ {None})]
    /\ live' = live \cup ({t} \ {None})
    /\ UNCHANGED <<shown, disabled, local, screen, watched, rtc>>

\* The last answer: getLocalStream() and the rest of setupPreview()
PreviewAnswered(k, t) ==
    LET got == tasks[k].got \cup ({t} \ {None})
        add == IF tasks[k].current THEN got ELSE {}
        s   == With(With(local, Only(add \cap Mic)), Only(add \cap Cam))
    IN
    /\ local' = s
    /\ live' = IF tasks[k].current THEN live \cup got ELSE live \ got
    /\ IF view = "preview"
       THEN /\ ShowMuted(OfKind(s, "audio") = {})
            /\ ShowCamera(OfKind(s, "video") # {})
            /\ disabled' = disabled \ Range(s)
       ELSE UNCHANGED <<muted, camera, disabled>>
    /\ tasks' = [tasks EXCEPT ![k] = Idle]
    /\ UNCHANGED <<view, screen, watched, rtc>>

\* Faulty: a screen share is not taken into account.
EnabledOverScreen(k, t) ==
    LET s == Append(local, t) IN
    /\ tasks[k].current
    /\ local' = s
    /\ ReplaceTrack(k, tasks[k].what, None, t, s, live \cup {t}, screen)
    /\ session
    /\ UNCHANGED <<view, session, peers, provide>>

\* acquireTrack() resolves, and toggleMute() or toggleVideo() goes on
DeviceAcquired(k, t) ==
    LET s == Append(local, t) IN
    /\ tasks[k].current
    /\ local' = s
    /\ IF session /\ (tasks[k].what = "mute" \/ screen = None)
       THEN ReplaceTrack(k, tasks[k].what, None, t, s, live \cup {t}, screen)
       ELSE /\ Complete(k, tasks[k].what, t, s, live \cup {t}, screen)
            /\ UNCHANGED <<published, chain, sent>>
    /\ UNCHANGED <<view, session, peers, provide>>

\* the capture was cancelled: acquireTrack() stops the track and throws
DeviceTooLate(k) ==
    /\ ~tasks[k].current
    /\ tasks' = [tasks EXCEPT ![k] = Idle]
    /\ UNCHANGED <<shown, live, disabled, local, screen, watched, rtc>>

\* Faulty: the track that was selected before is not stopped.
DeviceSelectedBeside(k, t) ==
    LET old == First(local, Kind(t))
        s   == Append(Without(local, old), t)
    IN
    /\ local' = s
    /\ live' = live \cup {t}
    /\ tasks' = [tasks EXCEPT ![k] = Idle]
    /\ UNCHANGED <<shown, disabled, screen, watched, rtc>>

\* setCamera() or setMicrophone() goes on
DeviceSelected(k, t) ==
    LET old == First(local, Kind(t))
        s   == Append(Without(local, old), t)
    IN
    /\ local' = s
    /\ live' = (live \ {old}) \cup {t}
    /\ Enable(s, Kind(t), IF t \in Mic THEN ~muted ELSE camera)
    /\ tasks' = [tasks EXCEPT ![k] = Idle]
    /\ UNCHANGED <<shown, screen, watched, rtc>>

\* toggleScreenShare() goes on; without a session, replaceTrack() of null throws
ScreenGranted(k, t) ==
    /\ IF session
       THEN ReplaceTrack(k, "share", First(local, "video"), t, local, live \cup {t}, t)
       ELSE /\ live' = live \cup {t} /\ screen' = t
            /\ tasks' = [tasks EXCEPT ![k] = Idle]
            /\ UNCHANGED <<muted, camera, disabled, watched, published, chain, sent>>
    /\ UNCHANGED <<view, local, session, peers, provide>>

Refused(k) ==
    /\ tasks' = [tasks EXCEPT ![k] = Idle]
    /\ UNCHANGED <<shown, live, disabled, local, screen, watched, rtc>>

\* a track of the kind that task k asks for, or None
Answer(k, kind, t) ==
    /\ kind \in tasks[k].asks
    /\ \/ t = None
       \/ t \in (IF tasks[k].what = "share" THEN Screen
                 ELSE IF kind = "audio" THEN Mic ELSE Cam) \ granted
    /\ granted' = granted \cup ({t} \ {None})
    /\ \/ /\ tasks[k].what = "preview"
          /\ IF tasks[k].asks = {kind} THEN PreviewAnswered(k, t)
             ELSE PreviewFirstAnswer(k, kind, t)
       \/ tasks[k].what # "preview" /\ t = None /\ Refused(k)
       \/ /\ tasks[k].what \in {"mute", "video"} /\ t # None
          /\ DeviceAcquired(k, t) \/ DeviceTooLate(k)
       \/ /\ tasks[k].what \in {"setCamera", "setMicrophone"} /\ t # None
          /\ DeviceSelected(k, t)
       \/ /\ tasks[k].what = "share" /\ t # None
          /\ ScreenGranted(k, t)

-----------------------------------------------------------------------------
(* The user, before the room. *)

ShowPreview(k) ==
    /\ view = "lobby"
    /\ ShowView("preview")
    /\ tasks[k] = Idle
    /\ tasks' = [Cancelled EXCEPT ![k] =
                   [Idle EXCEPT !.what = "preview", !.asks = {"audio", "video"},
                                !.current = TRUE]]
    /\ UNCHANGED <<muted, camera, devices, rtc>>

ShowPreviewAsViewer ==
    /\ view = "lobby"
    /\ ShowView("preview")
    /\ StopLocal
    /\ tasks' = Cancelled
    /\ ShowMuted(TRUE) /\ ShowCamera(FALSE)
    /\ UNCHANGED <<granted, disabled, screen, watched, rtc>>

BackToLobby ==
    /\ view = "preview"
    /\ ShowView("lobby")
    /\ StopLocal
    /\ tasks' = Cancelled
    /\ UNCHANGED <<muted, camera, granted, disabled, screen, watched, rtc>>

\* the selectors of the preview, which are filled after the first capture
SelectDevice(k, kind) ==
    /\ "select" \in Controls
    /\ view = "preview" /\ granted # {}
    /\ Begin(k, IF kind = "audio" THEN "setMicrophone" ELSE "setCamera", {kind})
    /\ UNCHANGED <<shown, devices, rtc>>

OnJoinRoom ==
    /\ view = "preview"
    /\ ShowView("room")
    /\ tasks' = Cancelled
    /\ ShowMuted(OfKind(local, "audio") \subseteq disabled)
    /\ ShowCamera(~(OfKind(local, "video") \subseteq disabled))
    /\ UNCHANGED <<devices, rtc>>

JoinWithoutDevices ==
    /\ view = "preview"
    /\ ShowView("room")
    /\ StopLocal
    /\ tasks' = Cancelled
    /\ ShowMuted(TRUE) /\ ShowCamera(FALSE)
    /\ UNCHANGED <<granted, disabled, screen, watched, rtc>>

-----------------------------------------------------------------------------
(* The buttons. *)

\* Faulty: the button changes what is shown and not the tracks.
ToggleMuteShown ==
    /\ "toggle" \in Controls
    /\ view # "lobby" /\ First(local, "audio") # None
    /\ ShowMuted(~muted)
    /\ UNCHANGED <<view, camera, devices, tasks, rtc>>

ToggleMute ==
    /\ "toggle" \in Controls
    /\ view # "lobby" /\ First(local, "audio") # None
    /\ ShowMuted(~muted)
    /\ Enable(local, "audio", muted)
    /\ UNCHANGED <<view, camera, granted, live, local, screen, watched, tasks, rtc>>

ToggleVideo ==
    /\ "toggle" \in Controls
    /\ view # "lobby" /\ First(local, "video") # None
    /\ ShowCamera(~camera)
    /\ Enable(local, "video", ~camera)
    /\ UNCHANGED <<view, muted, granted, live, local, screen, watched, tasks, rtc>>

\* toggleMute() or toggleVideo() without a track: acquireTrack()
AcquireDevice(k, kind) ==
    /\ "toggle" \in Controls
    /\ view # "lobby" /\ First(local, kind) = None
    /\ Begin(k, IF kind = "audio" THEN "mute" ELSE "video", {kind})
    /\ UNCHANGED <<shown, devices, rtc>>

\* The browser shows one dialogue for choosing a screen at a time.
ShareScreen(k) ==
    /\ "screen" \in Controls
    /\ view = "room" /\ screen = None
    /\ \A j \in Task : ~(tasks[j].what = "share" /\ tasks[j].asks # {})
    /\ Begin(k, "share", {"video"})
    /\ UNCHANGED <<shown, devices, rtc>>

\* stopScreenShare(), `captured` being live; it throws when there is no session
StopScreenShare(k, captured) ==
    /\ tasks[k] = Idle
    /\ IF session
       THEN ReplaceTrack(k, "unshare", screen, First(local, "video"), local, captured, screen)
       ELSE /\ watched' = watched \ {screen}
            /\ live' = captured
            /\ UNCHANGED <<muted, camera, disabled, screen, tasks, published, chain, sent>>
    /\ UNCHANGED <<view, granted, local, session, peers, provide>>

UnshareScreen(k) ==
    /\ view = "room" /\ screen # None
    /\ StopScreenShare(k, live)

\* The user stops the capture in the browser's own bar.
ScreenEnds(k, t) ==
    /\ t \in live \cap Screen
    /\ \/ /\ t \in watched /\ screen # None
          /\ StopScreenShare(k, live \ {t})
       \/ /\ t \notin watched \/ screen = None
          /\ live' = live \ {t}
          /\ UNCHANGED <<shown, granted, disabled, local, screen, watched, tasks, rtc>>

-----------------------------------------------------------------------------
(* The room. *)

\* room.joined: the session, with an offer to everyone in S
JoinAccepted(S) ==
    /\ view = "room" /\ ~session
    /\ \A p \in S : peers[p] = "out"
    /\ session' = TRUE
    /\ published' = local
    /\ peers' = [p \in Peer |-> IF p \in S THEN "in" ELSE peers[p]]
    /\ sent' = [p \in Peer |-> IF p \notin S THEN sent[p]
                               ELSE [audio |-> First(local, "audio"),
                                     video |-> First(local, "video")]]
    /\ UNCHANGED <<shown, devices, tasks, provide, chain>>

\* the offer of a newcomer is applied: p's transceivers are there, without tracks
PeerOffers(p) ==
    /\ session /\ peers[p] = "out"
    /\ peers' = [peers EXCEPT ![p] = "in"]
    /\ provide' = [provide EXCEPT ![p] = <<"audio", "video">>]
    /\ UNCHANGED <<shown, devices, tasks, session, published, chain, sent>>

\* handle() gives the next transceiver the track that is published
Provide(p) ==
    /\ provide[p] # <<>>
    /\ Answering \notin Range(chain[p])
    /\ sent' = [sent EXCEPT ![p][Head(provide[p])] = First(published, Head(provide[p]))]
    /\ provide' = [provide EXCEPT ![p] = Tail(@)]
    /\ chain' = [chain EXCEPT ![p] = Append(@, Answering)]
    /\ UNCHANGED <<shown, devices, tasks, session, published, peers>>

PeerLeaves(p) ==
    /\ peers[p] = "in"
    /\ peers' = [peers EXCEPT ![p] = "gone"]
    /\ provide' = [provide EXCEPT ![p] = <<>>]
    /\ sent' = [sent EXCEPT ![p] = NothingSent]
    /\ UNCHANGED <<shown, devices, tasks, session, published, chain>>

\* leaveRoom(): coroutines that await a sender are never resumed
LeaveRoom ==
    /\ view = "room"
    /\ ShowView("lobby") /\ ShowMuted(FALSE) /\ ShowCamera(TRUE)
    /\ session' = FALSE /\ published' = <<>>
    /\ peers' = [p \in Peer |-> IF peers[p] = "in" THEN "gone" ELSE peers[p]]
    /\ provide' = [p \in Peer |-> <<>>]
    /\ sent' = [p \in Peer |-> NothingSent]
    /\ local' = <<>>
    /\ live' = live \ (Range(local) \cup {screen})
    /\ screen' = None
    /\ chain' = [p \in Peer |-> <<>>]
    /\ tasks' = [k \in Task |-> IF Awaits(k, chain) THEN Idle ELSE Cancelled[k]]
    /\ UNCHANGED <<granted, disabled, watched>>

-----------------------------------------------------------------------------

\* Every callback of the tab but leaveRoom()
InTheView ==
    \/ \E k \in Task, kind \in {"audio", "video"} :
         \/ \E t \in Track \cup {None} : Answer(k, kind, t)
         \/ SelectDevice(k, kind) \/ AcquireDevice(k, kind)
    \/ \E k \in Task :
         \/ ShowPreview(k) \/ ShareScreen(k) \/ UnshareScreen(k)
         \/ \E t \in Screen : ScreenEnds(k, t)
    \/ ShowPreviewAsViewer \/ BackToLobby \/ OnJoinRoom \/ JoinWithoutDevices
    \/ ToggleMute \/ ToggleVideo
    \/ \E S \in SUBSET Peer : JoinAccepted(S)
    \/ \E p \in Peer : PeerOffers(p) \/ Provide(p) \/ SenderSettles(p) \/ PeerLeaves(p)

MediaNext == InTheView \/ LeaveRoom

MediaSpec == MediaInit /\ [][MediaNext]_mediaVars

-----------------------------------------------------------------------------
(* Properties. *)

(***************************************************************************)
(* Whatever is being captured is held by devices.localStream, by           *)
(* devices.screenStream or by a coroutine that will dispose of it: no      *)
(* interleaving of captures, selections and departures leaves a device or  *)
(* a screen on that leaveRoom() could not switch off.                      *)
(***************************************************************************)
NoOrphanCapture ==
    live \subseteq Range(local) \cup {screen} \cup UNION {tasks[k].got : k \in Task}

(***************************************************************************)
(* In the lobby nothing is captured, but for the one device a cancelled    *)
(* getLocalStream() got while it waits for the answer about the other.     *)
(* It holds of the captures that captureVersion guards (getLocalStream     *)
(* and acquireTrack); setCamera(), setMicrophone() and startScreenShare()  *)
(* have no such guard.                                                     *)
(***************************************************************************)
LobbyIsDark ==
    view = "lobby" =>
        \A t \in live : \E k \in Task : t \in tasks[k].got /\ ~tasks[k].current

(***************************************************************************)
(* While the tab shows that it is muted, nobody is sent sound, except      *)
(* while a microphone that was just acquired is being given to the peers.  *)
(***************************************************************************)
Unmuting == \E k \in Task : tasks[k].what = "mute" /\ Awaits(k, chain)

MutedIsSilent ==
    muted /\ ~Unmuting =>
        \A p \in Peer : sent[p].audio \notin live \ disabled

(***************************************************************************)
(* Who is sent the screen goes on being sent it until the user stops       *)
(* sharing: switching the camera on meanwhile does not replace it.         *)
(***************************************************************************)
ScreenStaysShared ==
    [][\A p \in Peer :
          /\ peers[p] = "in" /\ peers'[p] = "in" /\ provide[p] = <<>>
          /\ sent[p].video = screen /\ screen \in live /\ screen' = screen
          => \/ sent'[p].video = screen
             \/ \E k \in Task : tasks[k].what # "unshare" /\ tasks'[k].what = "unshare"]_mediaVars

(***************************************************************************)
(* webrtc.js, line 92: "Newcomers must receive the currently published     *)
(* track too."  When nothing is under way, every peer is sent the video    *)
(* that is published.                                                      *)
(***************************************************************************)
NewcomersGetWhatIsPublished ==
    (\A k \in Task : tasks[k] = Idle) =>
        \A p \in Peer : peers[p] = "in" /\ provide[p] = <<>> /\ chain[p] = <<>> =>
            sent[p].video = First(published, "video")
=============================================================================
