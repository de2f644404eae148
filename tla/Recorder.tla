------------------------------ MODULE Recorder ------------------------------
(***************************************************************************)
(* Local recording (startRecording() and stopRecording() of                *)
(* client/js/devices.js, the record button of client/js/app.js) over the   *)
(* tracks of LocalMedia.                                                   *)
(*                                                                         *)
(* A MediaRecorder that stops queues a task that delivers its data and     *)
(* then runs onstop; both read this.recordedChunks when the task runs.  It *)
(* also stops when the tracks of its stream change or all end, and then    *)
(* nobody tells the button.                                                *)
(***************************************************************************)
EXTENDS LocalMedia

CONSTANT Recording        \* bound: the recordings a tab makes

ASSUME RecorderAssumption == None \notin Recording

VARIABLES isRecording,    \* with the record button, which shows it
          mediaRecorder,  \* the recording of devices.mediaRecorder, or None
          recordedChunks, \* devices.recordedChunks: the recordings it has data of
          made,           \* the recordings that were started
          capturing,      \* those whose MediaRecorder is in state "recording"
          stopping,       \* those whose last task is queued
          file            \* file[r]: whose data onstop of r downloaded

recorderVars == <<isRecording, mediaRecorder, recordedChunks, made, capturing, stopping, file>>
tabVars == <<mediaVars, recorderVars>>

RecorderTypeOK ==
    /\ isRecording \in BOOLEAN
    /\ mediaRecorder \in Recording \cup {None}
    /\ recordedChunks \subseteq Recording /\ made \subseteq Recording
    /\ capturing \subseteq Recording /\ stopping \subseteq Recording
    /\ file \in [Recording -> SUBSET Recording]

RecorderInit ==
    /\ isRecording = FALSE /\ mediaRecorder = None
    /\ recordedChunks = {} /\ made = {} /\ capturing = {} /\ stopping = {}
    /\ file = [r \in Recording |-> {}]

\* isRecording with setRecording()
ShowRecording(on) == isRecording' = on

\* The recorders of R stop
Stop(R) ==
    /\ capturing' = capturing \ R
    /\ stopping' = stopping \cup (capturing \cap R)
    /\ UNCHANGED <<mediaRecorder, recordedChunks, made, file>>

\* Faulty: a recorder that is asked to stop is not listened to any more.
StopRecordingUnheard ==
    /\ capturing' = capturing \ {mediaRecorder}
    /\ UNCHANGED <<mediaRecorder, recordedChunks, made, stopping, file>>

StopRecording == Stop({mediaRecorder})

StartRecording(r) ==
    /\ r \notin made
    /\ recordedChunks' = {}
    /\ mediaRecorder' = r
    /\ made' = made \cup {r}
    /\ capturing' = capturing \cup {r}
    /\ UNCHANGED <<stopping, file>>

\* toggleRecording(); there is nothing to record without a track
RecordOn(r) ==
    /\ view = "room" /\ ~isRecording /\ local # <<>>
    /\ StartRecording(r)
    /\ ShowRecording(TRUE)
    /\ UNCHANGED mediaVars

\* the browser refuses: startRecording() throws
RecordRefused ==
    /\ view = "room" /\ ~isRecording /\ local # <<>>
    /\ recordedChunks' = {}
    /\ UNCHANGED <<mediaVars, isRecording, mediaRecorder, made, capturing, stopping, file>>

RecordOff ==
    /\ view = "room" /\ isRecording
    /\ StopRecording
    /\ ShowRecording(FALSE)
    /\ UNCHANGED mediaVars

\* ondataavailable, then onstop
RecorderStopped(r) ==
    /\ r \in stopping
    /\ stopping' = stopping \ {r}
    /\ recordedChunks' = recordedChunks \cup {r}
    /\ file' = [file EXCEPT ![r] = recordedChunks']
    /\ UNCHANGED <<mediaVars, isRecording, mediaRecorder, made, capturing>>

\* Faulty: the flag is reset and whatever records goes on.
LeaveRecording ==
    /\ LeaveRoom
    /\ ShowRecording(FALSE)
    /\ UNCHANGED <<mediaRecorder, recordedChunks, made, capturing, stopping, file>>

\* leaveRoom(): the tracks of every recorder end, and the recorder is stopped
Leave ==
    /\ LeaveRoom
    /\ Stop(capturing)
    /\ ShowRecording(FALSE)

\* Anything else in the tab: when the tracks of the stream change, recorders stop.
TabStep ==
    /\ InTheView
    /\ IF local' = local THEN UNCHANGED <<capturing, stopping>>
       ELSE /\ capturing' = {} /\ stopping' = stopping \cup capturing
    /\ UNCHANGED <<isRecording, mediaRecorder, recordedChunks, made, file>>

TabNext ==
    \/ \E r \in Recording : RecordOn(r) \/ RecorderStopped(r)
    \/ RecordRefused \/ RecordOff \/ Leave \/ TabStep

TabSpec == MediaInit /\ RecorderInit /\ [][TabNext]_tabVars

-----------------------------------------------------------------------------
(* Properties. *)

(***************************************************************************)
(* docs/SECURITY.md, line 23: the recording state must be explicit to the  *)
(* user.  Nothing records but what the button shows and would stop, the    *)
(* recorder of devices.mediaRecorder, and only in the room.                *)
(***************************************************************************)
NoSecretRecording ==
    \A r \in capturing : isRecording /\ r = mediaRecorder /\ view = "room"

(***************************************************************************)
(* However a recording ends (the button, leaving, a device switched on)    *)
(* and whatever is recorded meanwhile, it goes on, is about to be saved,   *)
(* or was saved in its own file.                                           *)
(***************************************************************************)
NoRecordingIsLost ==
    \A r \in made : r \in capturing \/ r \in stopping \/ r \in file[r]
=============================================================================
