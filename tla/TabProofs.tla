----------------------------- MODULE TabProofs -----------------------------
(***************************************************************************)
(* Theorems about a tab, for any devices, screens, peers, coroutines and   *)
(* recordings: LocalMedia, and recording on top of it.                     *)
(*                                                                         *)
(* First what the operators on streams do, as facts about the set of a     *)
(* stream's tracks, so that no proof below has to look into a sequence;    *)
(* then MediaInv, which says who may hold a track, who may await a sender  *)
(* and what the muted button promises, with a lemma for each operation.    *)
(***************************************************************************)
EXTENDS Recorder, SequenceTheorems, WellFoundedInduction, TLAPS

-----------------------------------------------------------------------------
(* Streams *)

\* The tracks of a stream, by their places.
LEMMA RangeIs ==
    ASSUME NEW S, NEW s \in Seq(S)
    PROVE  /\ DOMAIN s = 1..Len(s) /\ Len(s) \in Nat
           /\ Range(s) = {s[i] : i \in 1..Len(s)} /\ Range(s) \subseteq S
           /\ IsInjective(s) <=> \A i, j \in 1..Len(s) : s[i] = s[j] => i = j
<1>1. DOMAIN s = 1..Len(s) /\ Len(s) \in Nat /\ \A i \in 1..Len(s) : s[i] \in S
  BY LenProperties, ElementOfSeq
<1>2. QED BY <1>1 DEF Range, IsInjective

\* A track is added at the end,
LEMMA Appended ==
    ASSUME NEW S, NEW s \in Seq(S), NEW t \in S
    PROVE  /\ Append(s, t) \in Seq(S) /\ Range(Append(s, t)) = Range(s) \cup {t}
           /\ IsInjective(s) /\ t \notin Range(s) => IsInjective(Append(s, t))
<1> DEFINE a == Append(s, t)
<1>1. /\ a \in Seq(S) /\ Len(a) = Len(s) + 1 /\ a[Len(s) + 1] = t
      /\ \A i \in 1..Len(s) : a[i] = s[i]
  BY AppendProperties
<1> HIDE DEF a
<1>2. /\ Len(s) \in Nat /\ Range(s) = {s[i] : i \in 1..Len(s)}
      /\ Range(a) = {a[i] : i \in 1..Len(a)}
      /\ IsInjective(s) <=> \A i, j \in 1..Len(s) : s[i] = s[j] => i = j
      /\ IsInjective(a) <=> \A i, j \in 1..Len(a) : a[i] = a[j] => i = j
  BY <1>1, RangeIs
<1>3. 1..Len(a) = 1..Len(s) \cup {Len(s) + 1}
  BY <1>1, <1>2
<1>4. Range(a) = Range(s) \cup {t}
  BY <1>1, <1>2, <1>3
<1>5. ASSUME IsInjective(s), t \notin Range(s) PROVE IsInjective(a)
  BY <1>1, <1>2, <1>3, <1>5
<1>6. QED BY <1>1, <1>4, <1>5 DEF a

\* or the first is taken,
LEMMA Taken ==
    ASSUME NEW S, NEW s \in Seq(S), s # <<>>
    PROVE  /\ Head(s) \in Range(s) /\ Tail(s) \in Seq(S)
           /\ Range(s) = {Head(s)} \cup Range(Tail(s))
<1>1. /\ Tail(s) \in Seq(S) /\ Len(Tail(s)) = Len(s) - 1 /\ Len(s) \in Nat \ {0}
      /\ \A i \in 1..Len(Tail(s)) : Tail(s)[i] = s[i + 1]
      /\ Head(s) = s[1]
  BY HeadTailProperties, EmptySeq
<1>2. PICK u \in Seq(S) : u = Tail(s)
  BY <1>1
<1>3. Range(s) = {s[i] : i \in 1..Len(s)} /\ Range(u) = {u[i] : i \in 1..Len(u)}
  BY RangeIs
<1>4. /\ Len(u) = Len(s) - 1 /\ \A i \in 1..Len(u) : u[i] = s[i + 1]
  BY <1>1, <1>2
<1>5. ASSUME NEW x \in Range(s) PROVE x \in {s[1]} \cup Range(u)
  <2>1. PICK i \in 1..Len(s) : x = s[i]
    BY <1>3
  <2>2. CASE i = 1
    BY <2>1, <2>2
  <2>3. CASE i # 1
    <3>1. i - 1 \in 1..Len(u) /\ u[i - 1] = s[i]
      BY <1>1, <1>4, <2>3
    <3>2. QED BY <1>3, <2>1, <3>1
  <2>4. QED BY <2>2, <2>3
<1>6. ASSUME NEW x \in Range(u) PROVE x \in Range(s)
  <2>1. PICK i \in 1..Len(u) : x = u[i]
    BY <1>3
  <2>2. i + 1 \in 1..Len(s) /\ x = s[i + 1]
    BY <1>1, <1>4, <2>1
  <2>3. QED BY <1>3, <2>2
<1>7. s[1] \in Range(s)
  BY <1>1, <1>3
<1>8. QED BY <1>1, <1>2, <1>5, <1>6, <1>7

\* or one is removed at its place.
LEMMA RemovedAt ==
    ASSUME NEW S, NEW s \in Seq(S), IsInjective(s), NEW k \in 1..Len(s)
    PROVE  /\ RemoveAt(s, k) \in Seq(S) /\ IsInjective(RemoveAt(s, k))
           /\ Range(RemoveAt(s, k)) = Range(s) \ {s[k]}
<1> DEFINE f == SubSeq(s, 1, k - 1)
           g == SubSeq(s, k + 1, Len(s))
<1>1. /\ Len(s) \in Nat /\ Range(s) = {s[i] : i \in 1..Len(s)}
      /\ \A i, j \in 1..Len(s) : s[i] = s[j] => i = j
      /\ \A i \in 1..Len(s) : s[i] \in S
  BY RangeIs, ElementOfSeq
<1>2. f \in Seq(S) /\ Len(f) = k - 1 /\ \A i \in 1..(k - 1) : f[i] = s[i]
  <2>1. \A i \in 1..(k - 1) : s[i] \in S
    BY <1>1
  <2>2. /\ f \in Seq(S) /\ Len(f) = IF 1 <= k - 1 THEN k - 1 - 1 + 1 ELSE 0
        /\ \A i \in 1..(k - 1 - 1 + 1) : f[i] = s[1 + i - 1]
    BY <1>1, <2>1, SubSeqProperties
  <2>3. QED BY <1>1, <2>2
<1>3. g \in Seq(S) /\ Len(g) = Len(s) - k /\ \A i \in 1..(Len(s) - k) : g[i] = s[k + i]
  <2>1. \A i \in (k + 1)..Len(s) : s[i] \in S
    BY <1>1
  <2>2. /\ g \in Seq(S) /\ Len(g) = IF k + 1 <= Len(s) THEN Len(s) - (k + 1) + 1 ELSE 0
        /\ \A i \in 1..(Len(s) - (k + 1) + 1) : g[i] = s[(k + 1) + i - 1]
    BY <1>1, <2>1, SubSeqProperties
  <2>3. QED BY <1>1, <2>2
<1> HIDE DEF f, g
<1> DEFINE h == f \o g
<1>4. /\ h \in Seq(S) /\ Len(h) = Len(f) + Len(g)
      /\ \A i \in 1..Len(f) + Len(g) : h[i] = IF i <= Len(f) THEN f[i] ELSE g[i - Len(f)]
  BY <1>2, <1>3, ConcatProperties
<1> HIDE DEF h
<1>5. Len(h) = Len(s) - 1 /\ \A i \in 1..Len(h) : h[i] = IF i < k THEN s[i] ELSE s[i + 1]
  <2>1. Len(h) = Len(s) - 1
    BY <1>1, <1>2, <1>3, <1>4
  <2>2. ASSUME NEW i \in 1..Len(h) PROVE h[i] = IF i < k THEN s[i] ELSE s[i + 1]
    <3>1. CASE i < k
      BY <1>1, <1>2, <1>3, <1>4, <3>1
    <3>2. CASE i >= k
      <4>1. i - Len(f) \in 1..(Len(s) - k) /\ k + (i - Len(f)) = i + 1 /\ ~(i <= Len(f))
        BY <1>1, <1>2, <2>1, <3>2
      <4>2. h[i] = g[i - Len(f)]
        BY <1>4, <4>1
      <4>3. QED BY <1>3, <3>2, <4>1, <4>2
    <3>3. QED BY <1>1, <2>1, <3>1, <3>2
  <2>3. QED BY <2>1, <2>2
<1>6. /\ Range(h) = {h[i] : i \in 1..Len(h)}
      /\ IsInjective(h) <=> \A i, j \in 1..Len(h) : h[i] = h[j] => i = j
  BY <1>4, RangeIs
<1>7. IsInjective(h)
  <2> SUFFICES ASSUME NEW i \in 1..Len(h), NEW j \in 1..Len(h), h[i] = h[j] PROVE i = j
    BY <1>6
  <2>1. i \in 1..Len(s) /\ i + 1 \in 1..Len(s) /\ j \in 1..Len(s) /\ j + 1 \in 1..Len(s)
    BY <1>1, <1>5
  <2>2. QED BY <1>1, <1>5, <2>1
<1>8. ASSUME NEW x \in Range(h) PROVE x \in Range(s) \ {s[k]}
  <2>1. PICK i \in 1..Len(h) : x = h[i]
    BY <1>6
  <2>2. i \in 1..Len(s) /\ i + 1 \in 1..Len(s)
    BY <1>1, <1>5
  <2>3. QED BY <1>1, <1>5, <2>1, <2>2
<1>9. ASSUME NEW x \in Range(s) \ {s[k]} PROVE x \in Range(h)
  <2>1. PICK i \in 1..Len(s) : x = s[i]
    BY <1>1
  <2>2. CASE i < k
    <3>1. i \in 1..Len(h) /\ h[i] = x
      BY <1>1, <1>5, <2>1, <2>2
    <3>2. QED BY <1>6, <3>1
  <2>3. CASE i > k
    <3>1. i - 1 \in 1..Len(h) /\ h[i - 1] = x
      BY <1>1, <1>5, <2>1, <2>3
    <3>2. QED BY <1>6, <3>1
  <2>4. i # k
    BY <2>1
  <2>5. QED BY <1>1, <2>2, <2>3, <2>4
<1>10. RemoveAt(s, k) = h
  BY DEF RemoveAt, h, f, g
<1>11. QED BY <1>4, <1>7, <1>8, <1>9, <1>10

\* removeTrack().
LEMMA WithoutIs ==
    ASSUME NEW S, NEW s \in Seq(S), IsInjective(s), NEW t
    PROVE  /\ Without(s, t) \in Seq(S) /\ IsInjective(Without(s, t))
           /\ Range(Without(s, t)) = Range(s) \ {t}
<1>1. CASE t \notin Range(s)
  BY <1>1 DEF Without
<1>2. CASE t \in Range(s)
  <2> DEFINE k == CHOOSE i \in DOMAIN s : s[i] = t
  <2>1. DOMAIN s = 1..Len(s) /\ \E i \in 1..Len(s) : s[i] = t
    BY <1>2, RangeIs
  <2>2. k \in 1..Len(s) /\ s[k] = t
    BY <2>1
  <2> HIDE DEF k
  <2>3. /\ RemoveAt(s, k) \in Seq(S) /\ IsInjective(RemoveAt(s, k))
        /\ Range(RemoveAt(s, k)) = Range(s) \ {s[k]}
    BY <2>2, RemovedAt
  <2>4. Without(s, t) = RemoveAt(s, k)
    BY <1>2 DEF Without, k
  <2>5. QED BY <2>2, <2>3, <2>4
<1>3. QED BY <1>1, <1>2

\* addTrack() of a track that may be there, or may be none.
LEMMA WithIs ==
    ASSUME NEW S, None \notin S, NEW s \in Seq(S), IsInjective(s), NEW t \in S \cup {None}
    PROVE  /\ With(s, t) \in Seq(S) /\ IsInjective(With(s, t))
           /\ Range(With(s, t)) = Range(s) \cup ({t} \ {None})
<1>1. CASE t = None \/ t \in Range(s)
  <2>1. With(s, t) = s
    BY <1>1 DEF With
  <2>2. Range(s) = Range(s) \cup ({t} \ {None})
    BY <1>1
  <2>3. QED BY <2>1, <2>2
<1>2. CASE t # None /\ t \notin Range(s)
  <2>1. With(s, t) = Append(s, t) /\ t \in S
    BY <1>2 DEF With
  <2>2. QED BY <1>2, <2>1, Appended
<1>3. QED BY <1>1, <1>2

\* One track in the place of another.
LEMMA SwappedIs ==
    ASSUME NEW S, None \notin S, NEW s \in Seq(S), IsInjective(s), NEW old, NEW new \in S \cup {None}
    PROVE  /\ Swapped(s, old, new) \in Seq(S) /\ IsInjective(Swapped(s, old, new))
           /\ Range(Swapped(s, old, new)) = (Range(s) \ {old}) \cup ({new} \ {None})
<1>1. PICK u \in Seq(S) : /\ u = Without(s, old) /\ IsInjective(u)
                          /\ Range(u) = Range(s) \ {old}
  BY WithoutIs
<1>2. /\ With(u, new) \in Seq(S) /\ IsInjective(With(u, new))
      /\ Range(With(u, new)) = Range(u) \cup ({new} \ {None})
  BY <1>1, WithIs
<1>3. Swapped(s, old, new) = With(u, new)
  BY <1>1 DEF Swapped
<1>4. QED BY <1>1, <1>2, <1>3

\* getAudioTracks()[0] and getVideoTracks()[0].
LEMMA FirstIs ==
    ASSUME NEW S, None \notin S, NEW s \in Seq(S), NEW kind
    PROVE  /\ OfKind(s, kind) = {} => First(s, kind) = None
           /\ OfKind(s, kind) # {} => First(s, kind) \in OfKind(s, kind)
<1>1. CASE OfKind(s, kind) = {}
  BY <1>1 DEF First
<1>2. CASE OfKind(s, kind) # {}
  <2> DEFINE T == {i \in 1..Len(s) : Kind(s[i]) = kind}
             P(i) == Kind(s[i]) = kind /\ \A j \in DOMAIN s : Kind(s[j]) = kind => i <= j
  <2>1. DOMAIN s = 1..Len(s) /\ Range(s) = {s[i] : i \in 1..Len(s)} /\ Len(s) \in Nat
    BY RangeIs
  <2>2. T # {} /\ T \subseteq Nat
    BY <1>2, <2>1 DEF OfKind
  <2>3. \E x \in T : \A y \in T : ~ (<<y, x>> \in OpToRel(<, Nat))
    BY <2>2, NatLessThanWellFounded, WFMin
  <2>4. PICK i \in T : \A y \in T : ~(y < i)
    BY <2>2, <2>3 DEF OpToRel
  <2>5. i \in DOMAIN s /\ P(i)
    BY <2>1, <2>4
  <2>6. PICK m \in DOMAIN s : m = (CHOOSE j \in DOMAIN s : P(j)) /\ P(m)
    BY <2>5
  <2>7. First(s, kind) = s[m]
    BY <1>2, <2>6 DEF First
  <2>8. s[m] \in OfKind(s, kind)
    BY <2>1, <2>6 DEF OfKind
  <2>9. QED BY <1>2, <2>7, <2>8
<1>3. QED BY <1>1, <1>2

-----------------------------------------------------------------------------
(* The invariant of the tab's tracks.  A coroutine that asks the browser   *)
(* for something awaits no sender, and only a preview holds tracks of its  *)
(* own, those no stream, sender or other coroutine has (Apart).            *)

TaskRec == [what : {"idle", "preview", "mute", "video", "setCamera",
                    "setMicrophone", "share", "unshare"},
            asks : SUBSET {"audio", "video"}, current : BOOLEAN,
            got : SUBSET Track, old : Track \cup {None}, new : Track \cup {None}]

\* A coroutine, in view v and after the tracks of g were granted
TaskOK(r, v, g) ==
    /\ r \in TaskRec
    /\ r.what = "idle" => r = Idle
    /\ r.what \in {"mute", "setMicrophone"} => r.asks \subseteq {"audio"}
    /\ r.what \in {"video", "setCamera", "share"} => r.asks \subseteq {"video"}
    /\ r.what = "preview" => r.asks # {}
    /\ r.what = "unshare" => r.asks = {}
    /\ r.what = "share" /\ r.asks = {} => r.new \in Screen
    /\ r.current = TRUE => v # "lobby" /\ (r.what = "preview" => v = "preview")
    /\ r.old \in g \cup {None} /\ r.new \in g \cup {None}
    /\ r.got \subseteq g \cap (Mic \cup Cam)
    /\ r.got # {} => r.what = "preview"
    /\ \A t \in r.got : Kind(t) \notin r.asks /\ r.got = {t}

TasksOK ==
    /\ tasks \in [Task -> TaskRec]
    /\ \A k \in Task : TaskOK(tasks[k], view, granted)

ShownOK ==
    /\ view \in {"lobby", "preview", "room"}
    /\ muted \in BOOLEAN /\ camera \in BOOLEAN /\ session \in BOOLEAN

StreamsOK ==
    /\ granted \subseteq Track /\ live \subseteq granted /\ disabled \subseteq granted
    /\ local \in Seq(Mic \cup Cam) /\ IsInjective(local) /\ Range(local) \subseteq granted
    /\ published \in Seq(Track) /\ IsInjective(published) /\ Range(published) \subseteq granted
    /\ screen \in Screen \cup {None} /\ screen \in granted \cup {None}
    /\ watched \subseteq Screen

SendersOK ==
    /\ peers \in [Peer -> {"out", "in", "gone"}]
    /\ provide \in [Peer -> {<<>>, <<"video">>, <<"audio", "video">>}]
    /\ sent \in [Peer -> [audio : Mic \cup {None}, video : Cam \cup Screen \cup {None}]]
    /\ \A p \in Peer : sent[p].audio \in granted \cup {None}

\* Who awaits a sender called replaceTrack() and asks for nothing.
ChainsOK ==
    /\ chain \in [Peer -> Seq(Task \cup {Answering})]
    /\ \A k \in Task : Awaits(k, chain) => /\ tasks[k].asks = {}
                                           /\ tasks[k].what \in {"mute", "video", "share", "unshare"}

Owned ==
    \A t \in live : t \in Range(local) \/ t = screen \/ \E k \in Task : t \in tasks[k].got

\* What a preview got while it waits for the other answer is nowhere else.
Apart ==
    \A k \in Task : \A t \in tasks[k].got :
        /\ t \notin Range(local) /\ t \notin Range(published)
        /\ \A j \in Task : t # tasks[j].new /\ (j # k => t \notin tasks[j].got)
        /\ \A p \in Peer : t # sent[p].audio

Asking(k) == tasks[k].what = "share" /\ tasks[k].asks # {}

Sharing ==
    \A k \in Task : Asking(k) => screen = None /\ \A j \in Task : Asking(j) => j = k

MutedLocal ==
    muted = TRUE /\ ~Unmuting => Range(local) \cap Mic \subseteq disabled

Unlit ==
    Controls \cap {"select", "screen"} = {} =>
        /\ screen = None
        /\ view = "lobby" => Range(local) = {}
        /\ \A k \in Task : tasks[k].what \notin {"share", "unshare", "setCamera", "setMicrophone"}

MediaInv ==
    /\ ShownOK /\ StreamsOK /\ TasksOK /\ SendersOK /\ ChainsOK
    /\ Owned /\ Apart /\ Sharing /\ MutedLocal /\ Unlit

-----------------------------------------------------------------------------
(* Kinds, coroutines and chains *)

\* A track is of one kind, and of one source.
LEMMA KindIs ==
    /\ \A t : Kind(t) \in {"audio", "video"} /\ (Kind(t) = "audio" <=> t \in Mic)
    /\ None \notin Mic /\ None \notin Cam /\ None \notin Screen
    /\ \A t \in Cam \cup Screen : t \notin Mic
    /\ \A t \in Mic \cup Cam : t \notin Screen
BY MediaAssumption DEF Kind, Track

\* A coroutine that does nothing holds nothing.
LEMMA IdleIs ==
    /\ Idle \in TaskRec /\ Idle.what = "idle" /\ Idle.asks = {} /\ Idle.current = FALSE
    /\ Idle.got = {} /\ Idle.old = None /\ Idle.new = None
    /\ \A v, g : TaskOK(Idle, v, g)
BY DEF Idle, TaskRec, TaskOK

\* A coroutine stays in order when more tracks are granted.
LEMMA TaskGrows ==
    ASSUME NEW r, NEW v, NEW w, NEW g, NEW h, TaskOK(r, v, g), g \subseteq h,
           r.current = FALSE \/ w = v
    PROVE  TaskOK(r, w, h)
BY DEF TaskOK

\* one coroutine changes
LEMMA OneTask ==
    ASSUME TasksOK, NEW k \in Task, NEW r, tasks' = [tasks EXCEPT ![k] = r],
           view' = view, granted \subseteq granted', TaskOK(r, view, granted')
    PROVE  /\ TasksOK' /\ tasks'[k] = r
           /\ \A j \in Task : j # k => tasks'[j] = tasks[j]
<1>1. r \in TaskRec
  BY DEF TaskOK
<1>2. tasks' \in [Task -> TaskRec] /\ tasks'[k] = r /\ \A j \in Task : j # k => tasks'[j] = tasks[j]
  BY <1>1 DEF TasksOK
<1>3. ASSUME NEW j \in Task, j # k PROVE TaskOK(tasks[j], view, granted')
  BY <1>3, TaskGrows DEF TasksOK
<1>4. ASSUME NEW j \in Task PROVE TaskOK(tasks'[j], view', granted')
  BY <1>2, <1>3
<1>5. QED BY <1>2, <1>4 DEF TasksOK

\* cancelPendingCapture(), in whatever view follows
LEMMA AllCancelled ==
    ASSUME TasksOK, tasks' = Cancelled, granted' = granted
    PROVE  /\ TasksOK'
           /\ \A k \in Task : /\ tasks'[k].what = tasks[k].what /\ tasks'[k].asks = tasks[k].asks
                              /\ tasks'[k].got = tasks[k].got /\ tasks'[k].new = tasks[k].new
<1>1. ASSUME NEW k \in Task
      PROVE  /\ tasks'[k] = [tasks[k] EXCEPT !.current = FALSE]
             /\ tasks'[k] \in TaskRec /\ tasks'[k].current = FALSE
             /\ tasks'[k].what = tasks[k].what /\ tasks'[k].asks = tasks[k].asks
             /\ tasks'[k].got = tasks[k].got /\ tasks'[k].new = tasks[k].new
             /\ tasks'[k].old = tasks[k].old
  <2>1. tasks[k] \in TaskRec
    BY DEF TasksOK
  <2>2. tasks'[k] = [tasks[k] EXCEPT !.current = FALSE]
    BY DEF Cancelled
  <2>3. QED BY <2>1, <2>2 DEF TaskRec
<1>2. ASSUME NEW k \in Task, tasks[k].what = "idle" PROVE tasks'[k] = Idle
  <2>1. tasks[k] = Idle
    BY <1>2 DEF TasksOK, TaskOK
  <2>2. tasks'[k] = [Idle EXCEPT !.current = FALSE]
    BY <1>1, <2>1, Zenon
  <2>3. QED BY <2>2 DEF Idle
<1>3. ASSUME NEW k \in Task PROVE TaskOK(tasks'[k], view', granted)
  <2>1. TaskOK(tasks[k], view, granted)
    BY DEF TasksOK
  <2>2. QED BY <1>1, <1>2, <2>1 DEF TaskOK
<1>4. tasks' \in [Task -> TaskRec]
  BY <1>1 DEF Cancelled
<1>5. QED BY <1>1, <1>3, <1>4 DEF TasksOK

\* replaceTrack() calls the senders of everyone connected
LEMMA Chained ==
    ASSUME ChainsOK, NEW k \in Task, Connected # {},
           chain' = [p \in Peer |-> IF p \in Connected THEN Append(chain[p], k) ELSE chain[p]]
    PROVE  /\ chain' \in [Peer -> Seq(Task \cup {Answering})]
           /\ Awaits(k, chain')
           /\ \A j \in Task : j # k => (Awaits(j, chain') <=> Awaits(j, chain))
<1>1. ASSUME NEW p \in Peer
      PROVE  /\ chain'[p] \in Seq(Task \cup {Answering})
             /\ Range(chain'[p]) = IF p \in Connected THEN Range(chain[p]) \cup {k} ELSE Range(chain[p])
  <2>1. PICK c \in Seq(Task \cup {Answering}) : c = chain[p]
    BY DEF ChainsOK
  <2>2. Append(c, k) \in Seq(Task \cup {Answering}) /\ Range(Append(c, k)) = Range(c) \cup {k}
    BY Appended
  <2>3. QED BY <2>1, <2>2
<1>2. chain' \in [Peer -> Seq(Task \cup {Answering})]
  BY <1>1
<1>3. \E p \in Peer : p \in Connected
  BY DEF Connected
<1>4. QED BY <1>1, <1>2, <1>3 DEF Awaits

-----------------------------------------------------------------------------
(* What replaceTrack() leads to *)

\* What toggleMute(), toggleVideo(), toggleScreenShare() and stopScreenShare()
\* know when they call replaceTrack(), and when they go on after it
Ready(k, what, old, new, s, captured, shared, g) ==
    /\ what \in {"mute", "video", "share", "unshare"} /\ tasks[k].what \in {"idle", what}
    /\ tasks[k].got = {}
    /\ granted \subseteq g /\ g \subseteq Track
    /\ s \in Seq(Mic \cup Cam) /\ IsInjective(s) /\ Range(s) \subseteq g
    /\ captured \subseteq g
    /\ shared \in Screen \cup {None} /\ shared \in g \cup {None}
    /\ old \in g \cup {None} /\ new \in g \cup {None}
    /\ \A t \in captured : \/ t \in Range(s) \/ t = shared
                           \/ \E j \in Task : t \in tasks[j].got
    /\ \A j \in Task : \A t \in tasks[j].got : t # new /\ t \notin Range(s)
    /\ \A j \in Task : j # k /\ Asking(j) => shared = None /\ \A i \in Task : Asking(i) => i = j
    /\ what = "share" => new \in Screen
    /\ what # "mute" => Range(s) \cap Mic \subseteq Range(local)
    /\ Controls \cap {"select", "screen"} = {} =>
           /\ shared = None /\ what \notin {"share", "unshare"}
           /\ view = "lobby" => Range(s) = {}

\* The end of replaceTrack().
LEMMA CompleteKeeps ==
    ASSUME MediaInv, NEW k \in Task, NEW what, NEW old, NEW new, NEW s, NEW captured, NEW shared,
           NEW g, Ready(k, what, old, new, s, captured, shared, g),
           Complete(k, what, new, s, captured, shared),
           granted' = g, local' = s, view' = view, session' = session, peers' = peers,
           provide' = provide, sent' = sent,
           published' \in Seq(Track), IsInjective(published'),
           Range(published') \subseteq Range(published) \cup ({new} \ {None}),
           chain' \in [Peer -> Seq(Task \cup {Answering})], ~Awaits(k, chain'),
           \A j \in Task : j # k => (Awaits(j, chain') <=> Awaits(j, chain))
    PROVE  MediaInv'
<1> USE DEF Ready
<1>1. /\ TasksOK' /\ tasks'[k] = Idle /\ \A j \in Task : j # k => tasks'[j] = tasks[j]
  <2>1. TaskOK(Idle, view, granted') /\ tasks' = [tasks EXCEPT ![k] = Idle]
    BY IdleIs DEF Complete
  <2>2. QED BY <2>1, OneTask DEF MediaInv
<1>2. /\ muted' = (muted /\ what # "mute") /\ camera' = (camera \/ what = "video")
      /\ live' \subseteq captured /\ disabled' \subseteq disabled
      /\ what # "mute" => disabled \cap Mic \subseteq disabled'
      /\ screen' = IF what = "unshare" THEN None ELSE shared
      /\ what # "unshare" => live' = captured
      /\ what = "unshare" => live' = captured \ {shared}
      /\ watched' \subseteq watched \cup {new} /\ (what # "share" => watched' \subseteq watched)
  BY KindIs DEF Complete, ShowMuted, ShowCamera, OfKind
<1>3. ShownOK'
  BY <1>2 DEF MediaInv, ShownOK
<1>4. StreamsOK'
  <2>1. Range(published') \subseteq g
    BY DEF MediaInv, StreamsOK
  <2>2. QED BY <1>2, <2>1 DEF MediaInv, StreamsOK
<1>5. SendersOK'
  BY DEF MediaInv, SendersOK
<1>6. ChainsOK'
  BY <1>1 DEF MediaInv, ChainsOK
<1>7. Owned'
  <2> SUFFICES ASSUME NEW t \in live'
               PROVE  t \in Range(local') \/ t = screen' \/ \E j \in Task : t \in tasks'[j].got
    BY DEF Owned
  <2>1. t \in captured /\ (what = "unshare" => t # shared)
    BY <1>2
  <2>2. CASE \E j \in Task : t \in tasks[j].got
    <3>1. PICK j \in Task : t \in tasks[j].got
      BY <2>2
    <3>2. QED BY <1>1, <3>1
  <2>3. CASE t \in Range(s) \/ t = shared
    BY <1>2, <2>1, <2>3
  <2>4. QED BY <2>1, <2>2, <2>3
<1>8. Apart'
  <2> SUFFICES ASSUME NEW j \in Task, NEW t \in tasks'[j].got
               PROVE  /\ t \notin Range(local') /\ t \notin Range(published')
                      /\ \A i \in Task : t # tasks'[i].new /\ (i # j => t \notin tasks'[i].got)
                      /\ \A p \in Peer : t # sent'[p].audio
    BY DEF Apart
  <2>1. j # k /\ t \in tasks[j].got /\ t # None
    BY <1>1, IdleIs, KindIs DEF MediaInv, TasksOK, TaskOK
  <2>2. t \notin Range(local') /\ t # new
    BY <2>1
  <2>3. t \notin Range(published')
    BY <2>1, <2>2 DEF MediaInv, Apart
  <2>4. ASSUME NEW i \in Task PROVE t # tasks'[i].new /\ (i # j => t \notin tasks'[i].got)
    <3>1. CASE i = k
      BY <1>1, <2>1, <3>1, IdleIs
    <3>2. CASE i # k
      BY <1>1, <2>1, <3>2 DEF MediaInv, Apart
    <3>3. QED BY <3>1, <3>2
  <2>5. \A p \in Peer : t # sent'[p].audio
    BY <2>1 DEF MediaInv, Apart
  <2>6. QED BY <2>2, <2>3, <2>4, <2>5
<1>9. Sharing'
  <2>1. \A j \in Task : Asking(j)' => j # k /\ Asking(j)
    BY <1>1, IdleIs DEF Asking
  <2>2. QED BY <1>2, <2>1 DEF Sharing
<1>10. MutedLocal'
  <2> SUFFICES ASSUME muted' = TRUE, ~Unmuting' PROVE Range(s) \cap Mic \subseteq disabled'
    BY DEF MutedLocal
  <2>1. muted = TRUE /\ what # "mute"
    BY <1>2 DEF MediaInv, ShownOK
  <2>2. ~Unmuting
    BY <1>1, <2>1 DEF Unmuting
  <2>3. QED BY <1>2, <2>1, <2>2 DEF MediaInv, MutedLocal
<1>11. Unlit'
  BY <1>1, <1>2, IdleIs DEF MediaInv, Unlit
<1>12. QED BY <1>1, <1>3, <1>4, <1>5, <1>6, <1>7, <1>8, <1>9, <1>10, <1>11 DEF MediaInv

\* The beginning of replaceTrack(), and its end when nobody has a sender.
LEMMA ReplaceTrackKeeps ==
    ASSUME MediaInv, NEW k \in Task, NEW what, NEW old, NEW new, NEW s, NEW captured, NEW shared,
           NEW g, Ready(k, what, old, new, s, captured, shared, g), tasks[k].asks # {} \/ tasks[k] = Idle,
           ReplaceTrack(k, what, old, new, s, captured, shared),
           granted' = g, local' = s, view' = view, session' = session, peers' = peers,
           provide' = provide
    PROVE  MediaInv'
<1>1. ~Awaits(k, chain)
  BY IdleIs DEF MediaInv, ChainsOK
<1>2. CASE Connected = {}
  <2>1. PICK old1 : old1 = published /\ old1 \in Seq(Track) /\ IsInjective(old1)
    BY DEF MediaInv, StreamsOK
  <2>2. None \notin Track /\ new \in Track \cup {None}
    BY MediaAssumption DEF Ready
  <2>3. /\ Swapped(old1, old, new) \in Seq(Track) /\ IsInjective(Swapped(old1, old, new))
        /\ Range(Swapped(old1, old, new)) = (Range(old1) \ {old}) \cup ({new} \ {None})
    BY <2>1, <2>2, SwappedIs
  <2>4. PICK new1 : new1 = Swapped(old1, old, new)
    OBVIOUS
  <2>5. published' = new1 /\ chain' = chain /\ sent' = sent
    BY <1>2, <2>1, <2>4 DEF ReplaceTrack
  <2>6. /\ published' \in Seq(Track) /\ IsInjective(published')
        /\ Range(published') \subseteq Range(published) \cup ({new} \ {None})
    BY <2>1, <2>3, <2>4, <2>5
  <2>7. /\ chain' \in [Peer -> Seq(Task \cup {Answering})] /\ ~Awaits(k, chain')
        /\ \A j \in Task : j # k => (Awaits(j, chain') <=> Awaits(j, chain))
    BY <1>1, <2>5 DEF MediaInv, ChainsOK
  <2>8. Complete(k, what, new, s, captured, shared)
    BY <1>2 DEF ReplaceTrack
  <2>9. QED BY <2>5, <2>6, <2>7, <2>8, CompleteKeeps
<1>3. CASE Connected # {}
  <2> DEFINE kind == IF new # None THEN Kind(new) ELSE Kind(old)
             r == [Idle EXCEPT !.what = what, !.old = old, !.new = new]
  <2>1. /\ sent' = [p \in Peer |-> IF p \in Connected
                                   THEN [sent[p] EXCEPT ![kind] = new] ELSE sent[p]]
        /\ chain' = [p \in Peer |-> IF p \in Connected THEN Append(chain[p], k) ELSE chain[p]]
        /\ tasks' = [tasks EXCEPT ![k] = r]
        /\ live' = captured /\ screen' = shared /\ watched' \subseteq watched
        /\ muted' = muted /\ camera' = camera /\ disabled' = disabled /\ published' = published
    BY <1>3 DEF ReplaceTrack
  <2>2. /\ r \in TaskRec /\ r.what = what /\ r.asks = {} /\ r.current = FALSE /\ r.got = {}
        /\ r.old = old /\ r.new = new
    BY DEF Idle, TaskRec, Ready
  <2> HIDE DEF r
  <2>3. TaskOK(r, view, g)
    BY <2>2 DEF TaskOK, Ready
  <2>4. TasksOK' /\ tasks'[k] = r /\ \A j \in Task : j # k => tasks'[j] = tasks[j]
    BY <2>1, <2>3, OneTask DEF MediaInv, Ready
  <2>5. /\ chain' \in [Peer -> Seq(Task \cup {Answering})] /\ Awaits(k, chain')
        /\ \A j \in Task : j # k => (Awaits(j, chain') <=> Awaits(j, chain))
    BY <1>3, <2>1, Chained DEF MediaInv
  <2>6. \A p \in Peer : /\ sent'[p] \in [audio : Mic \cup {None}, video : Cam \cup Screen \cup {None}]
                        /\ sent'[p].audio \in {sent[p].audio, new}
    <3>1. /\ kind \in {"audio", "video"} /\ (kind = "audio" => new \in Mic \cup {None})
          /\ (kind = "video" => new \in Cam \cup Screen \cup {None})
      BY KindIs DEF Ready, Track
    <3> HIDE DEF kind
    <3>2. QED BY <2>1, <3>1 DEF MediaInv, SendersOK
  <2>7. SendersOK'
    <3>1. sent' \in [Peer -> [audio : Mic \cup {None}, video : Cam \cup Screen \cup {None}]]
      BY <2>1, <2>6
    <3>2. QED BY <2>6, <3>1 DEF MediaInv, SendersOK, Ready
  <2> HIDE DEF kind
  <2>8. ShownOK'
    BY <2>1 DEF MediaInv, ShownOK
  <2>9. StreamsOK'
    BY <2>1 DEF MediaInv, StreamsOK, Ready
  <2>10. ChainsOK'
    BY <2>2, <2>4, <2>5 DEF MediaInv, ChainsOK, Ready
  <2>11. Owned'
    <3> SUFFICES ASSUME NEW t \in live'
                 PROVE  t \in Range(local') \/ t = screen' \/ \E j \in Task : t \in tasks'[j].got
      BY DEF Owned
    <3>1. CASE \E j \in Task : t \in tasks[j].got
      BY <2>4, <3>1 DEF Ready
    <3>2. QED BY <2>1, <3>1 DEF Ready
  <2>12. Apart'
    <3> SUFFICES ASSUME NEW j \in Task, NEW t \in tasks'[j].got
                 PROVE  /\ t \notin Range(local') /\ t \notin Range(published')
                        /\ \A i \in Task : t # tasks'[i].new /\ (i # j => t \notin tasks'[i].got)
                        /\ \A p \in Peer : t # sent'[p].audio
      BY DEF Apart
    <3>1. j # k /\ t \in tasks[j].got /\ t # new
      BY <2>2, <2>4 DEF Ready
    <3>2. QED BY <2>1, <2>2, <2>4, <2>6, <3>1 DEF MediaInv, Apart, Ready
  <2>13. Sharing'
    <3>1. \A j \in Task : Asking(j)' => j # k /\ Asking(j)
      BY <2>2, <2>4 DEF Asking
    <3>2. QED BY <2>1, <3>1 DEF Sharing, Ready
  <2>14. MutedLocal'
    <3> SUFFICES ASSUME muted' = TRUE, ~Unmuting' PROVE Range(s) \cap Mic \subseteq disabled'
      BY DEF MutedLocal
    <3>1. what # "mute"
      BY <2>2, <2>4, <2>5 DEF Unmuting
    <3>2. ~Unmuting
      BY <1>1, <2>4, <2>5 DEF Unmuting
    <3>3. QED BY <2>1, <3>1, <3>2 DEF MediaInv, MutedLocal, Ready
  <2>15. Unlit'
    BY <2>1, <2>2, <2>4 DEF MediaInv, Unlit, Ready
  <2>16. QED BY <2>4, <2>7, <2>8, <2>9, <2>10, <2>11, <2>12, <2>13, <2>14, <2>15 DEF MediaInv
<1>4. QED BY <1>2, <1>3

\* one operation of p's chain is over
LEMMA Shortened ==
    ASSUME ChainsOK, NEW p \in Peer, chain[p] # <<>>, chain' = [chain EXCEPT ![p] = Tail(@)]
    PROVE  /\ chain' \in [Peer -> Seq(Task \cup {Answering})]
           /\ Head(chain[p]) \in Task \cup {Answering}
           /\ \A j \in Task : Awaits(j, chain) <=> Awaits(j, chain') \/ j = Head(chain[p])
<1>1. PICK c \in Seq(Task \cup {Answering}) : c = chain[p] /\ c # <<>>
  BY DEF ChainsOK
<1>2. /\ Head(c) \in Range(c) /\ Tail(c) \in Seq(Task \cup {Answering})
      /\ Range(c) = {Head(c)} \cup Range(Tail(c)) /\ Range(c) \subseteq Task \cup {Answering}
  BY <1>1, Taken, RangeIs
<1>3. /\ chain'[p] = Tail(c) /\ \A q \in Peer : q # p => chain'[q] = chain[q]
      /\ chain' \in [Peer -> Seq(Task \cup {Answering})]
  BY <1>1, <1>2 DEF ChainsOK
<1>4. ASSUME NEW j \in Task PROVE Awaits(j, chain) <=> Awaits(j, chain') \/ j = Head(c)
  BY <1>1, <1>2, <1>3 DEF Awaits
<1>5. QED BY <1>1, <1>2, <1>3, <1>4

\* A sender answers replaceTrack().
LEMMA SenderSettlesKeeps ==
    ASSUME MediaInv, NEW p \in Peer, SenderSettles(p)
    PROVE  MediaInv'
<1>1. chain[p] # <<>> /\ chain' = [chain EXCEPT ![p] = Tail(@)]
  BY DEF SenderSettles
<1>2. PICK k \in Task \cup {Answering} : k = Head(chain[p])
  BY <1>1, Shortened DEF MediaInv
<1>3. /\ chain' \in [Peer -> Seq(Task \cup {Answering})]
      /\ \A j \in Task : Awaits(j, chain) <=> Awaits(j, chain') \/ j = k
  BY <1>1, <1>2, Shortened DEF MediaInv
<1>4. session' = session /\ peers' = peers /\ provide' = provide /\ sent' = sent /\ view' = view
  BY DEF SenderSettles, shown
<1>5. CASE k = Answering \/ Awaits(k, chain')
  <2>1. /\ muted' = muted /\ camera' = camera /\ granted' = granted /\ live' = live
        /\ disabled' = disabled /\ local' = local /\ screen' = screen /\ watched' = watched
        /\ tasks' = tasks /\ published' = published
    BY <1>2, <1>5, Zenon DEF SenderSettles, shown, devices
  <2>2. \A j \in Task : Awaits(j, chain) <=> Awaits(j, chain')
    BY <1>3, <1>5, MediaAssumption
  <2>3. ShownOK' /\ StreamsOK' /\ TasksOK' /\ SendersOK'
    BY <1>4, <2>1 DEF MediaInv, ShownOK, StreamsOK, TasksOK, SendersOK
  <2>4. ChainsOK' /\ Owned' /\ Apart' /\ Sharing'
    BY <1>3, <1>4, <2>1, <2>2 DEF MediaInv, ChainsOK, Owned, Apart, Sharing, Asking
  <2>5. MutedLocal' /\ Unlit'
    BY <1>4, <2>1, <2>2 DEF MediaInv, MutedLocal, Unlit, Unmuting
  <2>6. QED BY <2>3, <2>4, <2>5 DEF MediaInv
<1>6. CASE k # Answering /\ ~Awaits(k, chain')
  <2>1. k \in Task /\ Awaits(k, chain)
    BY <1>3, <1>6
  <2>2. PICK what, old, new, s, captured, shared, g, pub :
          /\ what = tasks[k].what /\ old = tasks[k].old /\ new = tasks[k].new
          /\ s = local /\ captured = live /\ shared = screen /\ g = granted /\ pub = published
    OBVIOUS
  <2>3. /\ tasks[k].asks = {} /\ what \in {"mute", "video", "share", "unshare"}
    BY <2>1, <2>2 DEF MediaInv, ChainsOK
  <2>4. TaskOK(tasks[k], view, granted)
    BY <2>1 DEF MediaInv, TasksOK
  <2>5. tasks[k].got = {} /\ ~Asking(k)
    BY <2>2, <2>3, <2>4 DEF TaskOK, Asking
  <2>6. Ready(k, what, old, new, s, captured, shared, g)
    <3>1. what = "share" => new \in Screen
      BY <2>2, <2>3, <2>4 DEF TaskOK
    <3>2. /\ old \in g \cup {None} /\ new \in g \cup {None}
      BY <2>2, <2>4 DEF TaskOK
    <3>3. \A j \in Task : \A t \in tasks[j].got : t # new /\ t \notin Range(s)
      BY <2>1, <2>2 DEF MediaInv, Apart
    <3>4. \A j \in Task : j # k /\ Asking(j) => shared = None /\ \A i \in Task : Asking(i) => i = j
      BY <2>2 DEF MediaInv, Sharing
    <3>5. \A t \in captured : t \in Range(s) \/ t = shared \/ \E j \in Task : t \in tasks[j].got
      BY <2>2 DEF MediaInv, Owned
    <3>6. Controls \cap {"select", "screen"} = {} =>
           /\ shared = None /\ what \notin {"share", "unshare"}
           /\ view = "lobby" => Range(s) = {}
      BY <2>1, <2>2 DEF MediaInv, Unlit
    <3>7. QED BY <2>2, <2>3, <2>5, <3>1, <3>2, <3>3, <3>4, <3>5, <3>6 DEF Ready, MediaInv, StreamsOK
  <2>7. /\ Complete(k, what, new, s, captured, shared)
        /\ published' = Swapped(pub, old, new)
        /\ granted' = g /\ local' = s
    BY <1>2, <1>6, <2>2, Zenon DEF SenderSettles, Complete, ShowMuted, ShowCamera
  <2>8. None \notin Track /\ new \in Track \cup {None} /\ pub \in Seq(Track) /\ IsInjective(pub)
    BY <2>2, <2>6, MediaAssumption DEF Ready, MediaInv, StreamsOK
  <2>9. /\ Swapped(pub, old, new) \in Seq(Track) /\ IsInjective(Swapped(pub, old, new))
        /\ Range(Swapped(pub, old, new)) = (Range(pub) \ {old}) \cup ({new} \ {None})
    BY <2>8, SwappedIs
  <2>10. PICK new1 : new1 = Swapped(pub, old, new)
    OBVIOUS
  <2>11. published' = new1
    BY <2>7, <2>10
  <2>12. /\ published' \in Seq(Track) /\ IsInjective(published')
         /\ Range(published') \subseteq Range(published) \cup ({new} \ {None})
    BY <2>2, <2>9, <2>10, <2>11
  <2>13. \A j \in Task : j # k => (Awaits(j, chain') <=> Awaits(j, chain))
    BY <1>3
  <2>14. QED BY <1>3, <1>4, <1>6, <2>1, <2>6, <2>7, <2>12, <2>13, CompleteKeeps
<1>7. QED BY <1>5, <1>6

-----------------------------------------------------------------------------
(* The answers of the browser *)

\* What every answer of Answer(k, kind, t) has in common
Answered(k, kind, t) ==
    /\ kind \in tasks[k].asks
    /\ \/ t = None
       \/ t \in (IF tasks[k].what = "share" THEN Screen
                 ELSE IF kind = "audio" THEN Mic ELSE Cam) \ granted
    /\ granted' = granted \cup ({t} \ {None})

\* A track that getUserMedia() just gave is nobody's yet.
LEMMA AnsweredIs ==
    ASSUME MediaInv, NEW k \in Task, NEW kind \in {"audio", "video"}, NEW t \in Track \cup {None},
           Answered(k, kind, t)
    PROVE  /\ granted \subseteq granted' /\ granted' \subseteq Track
           /\ t # None => t \in granted' /\ t \notin granted
           /\ t # None /\ tasks[k].what # "share" => t \in (IF kind = "audio" THEN Mic ELSE Cam)
           /\ t # None /\ tasks[k].what = "share" => t \in Screen
           /\ t \notin Range(local) /\ t \notin Range(published)
           /\ t # None => t # screen /\ t \notin live /\ t \notin disabled
           /\ \A j \in Task : t \notin tasks[j].got /\ (t # None => t # tasks[j].new)
           /\ \A p \in Peer : t # None => t # sent[p].audio
           /\ ~Awaits(k, chain) /\ TaskOK(tasks[k], view, granted)
<1>1. TaskOK(tasks[k], view, granted) /\ \A j \in Task : TaskOK(tasks[j], view, granted)
  BY DEF MediaInv, TasksOK
<1>2. /\ granted \subseteq granted' /\ granted' \subseteq Track
      /\ t # None => t \in granted' /\ t \notin granted
      /\ t # None /\ tasks[k].what # "share" => t \in (IF kind = "audio" THEN Mic ELSE Cam)
      /\ t # None /\ tasks[k].what = "share" => t \in Screen
  BY DEF Answered, MediaInv, StreamsOK
<1>3. None \notin granted
  BY MediaAssumption DEF MediaInv, StreamsOK
<1>4. /\ t \notin Range(local) /\ t \notin Range(published)
      /\ t # None => t # screen /\ t \notin live /\ t \notin disabled
  BY <1>2, <1>3 DEF MediaInv, StreamsOK
<1>5. ASSUME NEW j \in Task PROVE t \notin tasks[j].got /\ (t # None => t # tasks[j].new)
  BY <1>1, <1>2, <1>3 DEF TaskOK
<1>6. ASSUME NEW p \in Peer PROVE t # None => t # sent[p].audio
  BY <1>2, <1>3 DEF MediaInv, SendersOK
<1>7. ~Awaits(k, chain)
  BY DEF Answered, MediaInv, ChainsOK
<1>8. QED BY <1>1, <1>2, <1>4, <1>5, <1>6, <1>7

\* The coroutine is over and nothing else happened.
LEMMA DroppedKeeps ==
    ASSUME MediaInv, NEW k \in Task, NEW kind \in {"audio", "video"}, NEW t \in Track \cup {None},
           Answered(k, kind, t), tasks[k].what # "preview",
           Refused(k) \/ DeviceTooLate(k)
    PROVE  MediaInv'
<1>1. /\ granted \subseteq granted' /\ granted' \subseteq Track /\ ~Awaits(k, chain)
      /\ TaskOK(tasks[k], view, granted)
  BY AnsweredIs
<1>2. /\ granted \subseteq granted' /\ granted' \subseteq Track /\ ~Awaits(k, chain)
      /\ tasks[k].got = {}
  BY <1>1 DEF TaskOK
<1>3. /\ tasks' = [tasks EXCEPT ![k] = Idle]
      /\ view' = view /\ muted' = muted /\ camera' = camera
      /\ live' = live /\ disabled' = disabled /\ local' = local /\ screen' = screen
      /\ watched' = watched /\ session' = session /\ published' = published
      /\ peers' = peers /\ provide' = provide /\ chain' = chain /\ sent' = sent
  BY DEF Refused, DeviceTooLate, shown, rtc
<1>4. TaskOK(Idle, view, granted')
  BY IdleIs
<1>5. TasksOK' /\ tasks'[k] = Idle /\ \A j \in Task : j # k => tasks'[j] = tasks[j]
  BY <1>2, <1>3, <1>4, OneTask DEF MediaInv
<1>6. ShownOK' /\ StreamsOK' /\ SendersOK'
  BY <1>2, <1>3 DEF MediaInv, ShownOK, StreamsOK, SendersOK
<1>7. \A j \in Task : Awaits(j, chain') <=> Awaits(j, chain)
  BY <1>3
<1>8. ChainsOK'
  BY <1>2, <1>3, <1>5, <1>7 DEF MediaInv, ChainsOK
<1>9. Owned' /\ Apart'
  <2>1. \A j \in Task : tasks'[j].got = tasks[j].got /\ tasks'[j].new \in {tasks[j].new, None}
    BY <1>2, <1>5, IdleIs
  <2>2. \A j \in Task : \A u \in tasks[j].got : u # None
    BY KindIs DEF MediaInv, TasksOK, TaskOK
  <2>3. Owned'
    BY <1>3, <2>1 DEF MediaInv, Owned
  <2>4. Apart'
    BY <1>3, <2>1, <2>2 DEF MediaInv, Apart
  <2>5. QED BY <2>3, <2>4
<1>10. Sharing' /\ Unlit'
  BY <1>3, <1>5, IdleIs DEF MediaInv, Sharing, Unlit, Asking
<1>11. MutedLocal'
  BY <1>2, <1>3, <1>5, <1>7, IdleIs DEF MediaInv, MutedLocal, Unmuting
<1>12. QED BY <1>5, <1>6, <1>8, <1>9, <1>10, <1>11 DEF MediaInv

\* The first of two answers of the preview.
LEMMA PreviewFirstAnswerKeeps ==
    ASSUME MediaInv, NEW k \in Task, NEW kind \in {"audio", "video"}, NEW t \in Track \cup {None},
           Answered(k, kind, t), tasks[k].what = "preview", PreviewFirstAnswer(k, kind, t)
    PROVE  MediaInv'
<1> DEFINE r == [tasks[k] EXCEPT !.asks = @ \ {kind}, !.got = @ \cup ({t} \ {None})]
<1>1. /\ granted \subseteq granted' /\ granted' \subseteq Track /\ (t # None => t \in granted')
      /\ t # None => t \in (IF kind = "audio" THEN Mic ELSE Cam)
      /\ t \notin Range(local) /\ t \notin Range(published)
      /\ \A j \in Task : t \notin tasks[j].got /\ (t # None => t # tasks[j].new)
      /\ \A p \in Peer : t # None => t # sent[p].audio
      /\ ~Awaits(k, chain) /\ TaskOK(tasks[k], view, granted)
  BY AnsweredIs
<1>2. /\ tasks' = [tasks EXCEPT ![k] = r] /\ live' = live \cup ({t} \ {None})
      /\ tasks[k].asks = {"audio", "video"}
      /\ view' = view /\ muted' = muted /\ camera' = camera
      /\ disabled' = disabled /\ local' = local /\ screen' = screen
      /\ watched' = watched /\ session' = session /\ published' = published
      /\ peers' = peers /\ provide' = provide /\ chain' = chain /\ sent' = sent
  BY DEF PreviewFirstAnswer, shown, rtc
<1>3. tasks[k].got = {}
  BY <1>1, <1>2, KindIs DEF TaskOK
<1>4. /\ r \in TaskRec /\ r.what = "preview" /\ r.asks = {"audio", "video"} \ {kind}
      /\ r.got = {t} \ {None} /\ r.current = tasks[k].current
      /\ r.new = tasks[k].new /\ r.old = tasks[k].old
  BY <1>1, <1>2, <1>3 DEF TaskOK, TaskRec
<1> HIDE DEF r
<1>5. TaskOK(r, view, granted')
  <2>1. \A u \in r.got : Kind(u) \notin r.asks /\ r.got = {u}
    BY <1>1, <1>4, KindIs
  <2>2. r.got \subseteq granted' \cap (Mic \cup Cam)
    BY <1>1, <1>4
  <2>3. r.asks # {}
    BY <1>4
  <2>4. QED BY <1>1, <1>4, <2>1, <2>2, <2>3 DEF TaskOK
<1>6. TasksOK' /\ tasks'[k] = r /\ \A j \in Task : j # k => tasks'[j] = tasks[j]
  BY <1>1, <1>2, <1>5, OneTask DEF MediaInv
<1>7. ShownOK' /\ StreamsOK' /\ SendersOK'
  BY <1>1, <1>2 DEF MediaInv, ShownOK, StreamsOK, SendersOK
<1>8. ChainsOK'
  BY <1>1, <1>2, <1>6 DEF MediaInv, ChainsOK
<1>9. Owned'
  <2> SUFFICES ASSUME NEW u \in live'
               PROVE  u \in Range(local') \/ u = screen' \/ \E j \in Task : u \in tasks'[j].got
    BY DEF Owned
  <2>1. CASE u \in {t} \ {None}
    BY <1>4, <1>6, <2>1
  <2>2. CASE u \in live
    <3>1. u \in Range(local) \/ u = screen \/ \E j \in Task : u \in tasks[j].got
      BY <2>2 DEF MediaInv, Owned
    <3>2. \A j \in Task : u \in tasks[j].got => j # k
      BY <1>3
    <3>3. QED BY <1>2, <1>6, <3>1, <3>2
  <2>3. QED BY <1>2, <2>1, <2>2
<1>10. Apart'
  <2>1. ASSUME NEW j \in Task, NEW u \in tasks'[j].got
        PROVE  /\ u \notin Range(local) /\ u \notin Range(published)
               /\ \A i \in Task : u # tasks[i].new /\ (i # j => u \notin tasks[i].got)
               /\ \A p \in Peer : u # sent[p].audio
    <3>1. CASE j = k
      <4>1. u = t /\ u # None
        BY <1>4, <1>6, <2>1, <3>1
      <4>2. QED BY <1>1, <4>1
    <3>2. CASE j # k
      BY <1>6, <2>1, <3>2 DEF MediaInv, Apart
    <3>3. QED BY <3>1, <3>2
  <2>2. ASSUME NEW j \in Task, NEW u \in tasks'[j].got, NEW i \in Task
        PROVE  u # tasks'[i].new /\ (i # j => u \notin tasks'[i].got)
    <3>1. tasks'[i].new = tasks[i].new
      BY <1>4, <1>6
    <3>2. CASE i = k /\ i # j
      <4>1. u \in tasks[j].got
        BY <1>6, <2>2, <3>2
      <4>2. u # t
        BY <1>1, <4>1
      <4>3. QED BY <1>4, <1>6, <2>1, <3>1, <3>2, <4>2
    <3>3. CASE i # k \/ i = j
      BY <1>6, <2>1, <3>1, <3>3
    <3>4. QED BY <3>2, <3>3
  <2>3. QED BY <1>2, <2>1, <2>2 DEF Apart
<1>11. Sharing' /\ Unlit'
  BY <1>2, <1>4, <1>6 DEF MediaInv, Sharing, Unlit, Asking
<1>12. MutedLocal'
  BY <1>1, <1>2, <1>6 DEF MediaInv, MutedLocal, Unmuting
<1>13. QED BY <1>6, <1>7, <1>8, <1>9, <1>10, <1>11, <1>12 DEF MediaInv

\* What was captured, if anything.
LEMMA OnlyIs ==
    ASSUME NEW S, None \notin S, \A x, y \in S : x = y
    PROVE  Only(S) \in S \cup {None} /\ {Only(S)} \ {None} = S
BY DEF Only

\* The preview has its answers.
LEMMA PreviewAnsweredKeeps ==
    ASSUME MediaInv, NEW k \in Task, NEW kind \in {"audio", "video"}, NEW t \in Track \cup {None},
           Answered(k, kind, t), tasks[k].what = "preview", tasks[k].asks = {kind},
           PreviewAnswered(k, t)
    PROVE  MediaInv'
<1>1. /\ granted \subseteq granted' /\ granted' \subseteq Track /\ (t # None => t \in granted')
      /\ t # None => t \in (IF kind = "audio" THEN Mic ELSE Cam)
      /\ t \notin Range(local) /\ t \notin Range(published)
      /\ \A j \in Task : t \notin tasks[j].got /\ (t # None => t # tasks[j].new)
      /\ \A p \in Peer : t # None => t # sent[p].audio
      /\ ~Awaits(k, chain) /\ TaskOK(tasks[k], view, granted)
  BY AnsweredIs
<1>2. PICK got : got = tasks[k].got \cup ({t} \ {None})
  OBVIOUS
<1>3. PICK add : add = IF tasks[k].current THEN got ELSE {}
  OBVIOUS
<1>4. PICK base : base = local
  OBVIOUS
<1>5. PICK s : s = With(With(base, Only(add \cap Mic)), Only(add \cap Cam))
  OBVIOUS
<1>6. /\ local' = s
      /\ live' = IF tasks[k].current THEN live \cup got ELSE live \ got
      /\ IF view = "preview"
         THEN /\ ShowMuted(OfKind(s, "audio") = {})
              /\ ShowCamera(OfKind(s, "video") # {})
              /\ disabled' = disabled \ Range(s)
         ELSE muted' = muted /\ camera' = camera /\ disabled' = disabled
      /\ tasks' = [tasks EXCEPT ![k] = Idle]
      /\ view' = view /\ screen' = screen /\ watched' = watched
      /\ session' = session /\ published' = published
      /\ peers' = peers /\ provide' = provide /\ chain' = chain /\ sent' = sent
  BY <1>2, <1>3, <1>4, <1>5 DEF PreviewAnswered, rtc, ShowMuted, ShowCamera
<1>7. /\ got \subseteq granted' \cap (Mic \cup Cam)
      /\ \A x, y \in got \cap Mic : x = y
      /\ \A x, y \in got \cap Cam : x = y
      /\ tasks[k].current \in BOOLEAN
      /\ tasks[k].current = TRUE => view = "preview"
  <2>1. /\ \A u \in tasks[k].got : Kind(u) # kind /\ tasks[k].got = {u}
        /\ tasks[k].got \subseteq granted \cap (Mic \cup Cam) /\ tasks[k] \in TaskRec
        /\ tasks[k].current = TRUE => view = "preview"
    BY <1>1 DEF TaskOK
  <2>2. tasks[k].current \in BOOLEAN
    BY <2>1 DEF TaskRec
  <2>3. got \subseteq granted' \cap (Mic \cup Cam)
    BY <1>1, <1>2, <2>1
  <2>4. t # None => Kind(t) = kind
    BY <1>1, KindIs
  <2>5. \A x, y \in got : x = y \/ Kind(x) # Kind(y)
    BY <1>2, <2>1, <2>4
  <2>6. \A x, y \in got \cap Mic : x = y
    BY <2>5, KindIs
  <2>7. \A x, y \in got \cap Cam : x = y
    BY <2>5, KindIs
  <2>8. QED BY <2>1, <2>2, <2>3, <2>6, <2>7
<1>8. add \subseteq got /\ (tasks[k].current = TRUE => add = got) /\ (tasks[k].current = FALSE => add = {})
  BY <1>3, <1>7
<1>9. /\ s \in Seq(Mic \cup Cam) /\ IsInjective(s) /\ Range(s) = Range(local) \cup add
  <2>1. PICK a, v : a = Only(add \cap Mic) /\ v = Only(add \cap Cam)
    OBVIOUS
  <2>2. /\ a \in (add \cap Mic) \cup {None} /\ {a} \ {None} = add \cap Mic
        /\ v \in (add \cap Cam) \cup {None} /\ {v} \ {None} = add \cap Cam
    <3>1. None \notin Mic /\ None \notin Cam
      BY KindIs
    <3>2. \A x, y \in add \cap Mic : x = y
      BY <1>7, <1>8
    <3>3. \A x, y \in add \cap Cam : x = y
      BY <1>7, <1>8
    <3>4. a \in (add \cap Mic) \cup {None} /\ {a} \ {None} = add \cap Mic
      BY <2>1, <3>1, <3>2, OnlyIs
    <3>5. v \in (add \cap Cam) \cup {None} /\ {v} \ {None} = add \cap Cam
      BY <2>1, <3>1, <3>3, OnlyIs
    <3>6. QED BY <3>4, <3>5
  <2>3. base \in Seq(Mic \cup Cam) /\ IsInjective(base) /\ None \notin Mic \cup Cam
    BY <1>4, KindIs DEF MediaInv, StreamsOK
  <2>4. PICK u \in Seq(Mic \cup Cam) : /\ u = With(base, a) /\ IsInjective(u)
                                       /\ Range(u) = Range(base) \cup ({a} \ {None})
    BY <2>2, <2>3, WithIs
  <2>5. /\ With(u, v) \in Seq(Mic \cup Cam) /\ IsInjective(With(u, v))
        /\ Range(With(u, v)) = Range(u) \cup ({v} \ {None})
    BY <2>2, <2>3, <2>4, WithIs
  <2>6. s = With(u, v)
    BY <1>5, <2>1, <2>4
  <2>7. Range(s) = Range(base) \cup (add \cap Mic) \cup (add \cap Cam)
    BY <2>2, <2>4, <2>5, <2>6
  <2>8. (add \cap Mic) \cup (add \cap Cam) = add
    BY <1>7, <1>8
  <2>9. QED BY <1>4, <2>5, <2>6, <2>7, <2>8
<1>10. TaskOK(Idle, view, granted')
  BY IdleIs
<1>11. TasksOK' /\ tasks'[k] = Idle /\ \A j \in Task : j # k => tasks'[j] = tasks[j]
  BY <1>1, <1>6, <1>10, OneTask DEF MediaInv
<1>12. ShownOK'
  BY <1>6 DEF MediaInv, ShownOK, ShowMuted, ShowCamera
<1>13. StreamsOK'
  <2>1. live' \subseteq granted' /\ disabled' \subseteq granted'
    BY <1>1, <1>6, <1>7 DEF MediaInv, StreamsOK
  <2>2. Range(s) \subseteq granted'
    BY <1>1, <1>7, <1>8, <1>9 DEF MediaInv, StreamsOK
  <2>3. QED BY <1>1, <1>6, <1>9, <2>1, <2>2 DEF MediaInv, StreamsOK
<1>14. SendersOK'
  BY <1>1, <1>6 DEF MediaInv, SendersOK
<1>15. ChainsOK'
  BY <1>1, <1>6, <1>11 DEF MediaInv, ChainsOK
<1>16. Owned'
  <2> SUFFICES ASSUME NEW u \in live'
               PROVE  u \in Range(local') \/ u = screen' \/ \E j \in Task : u \in tasks'[j].got
    BY DEF Owned
  <2>1. CASE u \in add
    BY <1>6, <1>9, <2>1
  <2>2. CASE u \notin add
    <3>1. u \in live /\ u \notin got
      BY <1>6, <1>7, <1>8, <2>2 DEF MediaInv, Owned
    <3>2. u \in Range(local) \/ u = screen \/ \E j \in Task : u \in tasks[j].got
      BY <3>1 DEF MediaInv, Owned
    <3>3. \A j \in Task : u \in tasks[j].got => j # k
      BY <1>2, <3>1
    <3>4. QED BY <1>6, <1>9, <1>11, <3>2, <3>3
  <2>3. QED BY <2>1, <2>2
<1>17. Apart'
  <2> SUFFICES ASSUME NEW j \in Task, NEW u \in tasks'[j].got
               PROVE  /\ u \notin Range(local') /\ u \notin Range(published')
                      /\ \A i \in Task : u # tasks'[i].new /\ (i # j => u \notin tasks'[i].got)
                      /\ \A p \in Peer : u # sent'[p].audio
    BY DEF Apart
  <2>1. j # k /\ u \in tasks[j].got
    BY <1>11, IdleIs
  <2>2. /\ u \notin Range(local) /\ u \notin Range(published)
        /\ \A i \in Task : u # tasks[i].new /\ (i # j => u \notin tasks[i].got)
        /\ \A p \in Peer : u # sent[p].audio
    BY <2>1 DEF MediaInv, Apart
  <2>3. u \notin got /\ u # None
    <3>1. u # t /\ u \notin tasks[k].got
      BY <1>1, <2>1, <2>2
    <3>2. u # None
      BY <2>1, KindIs DEF MediaInv, TasksOK, TaskOK
    <3>3. QED BY <1>2, <3>1, <3>2
  <2>4. u \notin Range(local')
    BY <1>6, <1>8, <1>9, <2>2, <2>3
  <2>5. ASSUME NEW i \in Task PROVE u # tasks'[i].new /\ (i # j => u \notin tasks'[i].got)
    BY <1>11, <2>2, <2>3, IdleIs
  <2>6. QED BY <1>6, <2>2, <2>4, <2>5
<1>18. Sharing'
  <2>1. \A j \in Task : Asking(j)' => Asking(j)
    BY <1>11, IdleIs DEF Asking
  <2>2. QED BY <1>6, <2>1 DEF MediaInv, Sharing
<1>19. Unlit'
  <2> SUFFICES ASSUME Controls \cap {"select", "screen"} = {}
               PROVE  /\ screen' = None
                      /\ view' = "lobby" => Range(local') = {}
                      /\ \A j \in Task : tasks'[j].what \notin {"share", "unshare", "setCamera", "setMicrophone"}
    BY DEF Unlit
  <2>1. view = "lobby" => add = {}
    BY <1>7, <1>8
  <2>2. QED BY <1>6, <1>9, <1>11, <2>1, IdleIs DEF MediaInv, Unlit
<1>20. MutedLocal'
  <2> SUFFICES ASSUME muted' = TRUE, ~Unmuting' PROVE Range(local') \cap Mic \subseteq disabled'
    BY DEF MutedLocal
  <2>1. CASE view = "preview"
    <3>1. OfKind(s, "audio") = {}
      BY <1>6, <2>1 DEF ShowMuted
    <3>2. Range(s) \cap Mic = {}
      BY <3>1, KindIs DEF OfKind
    <3>3. QED BY <1>6, <3>2
  <2>2. CASE view # "preview"
    <3>1. ~Unmuting
      BY <1>1, <1>6, <1>11 DEF Unmuting
    <3>2. add = {}
      BY <1>7, <1>8, <2>2
    <3>3. QED BY <1>6, <1>9, <2>2, <3>1, <3>2 DEF MediaInv, MutedLocal
  <2>3. QED BY <2>1, <2>2
<1>21. QED BY <1>11, <1>12, <1>13, <1>14, <1>15, <1>16, <1>17, <1>18, <1>19, <1>20 DEF MediaInv

\* A device is acquired to unmute.
LEMMA DeviceAcquiredKeeps ==
    ASSUME MediaInv, NEW k \in Task, NEW kind \in {"audio", "video"}, NEW t \in Track,
           Answered(k, kind, t), tasks[k].what \in {"mute", "video"}, DeviceAcquired(k, t)
    PROVE  MediaInv'
<1>1. /\ granted \subseteq granted' /\ granted' \subseteq Track /\ t \in granted' /\ t # None
      /\ t \in (IF kind = "audio" THEN Mic ELSE Cam)
      /\ t \notin Range(local) /\ \A j \in Task : t \notin tasks[j].got
      /\ ~Awaits(k, chain) /\ TaskOK(tasks[k], view, granted)
  BY AnsweredIs, MediaAssumption
<1>2. PICK what, s, captured, shared, g :
          /\ what = tasks[k].what /\ s = Append(local, t) /\ captured = live \cup {t}
          /\ shared = screen /\ g = granted'
  OBVIOUS
<1>3. /\ tasks[k].current = TRUE /\ local' = s /\ granted' = g
      /\ view' = view /\ session' = session /\ peers' = peers /\ provide' = provide
  BY <1>1, <1>2 DEF DeviceAcquired, TaskOK, TaskRec
<1>4. s \in Seq(Mic \cup Cam) /\ IsInjective(s) /\ Range(s) = Range(local) \cup {t}
  <2>1. PICK base : base = local
    OBVIOUS
  <2>2. base \in Seq(Mic \cup Cam) /\ IsInjective(base) /\ t \notin Range(base) /\ t \in Mic \cup Cam
    BY <1>1, <2>1 DEF MediaInv, StreamsOK
  <2>3. /\ Append(base, t) \in Seq(Mic \cup Cam) /\ IsInjective(Append(base, t))
        /\ Range(Append(base, t)) = Range(base) \cup {t}
    BY <2>2, Appended
  <2>4. s = Append(base, t)
    BY <1>2, <2>1
  <2>5. QED BY <2>1, <2>3, <2>4
<1>5. Ready(k, what, None, t, s, captured, shared, g)
  <2>1. /\ tasks[k].got = {} /\ tasks[k].asks \subseteq {IF what = "mute" THEN "audio" ELSE "video"}
        /\ view # "lobby"
    BY <1>1, <1>2, <1>3 DEF TaskOK
  <2>2. what = "video" => t \notin Mic
    BY <1>1, <2>1, KindIs DEF Answered
  <2>3. Range(s) \subseteq g /\ captured \subseteq g /\ shared \in Screen \cup {None} /\ shared \in g \cup {None}
    BY <1>1, <1>2, <1>4 DEF MediaInv, StreamsOK
  <2>4. \A u \in captured : u \in Range(s) \/ u = shared \/ \E j \in Task : u \in tasks[j].got
    BY <1>2, <1>4 DEF MediaInv, Owned
  <2>5. \A j \in Task : \A u \in tasks[j].got : u # t /\ u \notin Range(s)
    BY <1>1, <1>4 DEF MediaInv, Apart
  <2>6. \A j \in Task : j # k /\ Asking(j) => shared = None /\ \A i \in Task : Asking(i) => i = j
    BY <1>2 DEF MediaInv, Sharing
  <2>7. what # "mute" => Range(s) \cap Mic \subseteq Range(local)
    BY <1>2, <1>4, <2>2
  <2>8. Controls \cap {"select", "screen"} = {} =>
           /\ shared = None /\ what \notin {"share", "unshare"}
           /\ view = "lobby" => Range(s) = {}
    BY <1>2, <2>1 DEF MediaInv, Unlit
  <2>9. QED BY <1>1, <1>2, <1>4, <2>1, <2>3, <2>4, <2>5, <2>6, <2>7, <2>8 DEF Ready
<1>6. CASE session /\ (what = "mute" \/ screen = None)
  <2>1. ReplaceTrack(k, what, None, t, s, captured, shared)
    BY <1>2, <1>6 DEF DeviceAcquired, ReplaceTrack, Complete
  <2>2. tasks[k].asks # {}
    BY DEF Answered
  <2>3. QED BY <1>3, <1>5, <2>1, <2>2, ReplaceTrackKeeps
<1>7. CASE ~(session /\ (what = "mute" \/ screen = None))
  <2>1. /\ Complete(k, what, t, s, captured, shared)
        /\ published' = published /\ chain' = chain /\ sent' = sent
    BY <1>2, <1>7 DEF DeviceAcquired, Complete
  <2>2. /\ published' \in Seq(Track) /\ IsInjective(published')
        /\ Range(published') \subseteq Range(published) \cup ({t} \ {None})
    BY <2>1 DEF MediaInv, StreamsOK
  <2>3. /\ chain' \in [Peer -> Seq(Task \cup {Answering})] /\ ~Awaits(k, chain')
        /\ \A j \in Task : j # k => (Awaits(j, chain') <=> Awaits(j, chain))
    BY <1>1, <2>1 DEF MediaInv, ChainsOK
  <2>4. QED BY <1>3, <1>5, <2>1, <2>2, <2>3, CompleteKeeps
<1>8. QED BY <1>6, <1>7

\* Another device was selected.
LEMMA DeviceSelectedKeeps ==
    ASSUME MediaInv, NEW k \in Task, NEW kind \in {"audio", "video"}, NEW t \in Track,
           Answered(k, kind, t), tasks[k].what \in {"setCamera", "setMicrophone"},
           DeviceSelected(k, t)
    PROVE  MediaInv'
<1>1. /\ granted \subseteq granted' /\ granted' \subseteq Track /\ t \in granted' /\ t # None
      /\ t \in (IF kind = "audio" THEN Mic ELSE Cam)
      /\ t \notin Range(local) /\ \A j \in Task : t \notin tasks[j].got
      /\ ~Awaits(k, chain) /\ TaskOK(tasks[k], view, granted)
  BY AnsweredIs, MediaAssumption
<1>2. tasks[k].got = {}
  BY <1>1 DEF TaskOK
<1>3. PICK base : base = local
  OBVIOUS
<1>4. PICK old : old = First(base, Kind(t))
  OBVIOUS
<1>5. PICK s : s = Append(Without(base, old), t)
  OBVIOUS
<1>6. /\ local' = s /\ live' = (live \ {old}) \cup {t}
      /\ disabled' = IF (IF t \in Mic THEN ~muted ELSE camera) THEN disabled \ OfKind(s, Kind(t))
                                                          ELSE disabled \cup OfKind(s, Kind(t))
      /\ tasks' = [tasks EXCEPT ![k] = Idle]
      /\ view' = view /\ muted' = muted /\ camera' = camera
      /\ screen' = screen /\ watched' = watched
      /\ session' = session /\ published' = published
      /\ peers' = peers /\ provide' = provide /\ chain' = chain /\ sent' = sent
  BY <1>3, <1>4, <1>5 DEF DeviceSelected, Enable, shown, rtc
<1>7. base \in Seq(Mic \cup Cam) /\ IsInjective(base) /\ t \notin Range(base) /\ t \in Mic \cup Cam
  BY <1>1, <1>3 DEF MediaInv, StreamsOK
<1>8. old = None \/ (old \in Range(base) /\ Kind(old) = Kind(t))
  BY <1>4, <1>7, FirstIs, KindIs DEF OfKind
<1>9. s \in Seq(Mic \cup Cam) /\ IsInjective(s) /\ Range(s) = (Range(local) \ {old}) \cup {t}
  <2>1. PICK u \in Seq(Mic \cup Cam) : /\ u = Without(base, old) /\ IsInjective(u)
                                       /\ Range(u) = Range(base) \ {old}
    BY <1>7, WithoutIs
  <2>2. t \notin Range(u)
    BY <1>7, <2>1
  <2>3. /\ Append(u, t) \in Seq(Mic \cup Cam) /\ IsInjective(Append(u, t))
        /\ Range(Append(u, t)) = Range(u) \cup {t}
    BY <1>7, <2>1, <2>2, Appended
  <2>4. s = Append(u, t)
    BY <1>5, <2>1
  <2>5. QED BY <1>3, <2>1, <2>3, <2>4
<1>10. TaskOK(Idle, view, granted')
  BY IdleIs
<1>11. TasksOK' /\ tasks'[k] = Idle /\ \A j \in Task : j # k => tasks'[j] = tasks[j]
  BY <1>1, <1>6, <1>10, OneTask DEF MediaInv
<1>12. ShownOK' /\ SendersOK'
  BY <1>1, <1>6 DEF MediaInv, ShownOK, SendersOK
<1>13. StreamsOK'
  <2>1. Range(s) \subseteq granted' /\ live' \subseteq granted'
    BY <1>1, <1>6, <1>9 DEF MediaInv, StreamsOK
  <2>2. disabled' \subseteq granted'
    BY <1>1, <1>6, <2>1 DEF MediaInv, StreamsOK, OfKind
  <2>3. QED BY <1>1, <1>6, <1>9, <2>1, <2>2 DEF MediaInv, StreamsOK
<1>14. ChainsOK'
  BY <1>1, <1>6, <1>11 DEF MediaInv, ChainsOK
<1>15. \A j \in Task : tasks'[j].got = tasks[j].got /\ tasks'[j].new \in {tasks[j].new, None}
  BY <1>2, <1>11, IdleIs
<1>16. Owned'
  <2> SUFFICES ASSUME NEW u \in live'
               PROVE  u \in Range(local') \/ u = screen' \/ \E j \in Task : u \in tasks'[j].got
    BY DEF Owned
  <2>1. CASE u = t
    BY <1>6, <1>9, <2>1
  <2>2. CASE u # t
    <3>1. u \in live /\ u # old
      BY <1>6, <2>2
    <3>2. u \in Range(local) \/ u = screen \/ \E j \in Task : u \in tasks[j].got
      BY <3>1 DEF MediaInv, Owned
    <3>3. QED BY <1>6, <1>9, <1>15, <3>1, <3>2
  <2>3. QED BY <2>1, <2>2
<1>17. Apart'
  <2> SUFFICES ASSUME NEW j \in Task, NEW u \in tasks'[j].got
               PROVE  /\ u \notin Range(local') /\ u \notin Range(published')
                      /\ \A i \in Task : u # tasks'[i].new /\ (i # j => u \notin tasks'[i].got)
                      /\ \A p \in Peer : u # sent'[p].audio
    BY DEF Apart
  <2>1. u \in tasks[j].got /\ u # t
    BY <1>1, <1>15
  <2>2. /\ u \notin Range(local) /\ u \notin Range(published)
        /\ \A i \in Task : u # tasks[i].new /\ (i # j => u \notin tasks[i].got)
        /\ \A p \in Peer : u # sent[p].audio
    BY <2>1 DEF MediaInv, Apart
  <2>3. u # None
    BY <2>1, KindIs DEF MediaInv, TasksOK, TaskOK
  <2>4. QED BY <1>6, <1>9, <1>15, <2>1, <2>2, <2>3
<1>18. Sharing'
  <2>1. \A j \in Task : Asking(j)' => Asking(j)
    BY <1>11, IdleIs DEF Asking
  <2>2. QED BY <1>6, <2>1 DEF MediaInv, Sharing
<1>19. Unlit'
  BY DEF MediaInv, Unlit
<1>20. MutedLocal'
  <2> SUFFICES ASSUME muted' = TRUE, ~Unmuting' PROVE Range(s) \cap Mic \subseteq disabled'
    BY <1>6 DEF MutedLocal
  <2>1. ~Unmuting
    BY <1>1, <1>6, <1>11 DEF Unmuting
  <2>2. Range(local) \cap Mic \subseteq disabled
    BY <1>6, <2>1 DEF MediaInv, MutedLocal
  <2>3. CASE t \in Mic
    <3>1. disabled' = disabled \cup OfKind(s, "audio")
      BY <1>6, <2>3, KindIs
    <3>2. QED BY <3>1, KindIs DEF OfKind
  <2>4. CASE t \notin Mic
    <3>1. disabled \cap Mic \subseteq disabled'
      BY <1>6, <2>4, KindIs DEF OfKind
    <3>2. QED BY <1>9, <2>2, <2>4, <3>1
  <2>5. QED BY <2>3, <2>4
<1>21. QED BY <1>11, <1>12, <1>13, <1>14, <1>16, <1>17, <1>18, <1>19, <1>20 DEF MediaInv

\* A screen was granted.
LEMMA ScreenGrantedKeeps ==
    ASSUME MediaInv, NEW k \in Task, NEW kind \in {"audio", "video"}, NEW t \in Track,
           Answered(k, kind, t), tasks[k].what = "share", ScreenGranted(k, t)
    PROVE  MediaInv'
<1>1. /\ granted \subseteq granted' /\ granted' \subseteq Track /\ t \in granted' /\ t # None
      /\ t \in Screen /\ t \notin Range(local) /\ \A j \in Task : t \notin tasks[j].got
      /\ ~Awaits(k, chain) /\ TaskOK(tasks[k], view, granted)
  BY AnsweredIs, MediaAssumption
<1>2. tasks[k].asks # {} /\ tasks[k].got = {} /\ Asking(k)
  BY <1>1 DEF Answered, TaskOK, Asking
<1>3. screen = None /\ \A j \in Task : Asking(j) => j = k
  BY <1>2 DEF MediaInv, Sharing
<1>4. PICK base : base = local
  OBVIOUS
<1>5. PICK old, captured, g : old = First(base, "video") /\ captured = live \cup {t} /\ g = granted'
  OBVIOUS
<1>6. old = None \/ old \in Range(local)
  <2>1. base \in Seq(Mic \cup Cam) /\ None \notin Mic \cup Cam
    BY <1>4, KindIs DEF MediaInv, StreamsOK
  <2>2. QED BY <1>4, <1>5, <2>1, FirstIs DEF OfKind
<1>7. /\ view' = view /\ local' = base /\ session' = session /\ peers' = peers /\ provide' = provide
  BY <1>4 DEF ScreenGranted
<1>8. ~(Controls \cap {"select", "screen"} = {})
  BY DEF MediaInv, Unlit
<1>9. Ready(k, "share", old, t, base, captured, t, g)
  <2>1. old \in g \cup {None} /\ base \in Seq(Mic \cup Cam) /\ IsInjective(base) /\ Range(base) \subseteq g
    BY <1>1, <1>4, <1>5, <1>6 DEF MediaInv, StreamsOK
  <2>2. captured \subseteq g
    BY <1>1, <1>5 DEF MediaInv, StreamsOK
  <2>3. \A u \in captured : u \in Range(base) \/ u = t \/ \E j \in Task : u \in tasks[j].got
    <3>1. None \notin live
      BY MediaAssumption DEF MediaInv, StreamsOK
    <3>2. QED BY <1>3, <1>4, <1>5, <3>1 DEF MediaInv, Owned
  <2>4. \A j \in Task : \A u \in tasks[j].got : u # t /\ u \notin Range(base)
    BY <1>1, <1>4 DEF MediaInv, Apart
  <2>5. QED BY <1>1, <1>2, <1>3, <1>4, <1>5, <1>8, <2>1, <2>2, <2>3, <2>4 DEF Ready
<1>10. CASE session
  <2>1. ReplaceTrack(k, "share", old, t, base, captured, t)
    BY <1>4, <1>5, <1>10, Zenon DEF ScreenGranted, ReplaceTrack, Complete, ShowMuted, ShowCamera
  <2>2. granted' = g
    BY <1>5
  <2>3. QED BY <1>2, <1>7, <1>9, <2>1, <2>2, ReplaceTrackKeeps
<1>11. CASE ~session
  <2>1. /\ live' = captured /\ screen' = t /\ tasks' = [tasks EXCEPT ![k] = Idle]
        /\ muted' = muted /\ camera' = camera /\ disabled' = disabled /\ watched' = watched
        /\ published' = published /\ chain' = chain /\ sent' = sent
    BY <1>5, <1>11 DEF ScreenGranted
  <2>2. TaskOK(Idle, view, granted')
    BY IdleIs
  <2>3. TasksOK' /\ tasks'[k] = Idle /\ \A j \in Task : j # k => tasks'[j] = tasks[j]
    BY <1>1, <1>7, <2>1, <2>2, OneTask DEF MediaInv
  <2>4. ShownOK' /\ StreamsOK' /\ SendersOK'
    BY <1>1, <1>4, <1>5, <1>7, <1>9, <2>1 DEF MediaInv, ShownOK, StreamsOK, SendersOK, Ready
  <2>5. ChainsOK'
    BY <1>1, <2>1, <2>3 DEF MediaInv, ChainsOK
  <2>6. \A j \in Task : tasks'[j].got = tasks[j].got /\ tasks'[j].new \in {tasks[j].new, None}
    BY <1>2, <2>3, IdleIs
  <2>7. Owned'
    BY <1>4, <1>7, <1>9, <2>1, <2>6 DEF Owned, Ready
  <2>8. Apart'
    <3>1. \A j \in Task : \A u \in tasks[j].got : u # None
      BY KindIs DEF MediaInv, TasksOK, TaskOK
    <3>2. QED BY <1>4, <1>7, <2>1, <2>6, <3>1 DEF MediaInv, Apart
  <2>9. Sharing'
    <3>1. \A j \in Task : Asking(j)' => Asking(j) /\ j # k
      BY <2>3, IdleIs DEF Asking
    <3>2. QED BY <1>3, <3>1 DEF Sharing
  <2>10. MutedLocal'
    BY <1>1, <1>4, <1>7, <2>1, <2>3 DEF MediaInv, MutedLocal, Unmuting
  <2>11. Unlit'
    BY <1>8 DEF Unlit
  <2>12. QED BY <2>3, <2>4, <2>5, <2>7, <2>8, <2>9, <2>10, <2>11 DEF MediaInv
<1>12. QED BY <1>10, <1>11

\* Any answer of the browser.
LEMMA AnswerKeeps ==
    ASSUME MediaInv, NEW k \in Task, NEW kind \in {"audio", "video"}, NEW t \in Track \cup {None},
           Answer(k, kind, t)
    PROVE  MediaInv'
<1>1. Answered(k, kind, t)
  BY DEF Answer, Answered
<1>2. CASE tasks[k].what = "preview"
  BY <1>1, <1>2, PreviewAnsweredKeeps, PreviewFirstAnswerKeeps, Zenon DEF Answer
<1>3. CASE tasks[k].what # "preview" /\ (Refused(k) \/ DeviceTooLate(k))
  BY <1>1, <1>3, DroppedKeeps
<1>4. CASE tasks[k].what \in {"mute", "video"} /\ t # None /\ DeviceAcquired(k, t)
  BY <1>1, <1>4, DeviceAcquiredKeeps
<1>5. CASE tasks[k].what \in {"setCamera", "setMicrophone"} /\ t # None /\ DeviceSelected(k, t)
  BY <1>1, <1>5, DeviceSelectedKeeps
<1>6. CASE tasks[k].what = "share" /\ t # None /\ ScreenGranted(k, t)
  BY <1>1, <1>6, ScreenGrantedKeeps
<1>7. \/ tasks[k].what = "preview"
      \/ tasks[k].what # "preview" /\ (Refused(k) \/ DeviceTooLate(k))
      \/ tasks[k].what \in {"mute", "video"} /\ t # None /\ DeviceAcquired(k, t)
      \/ tasks[k].what \in {"setCamera", "setMicrophone"} /\ t # None /\ DeviceSelected(k, t)
      \/ tasks[k].what = "share" /\ t # None /\ ScreenGranted(k, t)
  BY Zenon DEF Answer
<1>8. QED BY <1>2, <1>3, <1>4, <1>5, <1>6, <1>7

-----------------------------------------------------------------------------
(* The user *)

\* A coroutine begins, and the pending captures may be cancelled.
LEMMA BeginKeeps ==
    ASSUME MediaInv, NEW k \in Task, NEW what \in {"mute", "video", "setCamera", "setMicrophone", "share"},
           NEW asks \in SUBSET {"audio", "video"}, asks # {}, Begin(k, what, asks),
           what \in {"mute", "setMicrophone"} => asks = {"audio"},
           what \notin {"mute", "setMicrophone"} => asks = {"video"},
           view # "lobby", what = "share" => screen = None /\ \A j \in Task : ~Asking(j),
           what = "share" => "screen" \in Controls,
           what \in {"setCamera", "setMicrophone"} => "select" \in Controls,
           UNCHANGED <<shown, devices, rtc>>
    PROVE  MediaInv'
<1> DEFINE r == [Idle EXCEPT !.what = what, !.asks = asks, !.current = TRUE]
<1>1. /\ tasks[k] = Idle /\ tasks' = [tasks EXCEPT ![k] = r]
      /\ view' = view /\ muted' = muted /\ camera' = camera
      /\ granted' = granted /\ live' = live /\ disabled' = disabled /\ local' = local
      /\ screen' = screen /\ watched' = watched
      /\ session' = session /\ published' = published
      /\ peers' = peers /\ provide' = provide /\ chain' = chain /\ sent' = sent
  BY DEF Begin, shown, devices, rtc
<1>2. /\ r \in TaskRec /\ r.what = what /\ r.asks = asks /\ r.current = TRUE /\ r.got = {}
      /\ r.old = None /\ r.new = None
  BY DEF Idle, TaskRec
<1> HIDE DEF r
<1>3. TaskOK(r, view, granted')
  BY <1>2 DEF TaskOK
<1>4. TasksOK' /\ tasks'[k] = r /\ \A j \in Task : j # k => tasks'[j] = tasks[j]
  BY <1>1, <1>3, OneTask DEF MediaInv
<1>5. ~Awaits(k, chain)
  BY <1>1, IdleIs DEF MediaInv, ChainsOK
<1>6. ShownOK' /\ StreamsOK' /\ SendersOK'
  BY <1>1 DEF MediaInv, ShownOK, StreamsOK, SendersOK
<1>7. ChainsOK'
  BY <1>1, <1>4, <1>5 DEF MediaInv, ChainsOK
<1>8. \A j \in Task : tasks'[j].got = tasks[j].got /\ tasks'[j].new = tasks[j].new
  BY <1>1, <1>2, <1>4, IdleIs
<1>9. Owned' /\ Apart'
  BY <1>1, <1>8 DEF MediaInv, Owned, Apart
<1>10. Sharing'
  BY <1>1, <1>2, <1>4 DEF MediaInv, Sharing, Asking
<1>11. MutedLocal'
  BY <1>1, <1>4, <1>5 DEF MediaInv, MutedLocal, Unmuting
<1>12. Unlit'
  BY <1>1, <1>2, <1>4 DEF MediaInv, Unlit
<1>13. QED BY <1>4, <1>6, <1>7, <1>9, <1>10, <1>11, <1>12 DEF MediaInv

\* A device is asked for.
LEMMA SelectAcquireKeeps ==
    ASSUME MediaInv, NEW k \in Task, NEW kind \in {"audio", "video"},
           SelectDevice(k, kind) \/ AcquireDevice(k, kind)
    PROVE  MediaInv'
<1>1. CASE SelectDevice(k, kind)
  <2>1. PICK what : what = IF kind = "audio" THEN "setMicrophone" ELSE "setCamera"
    OBVIOUS
  <2>2. Begin(k, what, {kind})
    BY <1>1, <2>1 DEF SelectDevice, Begin
  <2>3. "select" \in Controls /\ view # "lobby" /\ UNCHANGED <<shown, devices, rtc>>
    BY <1>1 DEF SelectDevice
  <2>4. what \in {"setCamera", "setMicrophone"} /\ (what = "setMicrophone" <=> kind = "audio")
    BY <2>1
  <2>5. QED BY <2>2, <2>3, <2>4, BeginKeeps
<1>2. CASE AcquireDevice(k, kind)
  <2>1. PICK what : what = IF kind = "audio" THEN "mute" ELSE "video"
    OBVIOUS
  <2>2. Begin(k, what, {kind})
    BY <1>2, <2>1 DEF AcquireDevice, Begin
  <2>3. view # "lobby" /\ UNCHANGED <<shown, devices, rtc>>
    BY <1>2 DEF AcquireDevice
  <2>4. what \in {"mute", "video"} /\ (what = "mute" <=> kind = "audio")
    BY <2>1
  <2>5. QED BY <2>2, <2>3, <2>4, BeginKeeps
<1>3. QED BY <1>1, <1>2

\* A screen is asked for.
LEMMA ShareScreenKeeps ==
    ASSUME MediaInv, NEW k \in Task, ShareScreen(k)
    PROVE  MediaInv'
<1>1. /\ Begin(k, "share", {"video"}) /\ view # "lobby" /\ screen = None /\ "screen" \in Controls
      /\ \A j \in Task : ~Asking(j)
      /\ UNCHANGED <<shown, devices, rtc>>
  BY DEF ShareScreen, Asking
<1>2. QED BY <1>1, BeginKeeps

\* Pending captures are cancelled, and localStream is stopped or left alone.
LEMMA CancelKeeps ==
    ASSUME MediaInv, tasks' = Cancelled, view' \in {"lobby", "preview", "room"},
           muted' \in BOOLEAN, camera' \in BOOLEAN,
           \/ StopLocal /\ (muted' = muted \/ muted' = TRUE)
           \/ /\ UNCHANGED <<live, local>> /\ view' # "lobby"
              /\ muted' = TRUE => OfKind(local, "audio") \subseteq disabled,
           UNCHANGED <<granted, disabled, screen, watched, rtc>>
    PROVE  MediaInv'
<1>1. /\ granted' = granted /\ disabled' = disabled
      /\ screen' = screen /\ watched' = watched
      /\ session' = session /\ published' = published
      /\ peers' = peers /\ provide' = provide /\ chain' = chain /\ sent' = sent
  BY DEF rtc
<1>2. /\ TasksOK'
      /\ \A j \in Task : /\ tasks'[j].what = tasks[j].what /\ tasks'[j].asks = tasks[j].asks
                         /\ tasks'[j].got = tasks[j].got /\ tasks'[j].new = tasks[j].new
  BY <1>1, AllCancelled DEF MediaInv
<1>3. \/ local' = <<>> /\ Range(local') = {} /\ live' = live \ Range(local)
      \/ /\ local' = local /\ live' = live /\ view' # "lobby"
         /\ muted' = TRUE => Range(local) \cap Mic \subseteq disabled
  <2>1. Range(<<>>) = {}
    BY DEF Range
  <2>2. QED BY <2>1, KindIs DEF StopLocal, OfKind
<1>4. /\ local' \in Seq(Mic \cup Cam) /\ IsInjective(local') /\ Range(local') \subseteq Range(local)
      /\ live' \subseteq live
  <2>1. IsInjective(<<>>) /\ <<>> \in Seq(Mic \cup Cam)
    BY DEF IsInjective
  <2>2. QED BY <1>3, <2>1 DEF MediaInv, StreamsOK
<1>5. ShownOK' /\ StreamsOK' /\ SendersOK'
  BY <1>1, <1>4 DEF MediaInv, ShownOK, StreamsOK, SendersOK
<1>6. ChainsOK' /\ Sharing'
  BY <1>1, <1>2 DEF MediaInv, ChainsOK, Sharing, Asking
<1>7. Owned'
  BY <1>1, <1>2, <1>3 DEF MediaInv, Owned
<1>8. Apart'
  BY <1>1, <1>2, <1>4 DEF MediaInv, Apart
<1>9. MutedLocal'
  BY <1>1, <1>3 DEF MutedLocal
<1>10. Unlit'
  BY <1>1, <1>2, <1>3 DEF MediaInv, Unlit
<1>11. QED BY <1>2, <1>5, <1>6, <1>7, <1>8, <1>9, <1>10 DEF MediaInv

\* The views change.
LEMMA ViewsKeep ==
    ASSUME MediaInv, ShowPreviewAsViewer \/ BackToLobby \/ OnJoinRoom \/ JoinWithoutDevices
    PROVE  MediaInv'
<1>1. muted \in BOOLEAN /\ camera \in BOOLEAN
  BY DEF MediaInv, ShownOK
<1>2. CASE ShowPreviewAsViewer \/ JoinWithoutDevices
  BY <1>1, <1>2, CancelKeeps DEF ShowPreviewAsViewer, JoinWithoutDevices, ShowView, ShowMuted, ShowCamera
<1>3. CASE BackToLobby
  BY <1>1, <1>3, CancelKeeps DEF BackToLobby, ShowView
<1>4. CASE OnJoinRoom
  <2>1. /\ tasks' = Cancelled /\ view' = "room" /\ muted' \in BOOLEAN /\ camera' \in BOOLEAN
        /\ muted' = TRUE => OfKind(local, "audio") \subseteq disabled
        /\ UNCHANGED <<live, local>> /\ UNCHANGED <<granted, disabled, screen, watched, rtc>>
    BY <1>4 DEF OnJoinRoom, ShowView, ShowMuted, ShowCamera, devices
  <2>2. QED BY <2>1, CancelKeeps
<1>5. QED BY <1>2, <1>3, <1>4

\* The preview is shown.
LEMMA ShowPreviewKeeps ==
    ASSUME MediaInv, NEW k \in Task, ShowPreview(k)
    PROVE  MediaInv'
<1> DEFINE r == [Idle EXCEPT !.what = "preview", !.asks = {"audio", "video"}, !.current = TRUE]
<1>1. /\ view = "lobby" /\ view' = "preview" /\ tasks[k] = Idle
      /\ tasks' = [Cancelled EXCEPT ![k] = r]
      /\ muted' = muted /\ camera' = camera
      /\ granted' = granted /\ live' = live /\ disabled' = disabled /\ local' = local
      /\ screen' = screen /\ watched' = watched
      /\ session' = session /\ published' = published
      /\ peers' = peers /\ provide' = provide /\ chain' = chain /\ sent' = sent
  BY DEF ShowPreview, ShowView, devices, rtc
<1>2. /\ r \in TaskRec /\ r.what = "preview" /\ r.asks = {"audio", "video"} /\ r.current = TRUE
      /\ r.got = {} /\ r.old = None /\ r.new = None
  BY DEF Idle, TaskRec
<1> HIDE DEF r
<1>3. ASSUME NEW j \in Task, j # k
      PROVE  /\ tasks'[j] \in TaskRec /\ tasks'[j].current = FALSE /\ (tasks[j] = Idle => tasks'[j] = Idle)
             /\ tasks'[j].what = tasks[j].what /\ tasks'[j].asks = tasks[j].asks
             /\ tasks'[j].got = tasks[j].got /\ tasks'[j].new = tasks[j].new
             /\ tasks'[j].old = tasks[j].old
  <2>1. tasks'[j] = [tasks[j] EXCEPT !.current = FALSE]
    BY <1>1, <1>3 DEF Cancelled
  <2>2. tasks[j] \in TaskRec
    BY DEF MediaInv, TasksOK
  <2>3. ASSUME tasks[j] = Idle PROVE tasks'[j] = Idle
    <3>1. tasks'[j] = [Idle EXCEPT !.current = FALSE]
      BY <2>1, <2>3, Zenon
    <3>2. QED BY <3>1 DEF Idle
  <2>4. QED BY <2>1, <2>2, <2>3 DEF TaskRec
<1>4. tasks'[k] = r
  BY <1>1 DEF Cancelled
<1>5. TasksOK'
  <2>1. tasks' \in [Task -> TaskRec]
    BY <1>1, <1>2, <1>3, <1>4 DEF Cancelled
  <2>2. TaskOK(r, view', granted)
    BY <1>1, <1>2 DEF TaskOK
  <2>3. ASSUME NEW j \in Task, j # k PROVE TaskOK(tasks'[j], view', granted)
    <3>1. TaskOK(tasks[j], view, granted)
      BY DEF MediaInv, TasksOK
    <3>2. QED BY <1>3, <2>3, <3>1 DEF TaskOK
  <2>4. \A j \in Task : TaskOK(tasks'[j], view', granted')
    BY <1>1, <1>4, <2>2, <2>3
  <2>5. QED BY <2>1, <2>4 DEF TasksOK
<1>6. \A j \in Task : tasks'[j].got = tasks[j].got /\ tasks'[j].new = tasks[j].new
  BY <1>1, <1>2, <1>3, <1>4, IdleIs
<1>7. ~Awaits(k, chain)
  BY <1>1, IdleIs DEF MediaInv, ChainsOK
<1>8. ShownOK' /\ StreamsOK' /\ SendersOK'
  BY <1>1 DEF MediaInv, ShownOK, StreamsOK, SendersOK
<1>9. ChainsOK'
  BY <1>1, <1>3, <1>7 DEF MediaInv, ChainsOK
<1>10. Owned' /\ Apart'
  BY <1>1, <1>6 DEF MediaInv, Owned, Apart
<1>11. Sharing'
  <2>1. \A j \in Task : Asking(j)' => Asking(j)
    BY <1>2, <1>3, <1>4 DEF Asking
  <2>2. QED BY <1>1, <2>1 DEF MediaInv, Sharing
<1>12. MutedLocal'
  BY <1>1, <1>3, <1>7 DEF MediaInv, MutedLocal, Unmuting
<1>13. Unlit'
  BY <1>1, <1>2, <1>3, <1>4 DEF MediaInv, Unlit
<1>14. QED BY <1>5, <1>8, <1>9, <1>10, <1>11, <1>12, <1>13 DEF MediaInv

\* A track is muted or unmuted.
LEMMA ToggleKeeps ==
    ASSUME MediaInv, ToggleMute \/ ToggleVideo
    PROVE  MediaInv'
<1>1. /\ view' = view /\ granted' = granted /\ live' = live /\ local' = local
      /\ screen' = screen /\ watched' = watched /\ tasks' = tasks
      /\ session' = session /\ published' = published
      /\ peers' = peers /\ provide' = provide /\ chain' = chain /\ sent' = sent
  BY DEF ToggleMute, ToggleVideo, rtc
<1>2. /\ disabled' \subseteq granted /\ muted' \in BOOLEAN /\ camera' \in BOOLEAN
      /\ muted' = TRUE /\ ~Unmuting => Range(local) \cap Mic \subseteq disabled'
  <2>1. CASE ToggleMute
    <3>1. /\ muted' = ~muted /\ camera' = camera
          /\ disabled' = IF muted THEN disabled \ OfKind(local, "audio")
                                  ELSE disabled \cup OfKind(local, "audio")
      BY <2>1 DEF ToggleMute, ShowMuted, Enable
    <3>2. muted \in BOOLEAN /\ camera \in BOOLEAN
      BY DEF MediaInv, ShownOK
    <3>3. disabled' \subseteq granted
      BY <3>1 DEF MediaInv, StreamsOK, OfKind
    <3>4. muted' = TRUE => Range(local) \cap Mic \subseteq disabled'
      BY <3>1, <3>2, KindIs DEF OfKind
    <3>5. QED BY <3>1, <3>2, <3>3, <3>4
  <2>2. CASE ToggleVideo
    <3>1. /\ muted' = muted /\ camera' = ~camera
          /\ disabled' = IF ~camera THEN disabled \ OfKind(local, "video")
                                    ELSE disabled \cup OfKind(local, "video")
      BY <2>2 DEF ToggleVideo, ShowCamera, Enable
    <3>2. muted \in BOOLEAN /\ camera \in BOOLEAN
      BY DEF MediaInv, ShownOK
    <3>3. disabled' \subseteq granted
      BY <3>1 DEF MediaInv, StreamsOK, OfKind
    <3>4. disabled \cap Mic \subseteq disabled'
      BY <3>1, KindIs DEF OfKind
    <3>5. muted' = TRUE /\ ~Unmuting => Range(local) \cap Mic \subseteq disabled'
      BY <3>1, <3>4 DEF MediaInv, MutedLocal
    <3>6. QED BY <3>1, <3>2, <3>3, <3>5
  <2>3. QED BY <2>1, <2>2
<1>3. ShownOK' /\ StreamsOK' /\ SendersOK' /\ TasksOK'
  BY <1>1, <1>2 DEF MediaInv, ShownOK, StreamsOK, SendersOK, TasksOK
<1>4. ChainsOK' /\ Owned' /\ Apart' /\ Sharing'
  BY <1>1 DEF MediaInv, ChainsOK, Owned, Apart, Sharing, Asking
<1>5. MutedLocal' /\ Unlit'
  BY <1>1, <1>2 DEF MediaInv, MutedLocal, Unlit, Unmuting
<1>6. QED BY <1>3, <1>4, <1>5 DEF MediaInv

\* The screen is not shared any more.
LEMMA StopScreenShareKeeps ==
    ASSUME MediaInv, NEW k \in Task, NEW captured \in SUBSET live, screen # None, granted' = granted,
           StopScreenShare(k, captured)
    PROVE  MediaInv'
<1>1. /\ tasks[k] = Idle /\ view' = view /\ granted' = granted /\ local' = local
      /\ session' = session /\ peers' = peers /\ provide' = provide
  BY DEF StopScreenShare
<1>2. PICK base, old, g : base = local /\ old = screen /\ g = granted
  OBVIOUS
<1>3. PICK new : new = First(base, "video")
  OBVIOUS
<1>4. new = None \/ new \in Range(local)
  <2>1. base \in Seq(Mic \cup Cam) /\ None \notin Mic \cup Cam
    BY <1>2, KindIs DEF MediaInv, StreamsOK
  <2>2. QED BY <1>2, <1>3, <2>1, FirstIs DEF OfKind
<1>5. ~(Controls \cap {"select", "screen"} = {})
  BY DEF MediaInv, Unlit
<1>6. CASE session
  <2>1. ReplaceTrack(k, "unshare", old, new, base, captured, old)
    BY <1>2, <1>3, <1>6, Zenon DEF StopScreenShare, ReplaceTrack, Complete, ShowMuted, ShowCamera
  <2>2. Ready(k, "unshare", old, new, base, captured, old, g)
    <3>1. \A t \in captured : t \in Range(base) \/ t = old \/ \E j \in Task : t \in tasks[j].got
      BY <1>2 DEF MediaInv, Owned
    <3>2. \A j \in Task : \A t \in tasks[j].got : t # new /\ t \notin Range(base)
      <4>1. \A j \in Task : \A t \in tasks[j].got : t # None
        BY KindIs DEF MediaInv, TasksOK, TaskOK
      <4>2. QED BY <1>2, <1>4, <4>1 DEF MediaInv, Apart
    <3>3. \A j \in Task : j # k /\ Asking(j) => old = None /\ \A i \in Task : Asking(i) => i = j
      BY <1>2 DEF MediaInv, Sharing
    <3>4. /\ old \in g \cup {None} /\ new \in g \cup {None} /\ captured \subseteq g /\ g \subseteq Track
          /\ old \in Screen \cup {None}
          /\ base \in Seq(Mic \cup Cam) /\ IsInjective(base) /\ Range(base) \subseteq g
      BY <1>2, <1>4 DEF MediaInv, StreamsOK
    <3>5. tasks[k].what = "idle" /\ tasks[k].got = {}
      BY <1>1, IdleIs
    <3>6. QED BY <1>2, <1>5, <3>1, <3>2, <3>3, <3>4, <3>5 DEF Ready
  <2>3. local' = base /\ granted' = g
    BY <1>1, <1>2
  <2>4. QED BY <1>1, <2>1, <2>2, <2>3, ReplaceTrackKeeps
<1>7. CASE ~session
  <2>1. /\ live' = captured /\ watched' = watched \ {screen}
        /\ muted' = muted /\ camera' = camera /\ disabled' = disabled /\ screen' = screen
        /\ tasks' = tasks /\ published' = published /\ chain' = chain /\ sent' = sent
    BY <1>7 DEF StopScreenShare
  <2>2. ShownOK' /\ StreamsOK' /\ SendersOK' /\ TasksOK'
    BY <1>1, <2>1 DEF MediaInv, ShownOK, StreamsOK, SendersOK, TasksOK
  <2>3. ChainsOK' /\ Owned' /\ Apart' /\ Sharing'
    BY <1>1, <2>1 DEF MediaInv, ChainsOK, Owned, Apart, Sharing, Asking
  <2>4. MutedLocal' /\ Unlit'
    BY <1>1, <2>1 DEF MediaInv, MutedLocal, Unlit, Unmuting
  <2>5. QED BY <2>2, <2>3, <2>4 DEF MediaInv
<1>8. QED BY <1>6, <1>7

\* The user or the browser stops the screen.
LEMMA ScreenStopsKeeps ==
    ASSUME MediaInv, NEW k \in Task, UnshareScreen(k) \/ \E t \in Screen : ScreenEnds(k, t)
    PROVE  MediaInv'
<1>1. CASE UnshareScreen(k)
  <2>1. PICK captured \in SUBSET live : captured = live
    OBVIOUS
  <2>2. screen # None /\ StopScreenShare(k, captured) /\ granted' = granted
    BY <1>1, <2>1, Zenon DEF UnshareScreen, StopScreenShare, ReplaceTrack, Complete, ShowMuted, ShowCamera
  <2>3. QED BY <2>2, StopScreenShareKeeps
<1>2. ASSUME NEW t \in Screen, ScreenEnds(k, t) PROVE MediaInv'
  <2>1. CASE t \in watched /\ screen # None
    <3>1. PICK captured \in SUBSET live : captured = live \ {t}
      OBVIOUS
    <3>2. screen # None /\ StopScreenShare(k, captured) /\ granted' = granted
      BY <1>2, <2>1, <3>1, Zenon DEF ScreenEnds, StopScreenShare, ReplaceTrack, Complete, ShowMuted, ShowCamera
    <3>3. QED BY <3>2, StopScreenShareKeeps
  <2>2. CASE t \notin watched \/ screen = None
    <3>1. /\ live' \subseteq live /\ view' = view /\ muted' = muted /\ camera' = camera
          /\ granted' = granted /\ disabled' = disabled /\ local' = local /\ screen' = screen
          /\ watched' = watched /\ tasks' = tasks
          /\ session' = session /\ published' = published
          /\ peers' = peers /\ provide' = provide /\ chain' = chain /\ sent' = sent
      BY <1>2, <2>2 DEF ScreenEnds, shown, rtc
    <3>2. ShownOK' /\ StreamsOK' /\ SendersOK' /\ TasksOK'
      BY <3>1 DEF MediaInv, ShownOK, StreamsOK, SendersOK, TasksOK
    <3>3. ChainsOK' /\ Owned' /\ Apart' /\ Sharing'
      BY <3>1 DEF MediaInv, ChainsOK, Owned, Apart, Sharing, Asking
    <3>4. MutedLocal' /\ Unlit'
      BY <3>1 DEF MediaInv, MutedLocal, Unlit, Unmuting
    <3>5. QED BY <3>2, <3>3, <3>4 DEF MediaInv
  <2>3. QED BY <2>1, <2>2
<1>3. QED BY <1>1, <1>2

-----------------------------------------------------------------------------
(* The room *)

\* Peers come and go.
LEMMA PeersKeep ==
    ASSUME MediaInv,
           \/ \E S \in SUBSET Peer : JoinAccepted(S)
           \/ \E p \in Peer : PeerOffers(p) \/ Provide(p) \/ PeerLeaves(p)
    PROVE  MediaInv'
<1>1. /\ view' = view /\ muted' = muted /\ camera' = camera
      /\ granted' = granted /\ live' = live /\ disabled' = disabled /\ local' = local
      /\ screen' = screen /\ watched' = watched /\ tasks' = tasks
  BY DEF JoinAccepted, PeerOffers, Provide, PeerLeaves, shown, devices
<1>2. PICK base, pub : base = local /\ pub = published
  OBVIOUS
<1>3. /\ base \in Seq(Mic \cup Cam) /\ pub \in Seq(Track) /\ None \notin Track
      /\ None \notin Mic \cup Cam
  BY <1>2, MediaAssumption DEF MediaInv, StreamsOK, Track
<1>4. /\ \A j \in Task : \A t \in tasks[j].got : t # None
      /\ granted \subseteq Track
  BY KindIs DEF MediaInv, TasksOK, TaskOK, StreamsOK
<1>5. /\ First(base, "audio") \in (Mic \cap Range(base)) \cup {None}
      /\ First(base, "video") \in Cam \cup {None}
      /\ First(pub, "audio") \in (Mic \cap Range(pub)) \cup {None}
      /\ First(pub, "video") \in Cam \cup Screen \cup {None}
  <2>1. ASSUME NEW kind
        PROVE  /\ First(base, kind) = None \/ First(base, kind) \in OfKind(base, kind)
               /\ First(pub, kind) = None \/ First(pub, kind) \in OfKind(pub, kind)
    BY <1>3, FirstIs
  <2>2. Range(base) \subseteq Mic \cup Cam /\ Range(pub) \subseteq Track
    BY <1>3, RangeIs
  <2>3. /\ OfKind(base, "audio") \subseteq Mic \cap Range(base)
        /\ OfKind(base, "video") \subseteq Cam
        /\ OfKind(pub, "audio") \subseteq Mic \cap Range(pub)
        /\ OfKind(pub, "video") \subseteq Cam \cup Screen
    BY <2>2, KindIs DEF OfKind, Track
  <2>4. QED BY <2>1, <2>3
<1>6. session' \in BOOLEAN
  BY DEF JoinAccepted, PeerOffers, Provide, PeerLeaves, MediaInv, ShownOK
<1>7. published' \in {local, published}
  BY DEF JoinAccepted, PeerOffers, Provide, PeerLeaves
<1>8. peers' \in [Peer -> {"out", "in", "gone"}]
  BY DEF JoinAccepted, PeerOffers, Provide, PeerLeaves, MediaInv, SendersOK
<1>9. provide' \in [Peer -> {<<>>, <<"video">>, <<"audio", "video">>}]
  <2>1. provide \in [Peer -> {<<>>, <<"video">>, <<"audio", "video">>}]
    BY DEF MediaInv, SendersOK
  <2>2. ASSUME NEW q \in Peer, Provide(q) PROVE provide' \in [Peer -> {<<>>, <<"video">>, <<"audio", "video">>}]
    <3>1. Tail(<<"video">>) = <<>> /\ Tail(<<"audio", "video">>) = <<"video">>
      OBVIOUS
    <3>2. provide[q] \in {<<"video">>, <<"audio", "video">>}
      BY <2>1, <2>2 DEF Provide
    <3>3. PICK rest : rest = Tail(provide[q])
      OBVIOUS
    <3>4. rest \in {<<>>, <<"video">>}
      BY <3>1, <3>2, <3>3
    <3>5. provide' = [provide EXCEPT ![q] = rest]
      BY <2>2, <3>3 DEF Provide
    <3>6. QED BY <2>1, <3>4, <3>5
  <2>3. ASSUME NEW q \in Peer, PeerOffers(q) \/ PeerLeaves(q)
        PROVE  provide' \in [Peer -> {<<>>, <<"video">>, <<"audio", "video">>}]
    BY <2>1, <2>3 DEF PeerOffers, PeerLeaves
  <2>4. CASE \E S \in SUBSET Peer : JoinAccepted(S)
    BY <2>1, <2>4 DEF JoinAccepted
  <2>5. QED BY <2>2, <2>3, <2>4
<1>10. /\ sent' \in [Peer -> [audio : Mic \cup {None}, video : Cam \cup Screen \cup {None}]]
       /\ \A p \in Peer : sent'[p].audio \in {sent[p].audio, None} \cup Range(local) \cup Range(published)
  <2>1. CASE \E S \in SUBSET Peer : JoinAccepted(S)
    <3>1. PICK S \in SUBSET Peer :
            sent' = [p \in Peer |-> IF p \notin S THEN sent[p]
                                    ELSE [audio |-> First(base, "audio"),
                                          video |-> First(base, "video")]]
      BY <1>2, <2>1 DEF JoinAccepted
    <3>2. QED BY <1>2, <1>5, <3>1 DEF MediaInv, SendersOK
  <2>2. CASE \E p \in Peer : PeerOffers(p)
    <3>1. sent' = sent
      BY <2>2 DEF PeerOffers
    <3>2. QED BY <3>1 DEF MediaInv, SendersOK
  <2>3. CASE \E p \in Peer : PeerLeaves(p)
    <3>1. PICK q \in Peer : sent' = [sent EXCEPT ![q] = NothingSent]
      BY <2>3 DEF PeerLeaves
    <3>2. QED BY <3>1 DEF MediaInv, SendersOK, NothingSent
  <2>4. CASE \E p \in Peer : Provide(p)
    <3>1. PICK q \in Peer : Provide(q)
      BY <2>4
    <3>2. PICK kind : kind = Head(provide[q])
      OBVIOUS
    <3>3. kind \in {"audio", "video"}
      BY <3>1, <3>2 DEF Provide, MediaInv, SendersOK
    <3>4. sent' = [sent EXCEPT ![q][kind] = First(pub, kind)]
      BY <1>2, <3>1, <3>2 DEF Provide
    <3>5. CASE kind = "audio"
      BY <1>2, <1>5, <3>4, <3>5 DEF MediaInv, SendersOK
    <3>6. CASE kind = "video"
      BY <1>2, <1>5, <3>4, <3>6 DEF MediaInv, SendersOK
    <3>7. QED BY <3>3, <3>5, <3>6
  <2>5. QED BY <2>1, <2>2, <2>3, <2>4
<1>11. /\ chain' \in [Peer -> Seq(Task \cup {Answering})]
       /\ \A j \in Task : Awaits(j, chain') <=> Awaits(j, chain)
  <2>1. CASE \E p \in Peer : Provide(p)
    <3>1. PICK q \in Peer : chain' = [chain EXCEPT ![q] = Append(@, Answering)]
      BY <2>1 DEF Provide
    <3>2. PICK c \in Seq(Task \cup {Answering}) : c = chain[q]
      BY DEF MediaInv, ChainsOK
    <3>3. Append(c, Answering) \in Seq(Task \cup {Answering}) /\ Range(Append(c, Answering)) = Range(c) \cup {Answering}
      BY Appended
    <3>4. /\ chain' \in [Peer -> Seq(Task \cup {Answering})]
          /\ Range(chain'[q]) = Range(chain[q]) \cup {Answering}
          /\ \A p \in Peer : p # q => chain'[p] = chain[p]
      BY <3>1, <3>2, <3>3 DEF MediaInv, ChainsOK
    <3>5. QED BY <3>4, MediaAssumption DEF Awaits
  <2>2. CASE ~ \E p \in Peer : Provide(p)
    <3>1. chain' = chain
      BY <2>2 DEF JoinAccepted, PeerOffers, PeerLeaves
    <3>2. QED BY <3>1 DEF MediaInv, ChainsOK
  <2>3. QED BY <2>1, <2>2
<1>12. ShownOK' /\ StreamsOK' /\ TasksOK'
  <2>1. local \in Seq(Track)
    BY DEF MediaInv, StreamsOK, Track
  <2>2. QED BY <1>1, <1>6, <1>7, <2>1 DEF MediaInv, ShownOK, StreamsOK, TasksOK
<1>13. SendersOK'
  BY <1>1, <1>8, <1>9, <1>10 DEF MediaInv, SendersOK, StreamsOK
<1>14. ChainsOK' /\ Owned' /\ Sharing'
  BY <1>1, <1>11 DEF MediaInv, ChainsOK, Owned, Sharing, Asking
<1>15. Apart'
  BY <1>1, <1>4, <1>7, <1>10 DEF MediaInv, Apart
<1>16. MutedLocal' /\ Unlit'
  BY <1>1, <1>11 DEF MediaInv, MutedLocal, Unlit, Unmuting
<1>17. QED BY <1>12, <1>13, <1>14, <1>15, <1>16 DEF MediaInv

\* The room is left.
LEMMA LeaveRoomKeeps ==
    ASSUME MediaInv, LeaveRoom
    PROVE  MediaInv'
<1>1. /\ view' = "lobby" /\ muted' = FALSE /\ camera' = TRUE /\ session' = FALSE
      /\ published' = <<>> /\ local' = <<>> /\ screen' = None
      /\ live' = live \ (Range(local) \cup {screen})
      /\ granted' = granted /\ disabled' = disabled /\ watched' = watched
      /\ tasks' = [k \in Task |-> IF Awaits(k, chain) THEN Idle ELSE Cancelled[k]]
      /\ peers' = [p \in Peer |-> IF peers[p] = "in" THEN "gone" ELSE peers[p]]
      /\ provide' = [p \in Peer |-> <<>>] /\ chain' = [p \in Peer |-> <<>>]
      /\ sent' = [p \in Peer |-> NothingSent]
  BY DEF LeaveRoom, ShowView, ShowMuted, ShowCamera
<1>2. /\ Range(<<>>) = {} /\ IsInjective(<<>>)
      /\ <<>> \in Seq(Track) /\ <<>> \in Seq(Mic \cup Cam) /\ <<>> \in Seq(Task \cup {Answering})
  BY DEF Range, IsInjective
<1>3. \A j \in Task : ~Awaits(j, chain')
  BY <1>1, <1>2 DEF Awaits
<1>4. ASSUME NEW j \in Task
      PROVE  /\ tasks'[j] \in TaskRec /\ TaskOK(tasks'[j], "lobby", granted)
             /\ tasks'[j].got = tasks[j].got /\ tasks'[j].new \in {tasks[j].new, None}
             /\ \/ tasks'[j] = Idle
                \/ tasks'[j].what = tasks[j].what /\ tasks'[j].asks = tasks[j].asks
  <2>1. TaskOK(tasks[j], view, granted) /\ tasks[j] \in TaskRec
    BY DEF MediaInv, TasksOK, TaskOK
  <2>2. CASE Awaits(j, chain)
    <3>1. tasks'[j] = Idle
      BY <1>1, <2>2
    <3>2. tasks[j].got = {}
      BY <2>1, <2>2 DEF MediaInv, ChainsOK, TaskOK
    <3>3. QED BY <3>1, <3>2, IdleIs
  <2>3. CASE ~Awaits(j, chain)
    <3>1. tasks'[j] = [tasks[j] EXCEPT !.current = FALSE]
      BY <1>1, <2>3 DEF Cancelled
    <3>2. ASSUME tasks[j] = Idle PROVE tasks'[j] = Idle
      <4>1. tasks'[j] = [Idle EXCEPT !.current = FALSE]
        BY <3>1, <3>2, Zenon
      <4>2. QED BY <4>1 DEF Idle
    <3>3. /\ tasks'[j] \in TaskRec /\ tasks'[j].current = FALSE
          /\ tasks'[j].what = tasks[j].what /\ tasks'[j].asks = tasks[j].asks
          /\ tasks'[j].got = tasks[j].got /\ tasks'[j].new = tasks[j].new
          /\ tasks'[j].old = tasks[j].old
      BY <2>1, <3>1 DEF TaskRec
    <3>4. TaskOK(tasks'[j], "lobby", granted)
      BY <2>1, <3>2, <3>3 DEF TaskOK
    <3>5. QED BY <3>3, <3>4
  <2>4. QED BY <2>2, <2>3
<1>5. TasksOK'
  <2>1. tasks' \in [Task -> TaskRec]
    BY <1>1, <1>4
  <2>2. QED BY <1>1, <1>4, <2>1 DEF TasksOK
<1>6. ShownOK' /\ StreamsOK'
  BY <1>1, <1>2 DEF MediaInv, ShownOK, StreamsOK
<1>7. SendersOK'
  BY <1>1 DEF MediaInv, SendersOK, NothingSent
<1>8. ChainsOK'
  BY <1>1, <1>2, <1>3 DEF ChainsOK
<1>9. Owned'
  BY <1>1, <1>4 DEF MediaInv, Owned
<1>10. Apart'
  <2>1. \A j \in Task : \A t \in tasks[j].got : t # None
    BY KindIs DEF MediaInv, TasksOK, TaskOK
  <2>2. \A p \in Peer : sent'[p].audio = None
    BY <1>1 DEF NothingSent
  <2>3. QED BY <1>1, <1>2, <1>4, <2>1, <2>2 DEF MediaInv, Apart
<1>11. Sharing'
  <2>1. \A j \in Task : Asking(j)' => Asking(j)
    BY <1>4, IdleIs DEF Asking
  <2>2. QED BY <1>1, <2>1 DEF MediaInv, Sharing
<1>12. MutedLocal' /\ Unlit'
  BY <1>1, <1>2, <1>4, IdleIs DEF MediaInv, MutedLocal, Unlit
<1>13. QED BY <1>5, <1>6, <1>7, <1>8, <1>9, <1>10, <1>11, <1>12 DEF MediaInv

-----------------------------------------------------------------------------

\* Nothing is captured at the start.
LEMMA MediaInvInit == MediaInit => MediaInv
<1> SUFFICES ASSUME MediaInit PROVE MediaInv
  OBVIOUS
<1>1. /\ Range(<<>>) = {} /\ IsInjective(<<>>)
      /\ <<>> \in Seq(Track) /\ <<>> \in Seq(Mic \cup Cam) /\ <<>> \in Seq(Task \cup {Answering})
  BY DEF Range, IsInjective
<1>2. \A k \in Task : tasks[k] = Idle /\ ~Awaits(k, chain)
  BY <1>1 DEF MediaInit, Awaits
<1>3. ShownOK /\ StreamsOK
  BY <1>1 DEF MediaInit, ShownOK, StreamsOK
<1>4. TasksOK
  BY <1>2, IdleIs DEF MediaInit, TasksOK
<1>5. SendersOK /\ ChainsOK
  BY <1>1, <1>2 DEF MediaInit, SendersOK, ChainsOK, NothingSent
<1>6. Owned /\ Apart /\ Sharing
  BY <1>2, IdleIs DEF MediaInit, Owned, Apart, Sharing, Asking
<1>7. MutedLocal /\ Unlit
  BY <1>1, <1>2, IdleIs DEF MediaInit, MutedLocal, Unlit
<1>8. QED BY <1>3, <1>4, <1>5, <1>6, <1>7 DEF MediaInv

\* Every step keeps the invariant.
LEMMA MediaInvNext == MediaInv /\ [MediaNext]_mediaVars => MediaInv'
<1> SUFFICES ASSUME MediaInv, [MediaNext]_mediaVars PROVE MediaInv'
  OBVIOUS
<1>1. ASSUME NEW k \in Task, NEW kind \in {"audio", "video"},
             \/ \E t \in Track \cup {None} : Answer(k, kind, t)
             \/ SelectDevice(k, kind) \/ AcquireDevice(k, kind)
      PROVE  MediaInv'
  BY <1>1, AnswerKeeps, SelectAcquireKeeps
<1>2. ASSUME NEW k \in Task,
             \/ ShowPreview(k) \/ ShareScreen(k) \/ UnshareScreen(k)
             \/ \E t \in Screen : ScreenEnds(k, t)
      PROVE  MediaInv'
  BY <1>2, ShowPreviewKeeps, ShareScreenKeeps, ScreenStopsKeeps
<1>3. CASE ShowPreviewAsViewer \/ BackToLobby \/ OnJoinRoom \/ JoinWithoutDevices
  BY <1>3, ViewsKeep
<1>4. CASE ToggleMute \/ ToggleVideo
  BY <1>4, ToggleKeeps
<1>5. CASE \E S \in SUBSET Peer : JoinAccepted(S)
  BY <1>5, PeersKeep
<1>6. ASSUME NEW p \in Peer, PeerOffers(p) \/ Provide(p) \/ SenderSettles(p) \/ PeerLeaves(p)
      PROVE  MediaInv'
  BY <1>6, PeersKeep, SenderSettlesKeeps
<1>7. CASE LeaveRoom
  BY <1>7, LeaveRoomKeeps
<1>8. CASE UNCHANGED mediaVars
  <2>1. /\ view' = view /\ muted' = muted /\ camera' = camera
        /\ granted' = granted /\ live' = live /\ disabled' = disabled /\ local' = local
        /\ screen' = screen /\ watched' = watched /\ tasks' = tasks
        /\ session' = session /\ published' = published
        /\ peers' = peers /\ provide' = provide /\ chain' = chain /\ sent' = sent
    BY <1>8 DEF mediaVars, shown, devices, rtc
  <2>2. ShownOK' /\ StreamsOK' /\ SendersOK' /\ TasksOK'
    BY <2>1 DEF MediaInv, ShownOK, StreamsOK, SendersOK, TasksOK
  <2>3. ChainsOK' /\ Owned' /\ Apart' /\ Sharing'
    BY <2>1 DEF MediaInv, ChainsOK, Owned, Apart, Sharing, Asking
  <2>4. MutedLocal' /\ Unlit'
    BY <2>1 DEF MediaInv, MutedLocal, Unlit, Unmuting
  <2>5. QED BY <2>2, <2>3, <2>4 DEF MediaInv
<1>9. QED
  BY <1>1, <1>2, <1>3, <1>4, <1>5, <1>6, <1>7, <1>8 DEF MediaNext, InTheView

(***************************************************************************)
(* MediaInv is an invariant of the tab.                                    *)
(***************************************************************************)
THEOREM MediaInvariant == MediaSpec => []MediaInv
BY MediaInvInit, MediaInvNext, PTL DEF MediaSpec

(***************************************************************************)
(* The tracks, streams, coroutines and chains of operations are what the   *)
(* code takes them to be; in particular no stream has a track twice.       *)
(***************************************************************************)
THEOREM MediaTypeCorrect == MediaSpec => []MediaTypeOK
<1>1. MediaInv => MediaTypeOK
  BY DEF MediaInv, ShownOK, StreamsOK, TasksOK, TaskOK, TaskRec, SendersOK, ChainsOK, MediaTypeOK
<1>2. QED BY <1>1, MediaInvariant, PTL

(***************************************************************************)
(* No interleaving of captures, selections, cancellations and departures   *)
(* leaves a device or a screen on that nothing would switch off.           *)
(***************************************************************************)
THEOREM CapturesAreHeld == MediaSpec => []NoOrphanCapture
<1>1. MediaInv => NoOrphanCapture
  BY DEF MediaInv, Owned, NoOrphanCapture
<1>2. QED BY <1>1, MediaInvariant, PTL

(***************************************************************************)
(* A microphone that sends is in localStream, so a tab that shows it is    *)
(* muted sends no sound.                                                   *)
(***************************************************************************)
THEOREM MutedTabIsSilent == MediaSpec => []MutedIsSilent
<1>1. ASSUME MediaInv PROVE MutedIsSilent
  <2> SUFFICES ASSUME muted, ~Unmuting, NEW p \in Peer, sent[p].audio \in live \ disabled
               PROVE  FALSE
    BY DEF MutedIsSilent
  <2>1. sent[p].audio \in Mic
    <3>1. None \notin live
      BY <1>1, MediaAssumption DEF MediaInv, StreamsOK
    <3>2. QED BY <1>1, <3>1 DEF MediaInv, SendersOK
  <2>2. sent[p].audio \in Range(local)
    <3>1. sent[p].audio # screen
      BY <1>1, <2>1, KindIs DEF MediaInv, StreamsOK
    <3>2. \A k \in Task : sent[p].audio \notin tasks[k].got
      BY <1>1 DEF MediaInv, Apart
    <3>3. QED BY <1>1, <3>1, <3>2 DEF MediaInv, Owned
  <2>3. Range(local) \cap Mic \subseteq disabled
    BY <1>1 DEF MediaInv, ShownOK, MutedLocal
  <2>4. QED BY <2>1, <2>2, <2>3
<1>2. QED BY <1>1, MediaInvariant, PTL

(***************************************************************************)
(* Where nobody selects devices or shares a screen, the captures that      *)
(* captureVersion does not guard, the lobby is dark.                       *)
(***************************************************************************)
THEOREM LobbyStaysDark ==
    ASSUME Controls \cap {"select", "screen"} = {}
    PROVE  MediaSpec => []LobbyIsDark
<1>1. ASSUME MediaInv PROVE LobbyIsDark
  <2> SUFFICES ASSUME view = "lobby", NEW t \in live
               PROVE  \E k \in Task : t \in tasks[k].got /\ ~tasks[k].current
    BY DEF LobbyIsDark
  <2>1. screen = None /\ Range(local) = {}
    BY <1>1 DEF MediaInv, Unlit
  <2>2. t # None
    BY <1>1, MediaAssumption DEF MediaInv, StreamsOK
  <2>3. PICK k \in Task : t \in tasks[k].got
    BY <1>1, <2>1, <2>2 DEF MediaInv, Owned
  <2>4. tasks[k].current = FALSE
    <3>1. TaskOK(tasks[k], view, granted)
      BY <1>1 DEF MediaInv, TasksOK
    <3>2. QED BY <3>1 DEF TaskOK, TaskRec
  <2>5. QED BY <2>3, <2>4
<1>2. QED BY <1>1, MediaInvariant, PTL

\* What ScreenStaysShared says of a step, for one peer
LEMMA ScreenGoesOn ==
    ASSUME MediaInv, MediaNext, NEW p \in Peer,
           peers[p] = "in", peers'[p] = "in", provide[p] = <<>>,
           sent[p].video = screen, screen \in live, screen' = screen
    PROVE  \/ sent'[p].video = screen
           \/ \E k \in Task : tasks[k].what # "unshare" /\ tasks'[k].what = "unshare"
<1>1. screen \in granted /\ screen # None /\ p \in Connected
  BY MediaAssumption DEF MediaInv, StreamsOK, Connected
<1>2. ASSUME NEW k \in Task, NEW kind \in {"audio", "video"}, NEW t \in Track \cup {None},
             Answer(k, kind, t)
      PROVE  sent'[p].video = screen
  <2>1. Answered(k, kind, t)
    BY <1>2 DEF Answer, Answered
  <2>2. CASE PreviewAnswered(k, t) \/ PreviewFirstAnswer(k, kind, t) \/ Refused(k) \/ DeviceTooLate(k)
             \/ DeviceSelected(k, t)
    BY <2>2 DEF PreviewAnswered, PreviewFirstAnswer, Refused, DeviceTooLate, DeviceSelected, rtc
  <2>3. CASE tasks[k].what = "share" /\ t # None /\ ScreenGranted(k, t)
    <3>1. screen' = t
      BY <2>3 DEF ScreenGranted, ReplaceTrack, Complete
    <3>2. QED BY <1>1, <2>1, <2>3, <3>1 DEF Answered
  <2>4. CASE tasks[k].what \in {"mute", "video"} /\ t # None /\ DeviceAcquired(k, t)
    <3>1. CASE tasks[k].what = "mute"
      <4>1. TaskOK(tasks[k], view, granted)
        BY DEF MediaInv, TasksOK
      <4>2. t \in Mic
        BY <2>1, <2>4, <3>1, <4>1 DEF Answered, TaskOK
      <4>3. Kind(t) = "audio"
        BY <4>2, KindIs
      <4>4. sent'[p] = [sent[p] EXCEPT !["audio"] = t] \/ sent' = sent
        BY <1>1, <2>4, <4>3 DEF DeviceAcquired, ReplaceTrack
      <4>5. sent[p] \in [audio : Mic \cup {None}, video : Cam \cup Screen \cup {None}]
        BY DEF MediaInv, SendersOK
      <4>6. QED BY <4>4, <4>5
    <3>2. CASE tasks[k].what # "mute"
      BY <1>1, <2>4, <3>2 DEF DeviceAcquired
    <3>3. QED BY <3>1, <3>2
  <2>5. QED BY <1>2, <2>2, <2>3, <2>4, Zenon DEF Answer
<1>3. ASSUME NEW k \in Task, UnshareScreen(k) \/ \E t \in Screen : ScreenEnds(k, t)
      PROVE  sent'[p].video = screen \/ (tasks[k].what # "unshare" /\ tasks'[k].what = "unshare")
  <2>1. PICK base : base = First(local, "video")
    OBVIOUS
  <2>2. \/ sent' = sent
        \/ tasks[k] = Idle /\ tasks' = [tasks EXCEPT ![k] = [Idle EXCEPT !.what = "unshare", !.old = screen, !.new = base]]
    BY <1>1, <1>3, <2>1, Zenon DEF UnshareScreen, ScreenEnds, StopScreenShare, ReplaceTrack, rtc
  <2>3. CASE tasks[k] = Idle /\ tasks' = [tasks EXCEPT ![k] = [Idle EXCEPT !.what = "unshare", !.old = screen, !.new = base]]
    <3>1. tasks'[k] = [Idle EXCEPT !.what = "unshare", !.old = screen, !.new = base]
      BY <2>3 DEF MediaInv, TasksOK
    <3>2. tasks'[k].what = "unshare"
      BY <3>1 DEF Idle
    <3>3. QED BY <2>3, <3>2, IdleIs
  <2>4. QED BY <2>2, <2>3
<1>4. ASSUME NEW k \in Task, NEW kind \in {"audio", "video"}, SelectDevice(k, kind) \/ AcquireDevice(k, kind)
      PROVE  sent' = sent
  BY <1>4 DEF SelectDevice, AcquireDevice, rtc
<1>5. ASSUME NEW k \in Task, ShowPreview(k) \/ ShareScreen(k)
      PROVE  sent' = sent
  BY <1>5 DEF ShowPreview, ShareScreen, rtc
<1>6. CASE ShowPreviewAsViewer \/ BackToLobby \/ OnJoinRoom \/ JoinWithoutDevices \/ ToggleMute \/ ToggleVideo
  BY <1>6 DEF ShowPreviewAsViewer, BackToLobby, OnJoinRoom, JoinWithoutDevices, ToggleMute, ToggleVideo, rtc
<1>7. ASSUME NEW S \in SUBSET Peer, JoinAccepted(S) PROVE sent'[p] = sent[p]
  BY <1>7 DEF JoinAccepted
<1>8. ASSUME NEW q \in Peer, PeerOffers(q) \/ SenderSettles(q) PROVE sent' = sent
  BY <1>8 DEF PeerOffers, SenderSettles
<1>9. ASSUME NEW q \in Peer, Provide(q) \/ PeerLeaves(q) PROVE sent'[p] = sent[p]
  <2>1. q # p
    BY <1>9 DEF Provide, PeerLeaves, MediaInv, SendersOK
  <2>2. \E x : sent' = [sent EXCEPT ![q] = x]
    <3>1. CASE PeerLeaves(q)
      BY <3>1 DEF PeerLeaves
    <3>2. CASE Provide(q)
      <4>1. sent' = [sent EXCEPT ![q] = [@ EXCEPT ![Head(provide[q])] = First(published, Head(provide[q]))]]
        BY <3>2 DEF Provide
      <4>2. QED BY <4>1
    <3>3. QED BY <1>9, <3>1, <3>2
  <2>3. QED BY <2>1, <2>2 DEF MediaInv, SendersOK
<1>10. ~LeaveRoom
  <2>1. LeaveRoom => peers'[p] = "gone"
    BY DEF LeaveRoom
  <2>2. QED BY <2>1
<1>11. QED
  BY <1>2, <1>3, <1>4, <1>5, <1>6, <1>7, <1>8, <1>9, <1>10 DEF MediaNext, InTheView

(***************************************************************************)
(* Switching the camera on, answers, newcomers and departures of others do *)
(* not replace a screen that is shared.                                    *)
(***************************************************************************)
THEOREM SharedScreenStays == MediaSpec => ScreenStaysShared
<1>1. MediaInv /\ MediaNext =>
        \A p \in Peer :
          /\ peers[p] = "in" /\ peers'[p] = "in" /\ provide[p] = <<>>
          /\ sent[p].video = screen /\ screen \in live /\ screen' = screen
          => \/ sent'[p].video = screen
             \/ \E k \in Task : tasks[k].what # "unshare" /\ tasks'[k].what = "unshare"
  BY ScreenGoesOn
<1>2. QED BY <1>1, MediaInvariant, PTL DEF MediaSpec, ScreenStaysShared

(***************************************************************************)
(* Recording only watches the tab: with the recorder the tab still does    *)
(* what LocalMedia allows, so that everything above holds of it too.       *)
(***************************************************************************)
THEOREM RecordingOnlyWatches == TabSpec => MediaSpec
<1>1. [TabNext]_tabVars => [MediaNext]_mediaVars
  BY DEF TabNext, tabVars, RecordOn, RecorderStopped, RecordRefused, RecordOff, Leave, TabStep, MediaNext
<1>2. QED BY <1>1, PTL DEF TabSpec, MediaSpec

-----------------------------------------------------------------------------
(* Recording.  Nothing is assumed of what the rest of the tab does with     *)
(* its tracks: a step of it matters only by whether it changes the stream.  *)

(***************************************************************************)
(* A recorder in state "recording" was started with the button, which      *)
(* shows it; recordings are shown in the room only; and what was started   *)
(* records, is about to be saved or was.                                   *)
(***************************************************************************)
TabInv ==
    /\ RecorderTypeOK
    /\ NoSecretRecording
    /\ isRecording => view = "room"
    /\ NoRecordingIsLost

\* Nothing is recorded at the start.
LEMMA TabInvInit == MediaInit /\ RecorderInit => TabInv
BY DEF MediaInit, RecorderInit, TabInv, RecorderTypeOK, NoSecretRecording, NoRecordingIsLost

(***************************************************************************)
(* Of the steps of the tab only leaveRoom() leaves the room.               *)
(***************************************************************************)
LEMMA AnswerStays ==
    ASSUME NEW k, NEW kind, NEW t, Answer(k, kind, t)
    PROVE  view' = view
<1>1. ASSUME PreviewAnswered(k, t) PROVE view' = view
  BY <1>1 DEF PreviewAnswered
<1>2. ASSUME PreviewFirstAnswer(k, kind, t) \/ Refused(k) \/ DeviceTooLate(k) \/ DeviceSelected(k, t)
      PROVE  view' = view
  BY <1>2 DEF PreviewFirstAnswer, Refused, DeviceTooLate, DeviceSelected, shown
<1>3. ASSUME DeviceAcquired(k, t) \/ ScreenGranted(k, t) PROVE view' = view
  BY <1>3 DEF DeviceAcquired, ScreenGranted
<1>4. QED BY <1>1, <1>2, <1>3, Zenon DEF Answer

\* The view of a room is left with its session only.
LEMMA RoomStays ==
    ASSUME InTheView, view = "room"
    PROVE  view' = "room"
<1>1. ASSUME NEW k \in Task, NEW kind \in {"audio", "video"},
             SelectDevice(k, kind) \/ AcquireDevice(k, kind)
      PROVE  view' = "room"
  BY <1>1 DEF SelectDevice, AcquireDevice, shown
<1>2. ASSUME NEW k \in Task, ShowPreview(k) \/ ShareScreen(k) \/ UnshareScreen(k)
      PROVE  view' = "room"
  BY <1>2 DEF ShowPreview, ShareScreen, UnshareScreen, StopScreenShare, shown
<1>3. ASSUME NEW k \in Task, NEW t \in Screen, ScreenEnds(k, t) PROVE view' = "room"
  BY <1>3 DEF ScreenEnds, StopScreenShare, shown
<1>4. ~(ShowPreviewAsViewer \/ BackToLobby \/ OnJoinRoom \/ JoinWithoutDevices)
  BY DEF ShowPreviewAsViewer, BackToLobby, OnJoinRoom, JoinWithoutDevices
<1>5. ASSUME ToggleMute \/ ToggleVideo PROVE view' = "room"
  BY <1>5 DEF ToggleMute, ToggleVideo
<1>6. ASSUME NEW S, JoinAccepted(S) PROVE view' = "room"
  BY <1>6 DEF JoinAccepted, shown
<1>7. ASSUME NEW p \in Peer, PeerOffers(p) \/ Provide(p) \/ PeerLeaves(p) PROVE view' = "room"
  BY <1>7 DEF PeerOffers, Provide, PeerLeaves, shown
<1>8. ASSUME NEW p \in Peer, SenderSettles(p) PROVE view' = "room"
  BY <1>8 DEF SenderSettles, shown
<1>9. QED
  BY <1>1, <1>2, <1>3, <1>4, <1>5, <1>6, <1>7, <1>8, AnswerStays DEF InTheView

\* Every step of the tab keeps the invariant.
LEMMA TabInvNext == TabInv /\ [TabNext]_tabVars => TabInv'
<1> SUFFICES ASSUME TabInv, [TabNext]_tabVars PROVE TabInv'
  OBVIOUS
<1> USE DEF TabInv, RecorderTypeOK, NoSecretRecording, NoRecordingIsLost
<1>1. ASSUME NEW r \in Recording, RecordOn(r) PROVE TabInv'
  BY <1>1 DEF RecordOn, StartRecording, ShowRecording, mediaVars, shown
<1>2. ASSUME NEW r \in Recording, RecorderStopped(r) PROVE TabInv'
  BY <1>2 DEF RecorderStopped, mediaVars, shown
<1>3. CASE RecordRefused
  BY <1>3 DEF RecordRefused, mediaVars, shown
<1>4. CASE RecordOff
  BY <1>4 DEF RecordOff, StopRecording, Stop, ShowRecording, mediaVars, shown
<1>5. CASE Leave
  BY <1>5 DEF Leave, Stop, ShowRecording
<1>6. CASE TabStep
  BY <1>6, RoomStays DEF TabStep
<1>7. CASE UNCHANGED tabVars
  BY <1>7 DEF tabVars, recorderVars, mediaVars, shown
<1>8. QED BY <1>1, <1>2, <1>3, <1>4, <1>5, <1>6, <1>7 DEF TabNext

(***************************************************************************)
(* Type correctness of the recorder.                                       *)
(***************************************************************************)
THEOREM RecorderTypeCorrect == TabSpec => []RecorderTypeOK
<1>1. TabInv => RecorderTypeOK BY DEF TabInv
<1>2. QED BY <1>1, TabInvInit, TabInvNext, PTL DEF TabSpec

(***************************************************************************)
(* docs/SECURITY.md, line 23: nothing records but what the button shows    *)
(* and would stop, and only in the room.                                   *)
(***************************************************************************)
THEOREM NothingRecordsUnseen == TabSpec => []NoSecretRecording
<1>1. TabInv => NoSecretRecording BY DEF TabInv
<1>2. QED BY <1>1, TabInvInit, TabInvNext, PTL DEF TabSpec

(***************************************************************************)
(* Every recording that was started goes on, is about to be saved or was.  *)
(***************************************************************************)
THEOREM RecordingsAreSaved == TabSpec => []NoRecordingIsLost
<1>1. TabInv => NoRecordingIsLost BY DEF TabInv
<1>2. QED BY <1>1, TabInvInit, TabInvNext, PTL DEF TabSpec
=============================================================================
