---------------------------- MODULE InstallProofs ----------------------------
(***************************************************************************)
(* Theorems about the installers, for any number of installations.         *)
(*                                                                         *)
(* A step is identified by how many steps come after it (FromEnd), which   *)
(* the steps before it do not change.  The inductive invariant says, for   *)
(* each of the four sequences (two installers, two roll-backs), which      *)
(* steps are left and what the steps already done have brought about.      *)
(***************************************************************************)
EXTENDS Install, SequenceTheorems, TLAPS

Left == Len(todo)

\* The step after which e - 1 are left
FromEnd(e) == todo[Len(todo) + 1 - e]

Step == {<<k>> : k \in {"copy", "certbot", "daemon-reload", "start", "stop", "enable",
                        "disable", "reload", "check"}}
        \cup ({"link", "write"} \X Place \X Content)

(***************************************************************************)
(* The sequences, with what their run found when it began.                 *)
(***************************************************************************)
AppsPlan ==
    << <<"copy">>, <<"link", "current", Absent>>, <<"link", "current", run>>,
       <<"write", "env", run>>, <<"write", "unit", run>>, <<"write", "snippet", run>>,
       <<"write", "site", IF before.place["site"] = 0 THEN run ELSE before.place["site"]>>,
       <<"check">>, <<"daemon-reload">>, <<"start">>, <<"check">>, <<"enable">>, <<"reload">> >>

VpsLink == <<"link", "link", 0>>
VpsHttp == <<"write", "site", Http>>

VpsPlan ==
    << <<"check">>, <<"write", "site", run>>, <<"reload">>, <<"write", "hook", run>> >>

AppsDone ==
    /\ before.enabled => enabled
    /\ Left <= 12 => run \in releases
    /\ Left <= 10 => place["current"] = run
    /\ Left <= 9 => place["env"] = run
    /\ Left <= 8 => place["unit"] = run
    /\ Left <= 7 => place["snippet"] = run
    /\ Left <= 6 => place["site"] # 0
    /\ Left <= 4 => loaded = run
    /\ Left <= 3 => proc = [current |-> run, env |-> run, unit |-> run]
    /\ Left <= 1 => enabled

InstallingApps ==
    /\ Left <= 13
    /\ \A e \in 1..Left : FromEnd(e) = AppsPlan[14 - e]
    /\ AppsDone

\* The link and the certificate are there or will be.
InstallingVps ==
    /\ \A e \in 1..Left : IF e <= 4 THEN FromEnd(e) = VpsPlan[5 - e]
                          ELSE FromEnd(e) \in {VpsLink, VpsHttp, <<"reload">>, <<"certbot">>}
    /\ place["link"] # Absent \/ \E e \in 5..Left : FromEnd(e) = VpsLink
    /\ cert \/ \E e \in 5..Left : FromEnd(e) = <<"certbot">>
    /\ Left <= 2 => place["site"] = run
    /\ Left <= 1 => nginx["site"] = run /\ nginx["link"] # Absent

(***************************************************************************)
(* The roll-back of the node: `Start` and `Disable` are the number of      *)
(* steps that start and disable the service, one or none.                  *)
(***************************************************************************)
Start == IF before.active THEN 1 ELSE 0
Disable == IF before.enabled THEN 0 ELSE 1

AppsUndo(e) ==
    /\ e = 1 => FromEnd(e) = <<"reload">>
    /\ e = 2 /\ Start = 1 => FromEnd(e) = <<"start">>
    /\ e = 2 + Start => FromEnd(e) = <<"daemon-reload">>
    /\ e = 3 + Start /\ Disable = 1 => FromEnd(e) = <<"disable">>
    /\ e = 3 + Start + Disable => FromEnd(e) = <<"write", "env", before.place["env"]>>
    /\ e = 4 + Start + Disable => FromEnd(e) = <<"write", "unit", before.place["unit"]>>
    /\ e = 5 + Start + Disable => FromEnd(e) = <<"write", "snippet", before.place["snippet"]>>
    /\ e = 6 + Start + Disable => FromEnd(e) = <<"write", "site", before.place["site"]>>
    /\ e = 7 + Start + Disable => FromEnd(e) = <<"link", "current", before.place["current"]>>
    /\ e = 8 + Start + Disable => FromEnd(e) = <<"link", "current", Absent>>
    /\ e = 9 + Start + Disable => FromEnd(e) = <<"stop">>

AppsUndone ==
    /\ before.enabled => enabled
    /\ Left <= 8 + Start + Disable /\ Left >= 2 => proc = Absent
    /\ Left <= 6 + Start + Disable => place["current"] = before.place["current"]
    /\ Left <= 5 + Start + Disable => place["site"] = before.place["site"]
    /\ Left <= 4 + Start + Disable => place["snippet"] = before.place["snippet"]
    /\ Left <= 3 + Start + Disable => place["unit"] = before.place["unit"]
    /\ Left <= 2 + Start + Disable => place["env"] = before.place["env"]
    /\ Left <= 2 + Start => enabled = before.enabled
    /\ Left <= 1 + Start => loaded = place["unit"]
    /\ Left <= 1 => ((proc # Absent) <=> (before.active /\ Startable))

RestoringApps ==
    /\ Left <= 9 + Start + Disable
    /\ \A e \in 1..Left : AppsUndo(e)
    /\ AppsUndone

RestoringVps ==
    /\ Left <= 4
    /\ \A e \in 1..Left : FromEnd(e) = RestoreVps[5 - e]
    /\ Left <= 3 => place["link"] = before.place["link"]
    /\ Left <= 2 => place["site"] = before.place["site"]
    /\ Left <= 1 => place["hook"] = before.place["hook"]

(***************************************************************************)
(* What holds whatever the phase: on the node every release that is linked *)
(* or was linked is whole and no file is the site without HTTPS; on the    *)
(* public host there is no service.                                        *)
(***************************************************************************)
WholeReleases ==
    /\ script = "apps" =>
         /\ place["current"] \in releases \cup {Absent}
         /\ before.place["current"] \in releases \cup {Absent}
         /\ loaded # Http
         /\ \A p \in Place : place[p] # Http /\ before.place[p] # Http
    /\ script = "vps" =>
         proc = Absent /\ ~enabled /\ ~before.active /\ ~before.enabled

\* The part of InstallTypeOK that is about the host
HostTypeOK ==
    /\ script \in {"apps", "vps"} /\ place \in [Place -> Content]
    /\ releases \subseteq 1..MaxRuns /\ cert \in BOOLEAN
    /\ loaded \in Content /\ enabled \in BOOLEAN
    /\ \/ proc = Absent
       \/ proc.current \in Nat /\ {proc.env, proc.unit} \subseteq Nat \cup {Torn}
    /\ nginx \in [DOMAIN Served -> Content]

HostFacts ==
    /\ WholeReleases
    /\ todo \in Seq(Step)
    /\ phase # "none" => run >= 1

InstallInv ==
    /\ InstallTypeOK
    /\ HostFacts
    /\ phase = "installing" => IF script = "apps" THEN InstallingApps ELSE InstallingVps
    /\ phase = "restoring" => IF script = "apps" THEN RestoringApps ELSE RestoringVps
    /\ FailureRestores
    /\ InstalledServes

-----------------------------------------------------------------------------
(* The steps that are left. *)

\* The first of the steps left, counted from the end of the plan.
LEMMA FirstIsLast ==
    ASSUME todo \in Seq(Step), todo # <<>>
    PROVE  /\ Left \in Nat \ {0}
           /\ Head(todo) = FromEnd(Left) /\ Head(todo) \in Step
BY HeadTailProperties DEF Left, FromEnd

\* Taking the first step leaves the others where they are, counted from the end.
LEMMA TailKeepsEnd ==
    ASSUME todo \in Seq(Step), todo # <<>>, todo' = Tail(todo), UNCHANGED script
    PROVE  /\ todo' \in Seq(Step') /\ Left' = Left - 1
           /\ todo' = <<>> <=> Left = 1
           /\ \A e \in 1..(Left - 1) : FromEnd(e)' = FromEnd(e)
<1>1. Step' = Step
  BY DEF Step, Place
<1>2. /\ Len(todo) \in Nat \ {0} /\ todo' \in Seq(Step) /\ Len(todo') = Len(todo) - 1
      /\ \A i \in 1..(Len(todo) - 1) : todo'[i] = todo[i + 1]
  BY HeadTailProperties
<1>3. ASSUME NEW e \in 1..(Left - 1) PROVE FromEnd(e)' = FromEnd(e)
  <2>1. Len(todo) - e \in 1..(Len(todo) - 1)
    BY <1>2, <1>3 DEF Left
  <2>2. /\ Len(todo') + 1 - e = Len(todo) - e
        /\ (Len(todo) - e) + 1 = Len(todo) + 1 - e
    BY <1>2, <1>3 DEF Left
  <2>3. QED BY <1>2, <2>1, <2>2 DEF FromEnd
<1>4. todo' = <<>> <=> Left = 1
  <2>1. todo' = <<>> <=> Len(todo') = 0
    BY <1>2, EmptySeq
  <2>2. QED BY <1>2, <2>1 DEF Left
<1>5. QED BY <1>1, <1>2, <1>3, <1>4 DEF Left

(***************************************************************************)
(* A step that may come next: it links only releases that are whole, it    *)
(* puts the site without HTTPS on the public host only, and it starts no   *)
(* service there.                                                          *)
(***************************************************************************)
Proper(step) ==
    /\ step \in Step
    /\ script = "apps" /\ step[1] \in {"link", "write"} =>
         /\ step[3] # Http
         /\ step[2] = "current" => step[1] = "link" /\ step[3] \in releases \cup {Absent}
    /\ script = "vps" => step[1] \notin {"start", "stop", "enable", "disable", "daemon-reload"}

\* The plan of install-apps has proper steps only.
LEMMA AppsPlanProper ==
    ASSUME InstallTypeOK, HostFacts, script = "apps", run >= 1, NEW i \in 1..13,
           i >= 2 => run \in releases
    PROVE  Proper(AppsPlan[i])
<1>1. run \in Content \ {Http}
  BY InstallAssumption DEF InstallTypeOK, Content
<1>2. before.place["site"] \in Content \ {Http}
  BY DEF InstallTypeOK, HostFacts, WholeReleases, Place
<1>3. Absent \in Content \ {Http}
  BY InstallAssumption DEF Content
<1>4. Place = {"current", "env", "unit", "snippet", "site"}
  BY DEF Place
<1> HIDE DEF Content
<1>5. CASE i = 1
  BY <1>5 DEF AppsPlan, Proper, Step
<1>6. CASE i \in 2..7
  BY <1>1, <1>2, <1>3, <1>4, <1>6 DEF AppsPlan, Proper, Step
<1>7. CASE i \in 8..13
  BY <1>7 DEF AppsPlan, Proper, Step
<1>8. QED BY <1>5, <1>6, <1>7

\* So has what it does to restore.
LEMMA AppsUndoProper ==
    ASSUME InstallTypeOK, HostFacts, script = "apps", NEW e \in Nat \ {0},
           e <= 9 + Start + Disable, AppsUndo(e)
    PROVE  Proper(FromEnd(e))
<1>1. \A p \in Place : before.place[p] \in Content \ {Http}
  BY DEF InstallTypeOK, HostFacts, WholeReleases
<1>2. Absent \in Content \ {Http}
  BY InstallAssumption DEF Content
<1>3. before.place["current"] \in releases \cup {Absent}
  BY DEF HostFacts, WholeReleases
<1>4. Place = {"current", "env", "unit", "snippet", "site"}
  BY DEF Place
<1>5. Start \in 0..1 /\ Disable \in 0..1
  BY DEF Start, Disable
<1> HIDE DEF Content, Start, Disable
<1>6. \/ FromEnd(e) \in {<<"reload">>, <<"start">>, <<"daemon-reload">>, <<"disable">>, <<"stop">>}
      \/ \E p \in Place \ {"current"} : FromEnd(e) = <<"write", p, before.place[p]>>
      \/ \E v \in {Absent, before.place["current"]} : FromEnd(e) = <<"link", "current", v>>
  <2>1. CASE e <= 3 + Start
    <3>1. \/ e = 1 \/ (e = 2 /\ Start = 1) \/ e = 2 + Start
          \/ (e = 3 + Start /\ Disable = 1) \/ e = 3 + Start + Disable
      BY <1>5, <2>1
    <3>2. "env" \in Place \ {"current"}
      BY <1>4
    <3>3. QED BY <3>1, <3>2 DEF AppsUndo
  <2>2. CASE e > 3 + Start
    <3>1. \/ e = 3 + Start + Disable \/ e = 4 + Start + Disable
          \/ e = 5 + Start + Disable \/ e = 6 + Start + Disable
          \/ e = 7 + Start + Disable \/ e = 8 + Start + Disable \/ e = 9 + Start + Disable
      BY <1>5, <2>2
    <3>2. {"env", "unit", "snippet", "site"} \subseteq Place \ {"current"}
      BY <1>4
    <3>3. CASE e \in {7 + Start + Disable, 8 + Start + Disable, 9 + Start + Disable}
      BY <3>3 DEF AppsUndo
    <3>4. CASE e \in {3 + Start + Disable, 4 + Start + Disable,
                      5 + Start + Disable, 6 + Start + Disable}
      BY <3>2, <3>4 DEF AppsUndo
    <3>5. QED BY <3>1, <3>3, <3>4
  <2>3. QED BY <1>5, <2>1, <2>2
<1>7. CASE FromEnd(e) \in {<<"reload">>, <<"start">>, <<"daemon-reload">>, <<"disable">>, <<"stop">>}
  BY <1>7 DEF Proper, Step
<1>8. ASSUME NEW p \in Place \ {"current"}, FromEnd(e) = <<"write", p, before.place[p]>>
      PROVE  Proper(FromEnd(e))
  BY <1>1, <1>8 DEF Proper, Step
<1>9. ASSUME NEW v \in {Absent, before.place["current"]}, FromEnd(e) = <<"link", "current", v>>
      PROVE  Proper(FromEnd(e))
  BY <1>1, <1>2, <1>3, <1>4, <1>9 DEF Proper, Step
<1>10. QED BY <1>6, <1>7, <1>8, <1>9

\* So has all that install-vps may do.
LEMMA VpsProper ==
    ASSUME InstallTypeOK, HostFacts, script = "vps",
           NEW step \in {VpsPlan[i] : i \in 1..4} \cup {RestoreVps[i] : i \in 1..4}
                        \cup {VpsLink, VpsHttp, <<"reload">>, <<"certbot">>}
    PROVE  Proper(step)
<1>1. \A p \in Place : before.place[p] \in Content
  BY DEF InstallTypeOK
<1>2. run \in Content /\ 0 \in Content /\ Http \in Content
  BY InstallAssumption DEF InstallTypeOK, Content
<1>3. Place = {"link", "site", "hook"}
  BY DEF Place
<1> HIDE DEF Content
<1>4. CASE step \in {VpsLink, VpsHttp, <<"reload">>, <<"certbot">>}
  BY <1>2, <1>3, <1>4 DEF Proper, Step, VpsLink, VpsHttp
<1>5. CASE step \in {VpsPlan[i] : i \in 1..4}
  BY <1>2, <1>3, <1>5 DEF Proper, Step, VpsPlan
<1>6. CASE step \in {RestoreVps[i] : i \in 1..4}
  BY <1>1, <1>3, <1>6 DEF Proper, Step, RestoreVps
<1>7. QED BY <1>4, <1>5, <1>6

(***************************************************************************)
(* The next step of any of the four sequences is proper.                   *)
(***************************************************************************)
LEMMA HeadProper ==
    ASSUME InstallInv, InProgress
    PROVE  todo # <<>> /\ Head(todo) = FromEnd(Left) /\ Left \in Nat \ {0} /\ Proper(Head(todo))
<1>1. InstallTypeOK /\ HostFacts /\ todo \in Seq(Step) /\ todo # <<>>
  BY DEF InstallInv, InstallTypeOK, HostFacts
<1>2. Left \in Nat \ {0} /\ Head(todo) = FromEnd(Left)
  BY <1>1, FirstIsLast
<1>3. script \in {"apps", "vps"}
  BY <1>1 DEF InstallTypeOK
<1>4. CASE phase = "installing" /\ script = "apps"
  <2>1. run >= 1 /\ InstallingApps
    BY <1>4 DEF InstallInv, HostFacts, WholeReleases
  <2>2. Left \in 1..13 /\ 14 - Left \in 1..13 /\ (14 - Left >= 2 => run \in releases)
    BY <1>2, <2>1 DEF InstallingApps, AppsDone
  <2>3. FromEnd(Left) = AppsPlan[14 - Left]
    BY <2>1, <2>2 DEF InstallingApps
  <2>4. QED BY <1>1, <1>2, <1>4, <2>1, <2>2, <2>3, AppsPlanProper
<1>5. CASE phase = "installing" /\ script = "vps"
  <2>1. InstallingVps
    BY <1>5 DEF InstallInv
  <2>2. FromEnd(Left) \in {VpsPlan[i] : i \in 1..4}
                          \cup {VpsLink, VpsHttp, <<"reload">>, <<"certbot">>}
    <3>1. CASE Left <= 4
      <4>1. 5 - Left \in 1..4 /\ FromEnd(Left) = VpsPlan[5 - Left]
        BY <1>2, <2>1, <3>1 DEF InstallingVps
      <4>2. QED BY <4>1
    <3>2. CASE Left > 4
      BY <1>2, <2>1, <3>2 DEF InstallingVps
    <3>3. QED BY <1>2, <3>1, <3>2
  <2>3. QED BY <1>1, <1>2, <1>5, <2>2, VpsProper
<1>6. CASE phase = "restoring" /\ script = "apps"
  <2>1. RestoringApps
    BY <1>6 DEF InstallInv
  <2>2. Left <= 9 + Start + Disable /\ AppsUndo(Left)
    BY <1>2, <2>1 DEF RestoringApps
  <2>3. QED BY <1>1, <1>2, <1>6, <2>2, AppsUndoProper
<1>7. CASE phase = "restoring" /\ script = "vps"
  <2>1. RestoringVps
    BY <1>7 DEF InstallInv
  <2>2. 5 - Left \in 1..4 /\ FromEnd(Left) = RestoreVps[5 - Left]
    BY <1>2, <2>1 DEF RestoringVps
  <2>3. QED BY <1>1, <1>2, <1>7, <2>2, VpsProper
<1>8. QED BY <1>1, <1>2, <1>3, <1>4, <1>5, <1>6, <1>7 DEF InProgress

-----------------------------------------------------------------------------
(* What a step does to the host. *)

\* What each kind of step changes, and that it changes nothing else.
LEMMA Performing ==
    ASSUME NEW step, Perform(step)
    PROVE  /\ step[1] \in {"link", "write"} =>
                place' = [place EXCEPT ![step[2]] = step[3]]
                /\ UNCHANGED <<releases, cert, loaded, enabled, proc, nginx>>
           /\ step[1] = "copy" =>
                releases' = releases \cup {run}
                /\ UNCHANGED <<place, loaded, enabled, proc, nginx>>
                /\ cert' = (cert \/ FALSE)
           /\ step[1] = "certbot" =>
                cert' = TRUE /\ UNCHANGED <<place, releases, loaded, enabled, proc, nginx>>
           /\ step[1] = "daemon-reload" =>
                loaded' = place["unit"]
                /\ UNCHANGED <<place, releases, cert, enabled, proc, nginx>>
           /\ step[1] \in {"start", "stop"} =>
                proc' = (IF step[1] = "start" /\ Startable THEN Started(loaded) ELSE Absent)
                /\ UNCHANGED <<place, releases, cert, loaded, enabled, nginx>>
           /\ step[1] \in {"enable", "disable"} =>
                enabled' = (step[1] = "enable")
                /\ UNCHANGED <<place, releases, cert, loaded, proc, nginx>>
           /\ step[1] = "reload" =>
                nginx' = Served /\ UNCHANGED <<place, releases, cert, loaded, enabled, proc>>
           /\ step[1] = "check" =>
                UNCHANGED <<place, releases, cert, loaded, enabled, proc, nginx>>
BY DEF Perform, files, running

\* A service that starts runs a release and read its files.
LEMMA StartedType ==
    ASSUME HostTypeOK, WholeReleases, script = "apps", Startable
    PROVE  LET p == Started(loaded) IN
           /\ p # Absent
           /\ p.current \in Nat /\ {p.env, p.unit} \subseteq Nat \cup {Torn}
<1>1. place["current"] \in Nat
  <2>1. place["current"] \in 1..MaxRuns
    BY DEF HostTypeOK, WholeReleases, Startable
  <2>2. QED BY <2>1, InstallAssumption
<1>2. place["env"] \in Nat \cup {Torn} /\ loaded \in Nat \cup {Torn}
  BY DEF HostTypeOK, WholeReleases, Startable, Place, Content
<1>3. Started(loaded) \in [current : Nat, env : Nat \cup {Torn}, unit : Nat \cup {Torn}]
  BY <1>1, <1>2 DEF Started
<1>4. QED BY <1>3, InstallAssumption

\* What the web server serves is some content for each file.
LEMMA ServedType ==
    ASSUME HostTypeOK
    PROVE  Served \in [DOMAIN Served -> Content]
BY DEF HostTypeOK, Served, Restrict

(***************************************************************************)
(* A proper step keeps the host sound, however it ends.                    *)
(***************************************************************************)
LEMMA HostAfter ==
    ASSUME HostTypeOK, WholeReleases, run \in 1..MaxRuns, NEW step, Proper(step),
           Perform(step) \/ Broken(step), UNCHANGED <<script, run, before>>
    PROVE  HostTypeOK' /\ WholeReleases'
<1>1. Place' = Place /\ DOMAIN Served' = DOMAIN Served
  BY DEF Place, Served, Restrict
<1>2. ASSUME NEW p \in Place, NEW v \in Content,
             script = "apps" => v # Http /\ (p = "current" => v \in releases \cup {Absent}),
             place' = [place EXCEPT ![p] = v],
             UNCHANGED <<releases, cert, loaded, enabled, proc, nginx>>
      PROVE  HostTypeOK' /\ WholeReleases'
  <2>1. HostTypeOK'
    BY <1>1, <1>2 DEF HostTypeOK
  <2>2. WholeReleases'
    BY <1>1, <1>2 DEF HostTypeOK, WholeReleases
  <2>3. QED BY <2>1, <2>2
<1>3. CASE UNCHANGED <<place, releases, cert, loaded, enabled, proc, nginx>>
  BY <1>1, <1>3 DEF HostTypeOK, WholeReleases
<1>4. CASE Perform(step)
  <2>1. CASE step[1] \in {"link", "write"}
    <3>1. step[2] \in Place /\ step[3] \in Content
      BY <2>1 DEF Proper, Step
    <3>2. script = "apps" => step[3] # Http /\ (step[2] = "current" => step[3] \in releases \cup {Absent})
      BY <2>1 DEF Proper
    <3>3. place' = [place EXCEPT ![step[2]] = step[3]]
          /\ UNCHANGED <<releases, cert, loaded, enabled, proc, nginx>>
      BY <1>4, <2>1, Performing
    <3>4. QED BY <1>2, <3>1, <3>2, <3>3
  <2>2. CASE step[1] \in {"copy", "certbot"}
    BY <1>1, <1>4, <2>2, Performing DEF HostTypeOK, WholeReleases
  <2>3. CASE step[1] = "daemon-reload"
    <3>1. script = "apps" /\ place["unit"] \in Content \ {Http}
      BY <2>3 DEF Proper, HostTypeOK, WholeReleases, Place
    <3>2. QED BY <1>1, <1>4, <2>3, <3>1, Performing DEF HostTypeOK, WholeReleases
  <2>4. CASE step[1] \in {"start", "stop"}
    <3>1. script = "apps"
      BY <2>4 DEF Proper, HostTypeOK
    <3>2. \/ proc' = Absent
          \/ proc'.current \in Nat /\ {proc'.env, proc'.unit} \subseteq Nat \cup {Torn}
      BY <1>4, <2>4, <3>1, Performing, StartedType
    <3>3. QED BY <1>1, <1>4, <2>4, <3>1, <3>2, Performing DEF HostTypeOK, WholeReleases
  <2>5. CASE step[1] \in {"enable", "disable"}
    <3>1. script = "apps"
      BY <2>5 DEF Proper, HostTypeOK
    <3>2. QED BY <1>1, <1>4, <2>5, <3>1, Performing DEF HostTypeOK, WholeReleases
  <2>6. CASE step[1] = "reload"
    BY <1>1, <1>4, <2>6, Performing, ServedType DEF HostTypeOK, WholeReleases
  <2>7. CASE step[1] = "check"
    BY <1>3, <1>4, <2>7, Performing
  <2>8. step[1] \in {"link", "write", "copy", "certbot", "daemon-reload", "start", "stop",
                     "enable", "disable", "reload", "check"}
    BY DEF Proper, Step
  <2>9. QED BY <2>1, <2>2, <2>3, <2>4, <2>5, <2>6, <2>7, <2>8
<1>5. CASE Broken(step)
  <2>1. CASE UNCHANGED <<files, running>>
    BY <1>3, <2>1 DEF files, running
  <2>2. CASE step[1] = "write" /\ place' = [place EXCEPT ![step[2]] = Torn]
             /\ UNCHANGED <<releases, cert, running>>
    <3>1. step[2] \in Place /\ (script = "apps" => step[2] # "current")
      BY <2>2 DEF Proper, Step
    <3>2. Torn \in Content /\ Torn # Http
      BY InstallAssumption DEF Content
    <3>3. QED BY <1>2, <2>2, <3>1, <3>2 DEF running
  <2>3. CASE step[1] = "start" /\ proc' = Absent /\ UNCHANGED <<files, loaded, enabled, nginx>>
    BY <1>1, <2>3 DEF HostTypeOK, WholeReleases, files
  <2>4. QED BY <1>5, <2>1, <2>2, <2>3 DEF Broken
<1>6. QED BY <1>4, <1>5

-----------------------------------------------------------------------------
(* What the steps that are done have brought about. *)

(***************************************************************************)
(* The step at the head of todo as a value of its own.                     *)
(***************************************************************************)
LEMMA HeadPerformed ==
    ASSUME Perform(Head(todo))
    PROVE  \E s : s = Head(todo) /\ Perform(s)
BY DEF Perform

\* The first step left is some step, whatever its fields.
LEMMA HeadBroken ==
    ASSUME Broken(Head(todo))
    PROVE  \E s : s = Head(todo) /\ Broken(s)
BY DEF Broken

\* The plan of install-apps, step by step.
LEMMA AppsPlanSteps ==
    /\ AppsPlan[1] = <<"copy">>
    /\ AppsPlan[2] = <<"link", "current", Absent>>
    /\ AppsPlan[3] = <<"link", "current", run>>
    /\ AppsPlan[4] = <<"write", "env", run>>
    /\ AppsPlan[5] = <<"write", "unit", run>>
    /\ AppsPlan[6] = <<"write", "snippet", run>>
    /\ AppsPlan[7] = <<"write", "site", IF before.place["site"] = 0 THEN run ELSE before.place["site"]>>
    /\ AppsPlan[8] = <<"check">>
    /\ AppsPlan[9] = <<"daemon-reload">>
    /\ AppsPlan[10] = <<"start">>
    /\ AppsPlan[11] = <<"check">>
    /\ AppsPlan[12] = <<"enable">>
    /\ AppsPlan[13] = <<"reload">>
BY DEF AppsPlan

\* A step of install-apps that succeeds.
LEMMA AppsAdvance ==
    ASSUME InstallInv, script = "apps", phase = "installing", StepSucceeds
    PROVE  InstallingApps' /\ (Left = 1 => nginx' = Served')
<1>1. /\ todo # <<>> /\ Head(todo) = FromEnd(Left) /\ Left \in Nat \ {0}
      /\ Perform(Head(todo)) /\ todo \in Seq(Step)
      /\ todo' = Tail(todo) /\ UNCHANGED <<script, run, before>>
      /\ HostTypeOK /\ InstallingApps
  BY HeadProper DEF InstallInv, InProgress, StepSucceeds, InstallTypeOK, HostFacts, HostTypeOK
<1>2. Left' = Left - 1 /\ \A e \in 1..(Left - 1) : FromEnd(e)' = FromEnd(e)
  BY <1>1, TailKeepsEnd
<1>3. AppsPlan' = AppsPlan
  BY <1>1 DEF AppsPlan
<1>4. Left \in 1..13 /\ Head(todo) = AppsPlan[14 - Left] /\ AppsDone
  BY <1>1 DEF InstallingApps
<1>5. Left' <= 13 /\ \A e \in 1..Left' : FromEnd(e)' = AppsPlan'[14 - e]
  BY <1>1, <1>2, <1>3, <1>4 DEF InstallingApps
<1>6. place \in [{"current", "env", "unit", "snippet", "site"} -> Content]
  BY <1>1 DEF HostTypeOK, Place
<1>7. run >= 1 /\ run \in Nat /\ run' = run /\ before' = before
  BY <1>1, InstallAssumption DEF InstallInv, HostFacts, InstallTypeOK
<1>8. PICK step : step = Head(todo) /\ Perform(step)
  BY <1>1, HeadPerformed
<1>9. step[1] = "reload" => nginx' = Served'
  BY <1>1, <1>8, Performing DEF Served, Place
<1>10. Left = 1 => nginx' = Served'
  BY <1>4, <1>9, <1>8, AppsPlanSteps
<1>11. AppsDone'
  <2>1. CASE Left = 13
    <3>1. step = <<"copy">> /\ step[1] = "copy"
      BY <1>4, <2>1, <1>8, AppsPlanSteps
    <3>2. releases' = releases \cup {run} /\ UNCHANGED <<place, loaded, enabled, proc>>
      BY <1>8, <3>1, Performing
    <3>3. QED BY <1>2, <1>4, <1>6, <1>7, <2>1, <3>2 DEF AppsDone
  <2>2. CASE Left = 12
    <3>1. step[1] = "link" /\ step[2] = "current" /\ step[3] = Absent
      BY <1>4, <2>2, <1>8, AppsPlanSteps
    <3>2. place' = [place EXCEPT !["current"] = Absent] /\ UNCHANGED <<releases, loaded, enabled, proc>>
      BY <1>8, <3>1, Performing
    <3>3. QED BY <1>2, <1>4, <1>6, <1>7, <2>2, <3>2 DEF AppsDone
  <2>3. CASE Left = 11
    <3>1. step[1] = "link" /\ step[2] = "current" /\ step[3] = run
      BY <1>4, <2>3, <1>8, AppsPlanSteps
    <3>2. place' = [place EXCEPT !["current"] = run] /\ UNCHANGED <<releases, loaded, enabled, proc>>
      BY <1>8, <3>1, Performing
    <3>3. QED BY <1>2, <1>4, <1>6, <1>7, <2>3, <3>2 DEF AppsDone
  <2>4. CASE Left = 10
    <3>1. step[1] = "write" /\ step[2] = "env" /\ step[3] = run
      BY <1>4, <2>4, <1>8, AppsPlanSteps
    <3>2. place' = [place EXCEPT !["env"] = run] /\ UNCHANGED <<releases, loaded, enabled, proc>>
      BY <1>8, <3>1, Performing
    <3>3. QED BY <1>2, <1>4, <1>6, <1>7, <2>4, <3>2 DEF AppsDone
  <2>5. CASE Left = 9
    <3>1. step[1] = "write" /\ step[2] = "unit" /\ step[3] = run
      BY <1>4, <2>5, <1>8, AppsPlanSteps
    <3>2. place' = [place EXCEPT !["unit"] = run] /\ UNCHANGED <<releases, loaded, enabled, proc>>
      BY <1>8, <3>1, Performing
    <3>3. QED BY <1>2, <1>4, <1>6, <1>7, <2>5, <3>2 DEF AppsDone
  <2>6. CASE Left = 8
    <3>1. step[1] = "write" /\ step[2] = "snippet" /\ step[3] = run
      BY <1>4, <2>6, <1>8, AppsPlanSteps
    <3>2. place' = [place EXCEPT !["snippet"] = run] /\ UNCHANGED <<releases, loaded, enabled, proc>>
      BY <1>8, <3>1, Performing
    <3>3. QED BY <1>2, <1>4, <1>6, <1>7, <2>6, <3>2 DEF AppsDone
  <2>7. CASE Left = 7
    <3>1. /\ step[1] = "write" /\ step[2] = "site"
          /\ step[3] = IF before.place["site"] = 0 THEN run ELSE before.place["site"]
      BY <1>4, <2>7, <1>8, AppsPlanSteps
    <3>2. /\ place' = [place EXCEPT !["site"] =
                             IF before.place["site"] = 0 THEN run ELSE before.place["site"]]
          /\ UNCHANGED <<releases, loaded, enabled, proc>>
      BY <1>8, <3>1, Performing
    <3>3. QED BY <1>2, <1>4, <1>6, <1>7, <2>7, <3>2 DEF AppsDone
  <2>8. CASE Left = 6
    <3>1. step = <<"check">> /\ step[1] = "check"
      BY <1>4, <2>8, <1>8, AppsPlanSteps
    <3>2. UNCHANGED <<place, releases, loaded, enabled, proc>>
      BY <1>8, <3>1, Performing
    <3>3. QED BY <1>2, <1>4, <1>6, <1>7, <2>8, <3>2 DEF AppsDone
  <2>9. CASE Left = 5
    <3>1. step = <<"daemon-reload">> /\ step[1] = "daemon-reload"
      BY <1>4, <2>9, <1>8, AppsPlanSteps
    <3>2. loaded' = place["unit"] /\ UNCHANGED <<place, releases, enabled, proc>>
      BY <1>8, <3>1, Performing
    <3>3. QED BY <1>2, <1>4, <1>6, <1>7, <2>9, <3>2 DEF AppsDone
  <2>10. CASE Left = 4
    <3>1. step = <<"start">> /\ step[1] = "start"
      BY <1>4, <2>10, <1>8, AppsPlanSteps
    <3>2. /\ proc' = (IF Startable THEN Started(loaded) ELSE Absent)
          /\ UNCHANGED <<place, releases, loaded, enabled>>
      BY <1>8, <3>1, Performing
    <3>3. Startable /\ Started(loaded) = [current |-> run, env |-> run, unit |-> run]
      BY <1>4, <1>7, <2>10, InstallAssumption DEF AppsDone, Startable, Started
    <3>4. QED BY <1>2, <1>4, <1>7, <2>10, <3>2, <3>3 DEF AppsDone
  <2>11. CASE Left = 3
    <3>1. step = <<"check">> /\ step[1] = "check"
      BY <1>4, <2>11, <1>8, AppsPlanSteps
    <3>2. UNCHANGED <<place, releases, loaded, enabled, proc>>
      BY <1>8, <3>1, Performing
    <3>3. QED BY <1>2, <1>4, <1>6, <1>7, <2>11, <3>2 DEF AppsDone
  <2>12. CASE Left = 2
    <3>1. step = <<"enable">> /\ step[1] = "enable"
      BY <1>4, <2>12, <1>8, AppsPlanSteps
    <3>2. enabled' /\ UNCHANGED <<place, releases, loaded, proc>>
      BY <1>8, <3>1, Performing
    <3>3. QED BY <1>2, <1>4, <1>6, <1>7, <2>12, <3>2 DEF AppsDone
  <2>13. CASE Left = 1
    <3>1. step = <<"reload">> /\ step[1] = "reload"
      BY <1>4, <2>13, <1>8, AppsPlanSteps
    <3>2. UNCHANGED <<place, releases, loaded, enabled, proc>>
      BY <1>8, <3>1, Performing
    <3>3. QED BY <1>2, <1>4, <1>7, <2>13, <3>2 DEF AppsDone
  <2>14. QED
    BY <1>4, <2>1, <2>2, <2>3, <2>4, <2>5, <2>6, <2>7, <2>8, <2>9, <2>10, <2>11, <2>12, <2>13
<1>12. QED BY <1>5, <1>11, <1>10 DEF InstallingApps

\* A step of install-vps that succeeds.
LEMMA VpsAdvance ==
    ASSUME InstallInv, script = "vps", phase = "installing", StepSucceeds
    PROVE  InstallingVps' /\ (Left = 1 => place'["hook"] = run)
<1>1. /\ todo # <<>> /\ Head(todo) = FromEnd(Left) /\ Left \in Nat \ {0}
      /\ Perform(Head(todo)) /\ todo \in Seq(Step)
      /\ todo' = Tail(todo) /\ UNCHANGED <<script, run, before>>
      /\ HostTypeOK /\ InstallingVps
  BY HeadProper DEF InstallInv, InProgress, StepSucceeds, InstallTypeOK, HostFacts, HostTypeOK
<1>2. Left' = Left - 1 /\ \A e \in 1..(Left - 1) : FromEnd(e)' = FromEnd(e)
  BY <1>1, TailKeepsEnd
<1>3. VpsPlan' = VpsPlan /\ run' = run
  BY <1>1 DEF VpsPlan
<1>4. /\ VpsPlan[1] = <<"check">> /\ VpsPlan[2] = <<"write", "site", run>>
      /\ VpsPlan[3] = <<"reload">> /\ VpsPlan[4] = <<"write", "hook", run>>
  BY DEF VpsPlan
<1>5. PICK step : step = Head(todo) /\ Perform(step)
  BY <1>1, HeadPerformed
<1>6. place \in [{"link", "site", "hook"} -> Content]
  BY <1>1 DEF HostTypeOK, Place
<1>7. /\ Left = 4 => UNCHANGED <<place, nginx>>
      /\ Left = 3 => place' = [place EXCEPT !["site"] = run] /\ UNCHANGED nginx
      /\ Left = 2 => UNCHANGED place /\ nginx' = Served
      /\ Left = 1 => place' = [place EXCEPT !["hook"] = run] /\ UNCHANGED nginx
  <2>1. Left <= 4 => step = VpsPlan[5 - Left]
    BY <1>1, <1>5 DEF InstallingVps
  <2>2. CASE Left = 4
    <3>1. step[1] = "check"
      BY <1>4, <2>1, <2>2
    <3>2. UNCHANGED <<place, nginx>>
      BY <1>5, <3>1, Performing
    <3>3. QED BY <2>2, <3>2
  <2>3. CASE Left = 3
    <3>1. step[1] = "write" /\ step[2] = "site" /\ step[3] = run
      BY <1>4, <2>1, <2>3
    <3>2. place' = [place EXCEPT !["site"] = run] /\ UNCHANGED nginx
      BY <1>5, <3>1, Performing
    <3>3. QED BY <2>3, <3>2
  <2>4. CASE Left = 2
    <3>1. step[1] = "reload"
      BY <1>4, <2>1, <2>4
    <3>2. UNCHANGED place /\ nginx' = Served
      BY <1>5, <3>1, Performing
    <3>3. QED BY <2>4, <3>2
  <2>5. CASE Left = 1
    <3>1. step[1] = "write" /\ step[2] = "hook" /\ step[3] = run
      BY <1>4, <2>1, <2>5
    <3>2. place' = [place EXCEPT !["hook"] = run] /\ UNCHANGED nginx
      BY <1>5, <3>1, Performing
    <3>3. QED BY <2>5, <3>2
  <2>6. QED BY <2>2, <2>3, <2>4, <2>5
<1>8. Left > 4 => step \in {VpsLink, VpsHttp, <<"reload">>, <<"certbot">>}
  BY <1>1, <1>5 DEF InstallingVps
<1>9. \A e \in 1..Left' : IF e <= 4 THEN FromEnd(e)' = VpsPlan'[5 - e]
                          ELSE FromEnd(e)' \in {VpsLink, VpsHttp, <<"reload">>, <<"certbot">>}
  BY <1>1, <1>2, <1>3 DEF InstallingVps
<1>10. place'["link"] # Absent \/ \E e \in 5..Left' : FromEnd(e)' = VpsLink
  <2>1. CASE step = VpsLink
    <3>1. step[1] = "link" /\ step[2] = "link" /\ step[3] = 0
      BY <2>1 DEF VpsLink
    <3>2. place' = [place EXCEPT !["link"] = 0]
      BY <1>5, <3>1, Performing
    <3>3. QED BY <1>6, <3>2, InstallAssumption
  <2>2. CASE step # VpsLink
    <3>1. place'["link"] = place["link"]
      <4>1. CASE Left > 4
        <5>1. CASE step = VpsHttp
          <6>1. step[1] = "write" /\ step[2] = "site" /\ step[3] = Http
            BY <5>1 DEF VpsHttp
          <6>2. place' = [place EXCEPT !["site"] = Http]
            BY <1>5, <6>1, Performing
          <6>3. QED BY <1>6, <6>2
        <5>2. CASE step \in {<<"reload">>, <<"certbot">>}
          <6>1. step[1] \in {"reload", "certbot"}
            BY <5>2
          <6>2. QED BY <1>5, <6>1, Performing
        <5>3. QED BY <1>8, <2>2, <4>1, <5>1, <5>2
      <4>2. CASE Left \in {1, 3}
        BY <1>6, <1>7, <4>2
      <4>3. CASE Left \in {2, 4}
        BY <1>7, <4>3
      <4>4. QED BY <1>1, <4>1, <4>2, <4>3
    <3>2. place["link"] = Absent => \E e \in 5..Left' : FromEnd(e)' = VpsLink
      <4>1. ASSUME NEW e \in 5..Left, FromEnd(e) = VpsLink PROVE e \in 5..Left' /\ FromEnd(e)' = VpsLink
        BY <1>1, <1>2, <1>5, <2>2, <4>1
      <4>2. QED BY <1>1, <4>1 DEF InstallingVps
    <3>3. QED BY <3>1, <3>2
  <2>3. QED BY <2>1, <2>2
<1>11. cert' \/ \E e \in 5..Left' : FromEnd(e)' = <<"certbot">>
  <2>1. CASE step = <<"certbot">>
    <3>1. step[1] = "certbot"
      BY <2>1
    <3>2. QED BY <1>5, <3>1, Performing
  <2>2. CASE step # <<"certbot">>
    <3>1. cert => cert'
      BY <1>5 DEF Perform, files
    <3>2. ~cert => \E e \in 5..Left' : FromEnd(e)' = <<"certbot">>
      <4>1. ASSUME NEW e \in 5..Left, FromEnd(e) = <<"certbot">>
            PROVE  e \in 5..Left' /\ FromEnd(e)' = <<"certbot">>
        BY <1>1, <1>2, <1>5, <2>2, <4>1
      <4>2. QED BY <1>1, <4>1 DEF InstallingVps
    <3>3. QED BY <3>1, <3>2
  <2>3. QED BY <2>1, <2>2
<1>12. Left' <= 2 => place'["site"] = run
  <2>1. CASE Left = 3
    BY <1>6, <1>7, <2>1
  <2>2. CASE Left = 2
    BY <1>1, <1>7, <2>2 DEF InstallingVps
  <2>3. CASE Left = 1
    <3>1. place["site"] = run /\ place' = [place EXCEPT !["hook"] = run]
      BY <1>1, <1>7, <2>3 DEF InstallingVps
    <3>2. QED BY <1>6, <3>1
  <2>4. QED BY <1>1, <1>2, <2>1, <2>2, <2>3
<1>13. Left' <= 1 => nginx'["site"] = run /\ nginx'["link"] # Absent
  <2>1. CASE Left = 2
    <3>1. place["site"] = run /\ place["link"] # Absent
      <4>1. 5..Left = {}
        BY <2>1
      <4>2. QED BY <1>1, <2>1, <4>1 DEF InstallingVps
    <3>2. /\ "site" \in Place \cap {"snippet", "link", "site"}
          /\ "link" \in Place \cap {"snippet", "link", "site"}
      BY <1>1 DEF Place
    <3>3. Served["site"] = place["site"] /\ Served["link"] = place["link"]
      BY <3>2 DEF Served, Restrict
    <3>4. QED BY <1>7, <2>1, <3>1, <3>3
  <2>2. CASE Left = 1
    BY <1>1, <1>7, <2>2 DEF InstallingVps
  <2>3. QED BY <1>1, <1>2, <2>1, <2>2
<1>14. Left = 1 => place'["hook"] = run
  BY <1>6, <1>7
<1>15. QED BY <1>3, <1>9, <1>10, <1>11, <1>12, <1>13, <1>14 DEF InstallingVps, VpsLink, VpsHttp

\* A step of the restoration of install-apps that succeeds.
LEMMA AppsUndoAdvance ==
    ASSUME InstallInv, script = "apps", phase = "restoring", StepSucceeds
    PROVE  RestoringApps' /\ (Left = 1 => nginx' = Served')
<1>1. /\ todo # <<>> /\ Head(todo) = FromEnd(Left) /\ Left \in Nat \ {0}
      /\ Perform(Head(todo)) /\ todo \in Seq(Step)
      /\ todo' = Tail(todo) /\ UNCHANGED <<script, run, before>>
      /\ HostTypeOK /\ WholeReleases /\ RestoringApps
      /\ {before.active, before.enabled} \subseteq BOOLEAN
  BY HeadProper DEF InstallInv, InProgress, StepSucceeds, InstallTypeOK, HostFacts, HostTypeOK
<1>2. Left' = Left - 1 /\ \A e \in 1..(Left - 1) : FromEnd(e)' = FromEnd(e)
  BY <1>1, TailKeepsEnd
<1>3. /\ Start \in 0..1 /\ (Start = 1 <=> before.active) /\ Start' = Start
      /\ Disable \in 0..1 /\ (Disable = 0 <=> before.enabled) /\ Disable' = Disable
      /\ before' = before
  BY <1>1 DEF Start, Disable
<1>4. PICK step : step = Head(todo) /\ Perform(step)
  BY <1>1, HeadPerformed
<1>5. Left \in 1..(9 + Start + Disable) /\ AppsUndone
  BY <1>1 DEF RestoringApps
<1>6. AppsUndo(Left) /\ step = FromEnd(Left)
  BY <1>1, <1>4, <1>5 DEF RestoringApps
<1>7. \A e \in 1..Left' : AppsUndo(e)'
  <2> SUFFICES ASSUME NEW e \in 1..Left' PROVE AppsUndo(e)'
    OBVIOUS
  <2>1. e \in 1..Left /\ FromEnd(e)' = FromEnd(e)
    BY <1>1, <1>2
  <2>2. AppsUndo(e)
    BY <1>1, <2>1 DEF RestoringApps
  <2>3. QED BY <1>3, <2>1, <2>2 DEF AppsUndo
<1>8. place \in [{"current", "env", "unit", "snippet", "site"} -> Content]
  BY <1>1 DEF HostTypeOK, Place
<1>9. AppsUndone'
  <2>1. CASE Left = 9 + Start + Disable
    <3>1. step[1] = "stop"
      BY <1>6, <2>1 DEF AppsUndo
    <3>2. proc' = Absent /\ UNCHANGED <<place, loaded, enabled>>
      BY <1>4, <3>1, Performing
    <3>3. QED BY <1>2, <1>3, <1>5, <1>8, <2>1, <3>2 DEF AppsUndone
  <2>2. CASE Left = 8 + Start + Disable
    <3>1. step[1] = "link" /\ step[2] = "current" /\ step[3] = Absent
      BY <1>6, <2>2 DEF AppsUndo
    <3>2. place' = [place EXCEPT !["current"] = Absent]
          /\ UNCHANGED <<loaded, enabled, proc>>
      BY <1>4, <3>1, Performing
    <3>3. QED BY <1>2, <1>3, <1>5, <1>8, <2>2, <3>2 DEF AppsUndone
  <2>3. CASE Left = 7 + Start + Disable
    <3>1. step[1] = "link" /\ step[2] = "current" /\ step[3] = before.place["current"]
      BY <1>6, <2>3 DEF AppsUndo
    <3>2. place' = [place EXCEPT !["current"] = before.place["current"]]
          /\ UNCHANGED <<loaded, enabled, proc>>
      BY <1>4, <3>1, Performing
    <3>3. QED BY <1>2, <1>3, <1>5, <1>8, <2>3, <3>2 DEF AppsUndone
  <2>4. CASE Left = 6 + Start + Disable
    <3>1. step[1] = "write" /\ step[2] = "site" /\ step[3] = before.place["site"]
      BY <1>6, <2>4 DEF AppsUndo
    <3>2. place' = [place EXCEPT !["site"] = before.place["site"]]
          /\ UNCHANGED <<loaded, enabled, proc>>
      BY <1>4, <3>1, Performing
    <3>3. QED BY <1>2, <1>3, <1>5, <1>8, <2>4, <3>2 DEF AppsUndone
  <2>5. CASE Left = 5 + Start + Disable
    <3>1. step[1] = "write" /\ step[2] = "snippet" /\ step[3] = before.place["snippet"]
      BY <1>6, <2>5 DEF AppsUndo
    <3>2. place' = [place EXCEPT !["snippet"] = before.place["snippet"]]
          /\ UNCHANGED <<loaded, enabled, proc>>
      BY <1>4, <3>1, Performing
    <3>3. QED BY <1>2, <1>3, <1>5, <1>8, <2>5, <3>2 DEF AppsUndone
  <2>6. CASE Left = 4 + Start + Disable
    <3>1. step[1] = "write" /\ step[2] = "unit" /\ step[3] = before.place["unit"]
      BY <1>6, <2>6 DEF AppsUndo
    <3>2. place' = [place EXCEPT !["unit"] = before.place["unit"]]
          /\ UNCHANGED <<loaded, enabled, proc>>
      BY <1>4, <3>1, Performing
    <3>3. QED BY <1>2, <1>3, <1>5, <1>8, <2>6, <3>2 DEF AppsUndone
  <2>7. CASE Left = 3 + Start + Disable
    <3>1. step[1] = "write" /\ step[2] = "env" /\ step[3] = before.place["env"]
      BY <1>6, <2>7 DEF AppsUndo
    <3>2. place' = [place EXCEPT !["env"] = before.place["env"]]
          /\ UNCHANGED <<loaded, enabled, proc>>
      BY <1>4, <3>1, Performing
    <3>3. Disable = 0 => enabled = before.enabled
      BY <1>1, <1>3, <1>5 DEF AppsUndone, HostTypeOK
    <3>4. QED BY <1>2, <1>3, <1>5, <1>8, <2>7, <3>2, <3>3 DEF AppsUndone
  <2>8. CASE Left = 3 + Start /\ Disable = 1
    <3>1. step[1] = "disable"
      BY <1>6, <2>8 DEF AppsUndo
    <3>2. enabled' = FALSE /\ UNCHANGED <<place, loaded, proc>>
      BY <1>4, <3>1, Performing
    <3>3. before.enabled = FALSE /\ before'.enabled = FALSE
      BY <1>1, <1>3, <2>8
    <3>4. enabled' = before'.enabled /\ ~before'.enabled
      BY <3>2, <3>3
    <3>5. UNCHANGED <<place, proc>> /\ Left' = 2 + Start
      BY <1>2, <1>3, <2>8, <3>2
    <3>6. QED BY <1>3, <1>5, <2>8, <3>4, <3>5 DEF AppsUndone
  <2>9. CASE Left = 2 + Start
    <3>1. step[1] = "daemon-reload"
      BY <1>6, <2>9 DEF AppsUndo
    <3>2. loaded' = place["unit"] /\ UNCHANGED <<place, enabled, proc>>
      BY <1>4, <3>1, Performing
    <3>3. QED BY <1>2, <1>3, <1>5, <2>9, <3>2 DEF AppsUndone
  <2>10. CASE Left = 2 /\ Start = 1
    <3>1. step[1] = "start"
      BY <1>6, <2>10 DEF AppsUndo
    <3>2. proc' = (IF Startable THEN Started(loaded) ELSE Absent) /\ UNCHANGED <<place, loaded, enabled>>
      BY <1>4, <3>1, Performing
    <3>3. Startable => Started(loaded) # Absent
      BY <1>1, StartedType
    <3>4. Startable' <=> Startable
      BY <3>2 DEF Startable
    <3>5. (proc' # Absent) <=> (before.active /\ Startable')
      BY <1>3, <2>10, <3>2, <3>3, <3>4
    <3>6. QED BY <1>2, <1>3, <1>5, <2>10, <3>2, <3>5 DEF AppsUndone
  <2>11. CASE Left = 1
    <3>1. step[1] = "reload"
      BY <1>6, <2>11 DEF AppsUndo
    <3>2. UNCHANGED <<place, loaded, enabled, proc>>
      BY <1>4, <3>1, Performing
    <3>3. Startable' <=> Startable
      BY <3>2 DEF Startable
    <3>4. QED BY <1>2, <1>3, <1>5, <2>11, <3>2, <3>3 DEF AppsUndone
  <2>12. QED
    BY <1>3, <1>5, <2>1, <2>2, <2>3, <2>4, <2>5, <2>6, <2>7, <2>8, <2>9, <2>10, <2>11
<1>10. Left' <= 9 + Start' + Disable'
  BY <1>2, <1>3, <1>5
<1>11. Left = 1 => nginx' = Served'
  <2>1. ASSUME Left = 1 PROVE step[1] = "reload"
    BY <1>6, <2>1 DEF AppsUndo
  <2>2. step[1] = "reload" => nginx' = Served'
    BY <1>1, <1>4, Performing DEF Served, Place
  <2>3. QED BY <2>1, <2>2
<1>12. QED BY <1>7, <1>9, <1>10, <1>11 DEF RestoringApps

\* A step of the restoration of install-vps that succeeds.
LEMMA VpsUndoAdvance ==
    ASSUME InstallInv, script = "vps", phase = "restoring", StepSucceeds
    PROVE  RestoringVps' /\ (Left = 1 => nginx' = Served')
<1>1. /\ todo # <<>> /\ Head(todo) = FromEnd(Left) /\ Left \in Nat \ {0}
      /\ Perform(Head(todo)) /\ todo \in Seq(Step)
      /\ todo' = Tail(todo) /\ UNCHANGED <<script, run, before>>
      /\ HostTypeOK /\ RestoringVps
  BY HeadProper DEF InstallInv, InProgress, StepSucceeds, InstallTypeOK, HostFacts, HostTypeOK
<1>2. Left' = Left - 1 /\ \A e \in 1..(Left - 1) : FromEnd(e)' = FromEnd(e)
  BY <1>1, TailKeepsEnd
<1>3. RestoreVps' = RestoreVps /\ before' = before
  BY <1>1 DEF RestoreVps
<1>4. /\ RestoreVps[1] = <<"link", "link", before.place["link"]>>
      /\ RestoreVps[2] = <<"write", "site", before.place["site"]>>
      /\ RestoreVps[3] = <<"write", "hook", before.place["hook"]>>
      /\ RestoreVps[4] = <<"reload">>
  BY DEF RestoreVps
<1>5. PICK step : step = Head(todo) /\ Perform(step)
  BY <1>1, HeadPerformed
<1>6. place \in [{"link", "site", "hook"} -> Content]
  BY <1>1 DEF HostTypeOK, Place
<1>7. Left \in 1..4 /\ step = RestoreVps[5 - Left]
  BY <1>1, <1>5 DEF RestoringVps
<1>8. Left' <= 4 /\ \A e \in 1..Left' : FromEnd(e)' = RestoreVps'[5 - e]
  BY <1>1, <1>2, <1>3, <1>7 DEF RestoringVps
<1>9. /\ Left' <= 3 => place'["link"] = before'.place["link"]
      /\ Left' <= 2 => place'["site"] = before'.place["site"]
      /\ Left' <= 1 => place'["hook"] = before'.place["hook"]
  <2>1. CASE Left = 4
    <3>1. step[1] = "link" /\ step[2] = "link" /\ step[3] = before.place["link"]
      BY <1>4, <1>7, <2>1
    <3>2. place' = [place EXCEPT !["link"] = before.place["link"]]
      BY <1>5, <3>1, Performing
    <3>3. QED BY <1>1, <1>2, <1>3, <1>6, <2>1, <3>2 DEF RestoringVps
  <2>2. CASE Left = 3
    <3>1. step[1] = "write" /\ step[2] = "site" /\ step[3] = before.place["site"]
      BY <1>4, <1>7, <2>2
    <3>2. place' = [place EXCEPT !["site"] = before.place["site"]]
      BY <1>5, <3>1, Performing
    <3>3. QED BY <1>1, <1>2, <1>3, <1>6, <2>2, <3>2 DEF RestoringVps
  <2>3. CASE Left = 2
    <3>1. step[1] = "write" /\ step[2] = "hook" /\ step[3] = before.place["hook"]
      BY <1>4, <1>7, <2>3
    <3>2. place' = [place EXCEPT !["hook"] = before.place["hook"]]
      BY <1>5, <3>1, Performing
    <3>3. QED BY <1>1, <1>2, <1>3, <1>6, <2>3, <3>2 DEF RestoringVps
  <2>4. CASE Left = 1
    <3>1. step[1] = "reload"
      BY <1>4, <1>7, <2>4
    <3>2. UNCHANGED place
      BY <1>5, <3>1, Performing
    <3>3. QED BY <1>1, <1>2, <1>3, <2>4, <3>2 DEF RestoringVps
  <2>5. QED BY <1>7, <2>1, <2>2, <2>3, <2>4
<1>10. Left = 1 => nginx' = Served'
  <2>1. ASSUME Left = 1 PROVE step[1] = "reload"
    BY <1>4, <1>7, <2>1
  <2>2. step[1] = "reload" => nginx' = Served'
    BY <1>1, <1>5, Performing DEF Served, Place
  <2>3. QED BY <2>1, <2>2
<1>11. QED BY <1>8, <1>9, <1>10 DEF RestoringVps

-----------------------------------------------------------------------------
(* What a sequence starts from. *)

\* install-apps begins with the facts of its first step.
LEMMA AppsBegin ==
    ASSUME InstallInv, script = "apps", BeginInstall
    PROVE  InstallingApps' /\ todo' \in Seq(Step') /\ todo' # <<>>
<1>1. /\ script' = script /\ place' = place /\ enabled' = enabled
      /\ run' = run + 1 /\ before' = Found /\ todo' = AppsSteps(run')
  BY DEF BeginInstall, files, running
<1>2. before'.place = place /\ before'.enabled = enabled
  BY <1>1 DEF Found
<1>3. todo' = AppsPlan'
  BY <1>1, <1>2 DEF AppsSteps, AppsPlan
<1>4. Left' = 13 /\ \A e \in 1..13 : FromEnd(e)' = AppsPlan'[14 - e]
  <2>1. Len(AppsPlan') = 13
    BY DEF AppsPlan
  <2>2. QED BY <1>3, <2>1 DEF Left, FromEnd
<1>5. todo' \in Seq(Step')
  <2>1. Step' = Step /\ Place = {"current", "env", "unit", "snippet", "site"}
    BY <1>1 DEF Step, Place
  <2>2. Absent \in Content /\ run' \in Content /\ place["site"] \in Content
    BY <1>1, <2>1, InstallAssumption DEF InstallInv, InstallTypeOK, Content
  <2>3. /\ \A k \in {"copy", "check", "daemon-reload", "start", "enable", "reload"} : <<k>> \in Step
        /\ \A v \in Content : <<"link", "current", v>> \in Step
        /\ \A v \in Content : \A p \in Place : <<"write", p, v>> \in Step
    BY <2>1 DEF Step
  <2>4. PICK r \in Content, w \in Content :
           r = run' /\ w = IF before'.place["site"] = 0 THEN run' ELSE before'.place["site"]
    BY <1>2, <2>2
  <2> HIDE DEF Content
  <2>5. /\ <<"copy">> \in Step /\ <<"link", "current", Absent>> \in Step
        /\ <<"link", "current", r>> \in Step /\ <<"write", "env", r>> \in Step
        /\ <<"write", "unit", r>> \in Step /\ <<"write", "snippet", r>> \in Step
        /\ <<"write", "site", w>> \in Step /\ <<"check">> \in Step
        /\ <<"daemon-reload">> \in Step /\ <<"start">> \in Step
        /\ <<"enable">> \in Step /\ <<"reload">> \in Step
    BY <2>1, <2>2, <2>3
  <2> HIDE DEF Step
  <2>6. << <<"copy">>, <<"link", "current", Absent>>, <<"link", "current", r>>,
           <<"write", "env", r>>, <<"write", "unit", r>>, <<"write", "snippet", r>>,
           <<"write", "site", w>>, <<"check">>, <<"daemon-reload">>, <<"start">>,
           <<"check">>, <<"enable">>, <<"reload">> >> \in Seq(Step)
    BY <2>5
  <2>7. QED BY <1>3, <2>1, <2>4, <2>6 DEF AppsPlan
<1>6. AppsDone'
  BY <1>1, <1>2, <1>4 DEF AppsDone
<1>7. todo' # <<>>
  BY <1>4, EmptySeq DEF Left
<1>8. QED BY <1>4, <1>5, <1>6, <1>7 DEF InstallingApps

\* Where the elements of a concatenation are.
LEMMA Joined ==
    ASSUME NEW S, NEW s \in Seq(S), NEW t \in Seq(S)
    PROVE  /\ s \o t \in Seq(S) /\ Len(s \o t) = Len(s) + Len(t)
           /\ \A i \in 1..Len(s) : (s \o t)[i] = s[i]
           /\ \A i \in 1..Len(t) : (s \o t)[Len(s) + i] = t[i]
<1>1. Len(s) \in Nat /\ Len(t) \in Nat
  BY LenProperties
<1>2. /\ s \o t \in Seq(S) /\ Len(s \o t) = Len(s) + Len(t)
      /\ \A i \in 1..Len(s) + Len(t) : (s \o t)[i] = IF i <= Len(s) THEN s[i] ELSE t[i - Len(s)]
  BY ConcatProperties
<1>3. ASSUME NEW i \in 1..Len(t) PROVE (s \o t)[Len(s) + i] = t[i]
  <2>1. /\ Len(s) + i \in 1..Len(s) + Len(t) /\ ~(Len(s) + i <= Len(s))
        /\ (Len(s) + i) - Len(s) = i
    BY <1>1
  <2>2. QED BY <1>2, <2>1
<1>4. ASSUME NEW i \in 1..Len(s) PROVE (s \o t)[i] = s[i]
  <2>1. i \in 1..Len(s) + Len(t) /\ i <= Len(s)
    BY <1>1
  <2>2. QED BY <1>2, <2>1
<1>5. QED BY <1>2, <1>3, <1>4

\* install-vps begins with the facts of its first step.
LEMMA VpsBegin ==
    ASSUME InstallInv, script = "vps", BeginInstall
    PROVE  InstallingVps' /\ todo' \in Seq(Step') /\ todo' # <<>>
<1> DEFINE Kinds == {VpsLink, VpsHttp, <<"reload">>, <<"certbot">>}
           A == IF place["link"] = Absent THEN << VpsLink >> ELSE <<>>
           B == IF cert THEN <<>> ELSE << VpsHttp, <<"reload">>, <<"certbot">> >>
<1>1. /\ script' = script /\ place' = place /\ cert' = cert
      /\ run' = run + 1 /\ todo' = VpsSteps(run') /\ cert \in BOOLEAN
  BY DEF BeginInstall, files, running, InstallInv, InstallTypeOK
<1>2. todo' = (A \o B) \o VpsPlan'
  BY <1>1 DEF VpsSteps, VpsPlan, VpsLink, VpsHttp
<1>3. PICK a \in Seq(Kinds) : a = A /\ (place["link"] = Absent => Len(a) = 1 /\ a[1] = VpsLink)
  <2>1. CASE place["link"] = Absent
    <3>1. A = << VpsLink >> /\ << VpsLink >> \in Seq(Kinds)
      BY <2>1
    <3>2. Len(A) = 1 /\ A[1] = VpsLink
      BY <3>1
    <3>3. QED BY <3>1, <3>2
  <2>2. CASE place["link"] # Absent
    <3>1. A = << >> /\ << >> \in Seq(Kinds)
      BY <2>2
    <3>2. QED BY <2>2, <3>1
  <2>3. QED BY <2>1, <2>2
<1>4. PICK b \in Seq(Kinds) : b = B /\ (~cert => Len(b) = 3 /\ b[3] = <<"certbot">>)
  <2>1. CASE ~cert
    <3> DEFINE t == << VpsHttp, <<"reload">>, <<"certbot">> >>
    <3>1. B = t /\ t \in Seq(Kinds) /\ Len(t) = 3 /\ t[3] = <<"certbot">>
      BY <2>1
    <3>2. QED BY <3>1
  <2>2. CASE cert
    <3>1. B = << >> /\ << >> \in Seq(Kinds)
      BY <2>2
    <3>2. QED BY <2>2, <3>1
  <2>3. QED BY <2>1, <2>2
<1>5. VpsPlan' \in Seq(Step) /\ Len(VpsPlan') = 4
  <2>1. run' \in Content /\ "site" \in Place /\ "hook" \in Place
    BY <1>1, InstallAssumption DEF InstallInv, InstallTypeOK, Content, Place
  <2>2. QED BY <2>1 DEF VpsPlan, Step
<1>6. Kinds \subseteq Step /\ Step' = Step
  <2>1. 0 \in Content /\ Http \in Content /\ "link" \in Place /\ "site" \in Place
    BY InstallAssumption DEF Content, Place
  <2>2. Kinds \subseteq Step
    BY <2>1 DEF VpsLink, VpsHttp, Step
  <2>3. QED BY <1>1, <2>2 DEF Step, Place
<1>7. PICK P \in Seq(Kinds) :
        /\ todo' = P \o VpsPlan'
        /\ place["link"] = Absent => Len(P) >= 1 /\ P[1] = VpsLink
        /\ ~cert => Len(P) >= 1 /\ P[Len(P)] = <<"certbot">>
  <2>1. /\ a \o b \in Seq(Kinds) /\ Len(a \o b) = Len(a) + Len(b)
        /\ \A i \in 1..Len(a) : (a \o b)[i] = a[i]
        /\ \A i \in 1..Len(b) : (a \o b)[Len(a) + i] = b[i]
    BY Joined
  <2>2. Len(a) \in Nat /\ Len(b) \in Nat
    BY LenProperties
  <2>3. todo' = (a \o b) \o VpsPlan'
    BY <1>2, <1>3, <1>4
  <2> HIDE DEF Kinds, A, B
  <2>4. PICK P : /\ P = a \o b /\ P \in Seq(Kinds) /\ Len(P) = Len(a) + Len(b)
                 /\ \A i \in 1..Len(a) : P[i] = a[i]
                 /\ \A i \in 1..Len(b) : P[Len(a) + i] = b[i]
    BY <2>1, Zenon
  <2>5. /\ place["link"] = Absent => Len(P) >= 1 /\ P[1] = VpsLink
        /\ ~cert => Len(P) >= 1 /\ P[Len(P)] = <<"certbot">>
    <3>1. ASSUME place["link"] = Absent PROVE Len(P) >= 1 /\ P[1] = VpsLink
      <4>1. Len(a) = 1 /\ a[1] = VpsLink
        BY <1>3, <3>1
      <4>2. 1 \in 1..Len(a)
        BY <4>1
      <4>3. P[1] = a[1] /\ Len(P) = Len(a) + Len(b)
        BY <2>4, <4>2, Zenon
      <4>4. QED BY <2>2, <4>1, <4>3
    <3>2. ASSUME ~cert PROVE Len(P) >= 1 /\ P[Len(P)] = <<"certbot">>
      <4>1. Len(b) = 3 /\ b[3] = <<"certbot">>
        BY <1>4, <3>2
      <4>2. 3 \in 1..Len(b)
        BY <4>1
      <4>3. P[Len(a) + 3] = b[3] /\ Len(P) = Len(a) + Len(b)
        BY <2>4, <4>2, Zenon
      <4>4. QED BY <2>2, <4>1, <4>3
    <3>3. QED BY <3>1, <3>2
  <2>6. QED BY <2>3, <2>4, <2>5
<1> HIDE DEF Kinds, A, B
<1>8. PICK n \in Nat : n = Len(P)
  BY LenProperties
<1>9. P \in Seq(Step)
  BY <1>6, SeqMonotonic
<1>10. PICK q \in Seq(Step) : q = VpsPlan' /\ Len(q) = 4
  BY <1>5
<1>11. /\ P \o q \in Seq(Step) /\ Len(P \o q) = n + 4
       /\ \A i \in 1..n : (P \o q)[i] = P[i]
       /\ \A i \in 1..4 : (P \o q)[n + i] = q[i]
  <2>1. /\ P \o q \in Seq(Step) /\ Len(P \o q) = Len(P) + Len(q)
        /\ \A i \in 1..Len(P) : (P \o q)[i] = P[i]
        /\ \A i \in 1..Len(q) : (P \o q)[Len(P) + i] = q[i]
    BY <1>9, Joined
  <2>2. QED BY <1>8, <1>10, <2>1, Zenon
<1>12. /\ todo' \in Seq(Step) /\ Len(todo') = n + 4
       /\ \A i \in 1..n : todo'[i] = P[i]
       /\ \A i \in 1..4 : todo'[n + i] = VpsPlan'[i]
  <2>1. todo' = P \o q
    BY <1>7, <1>10
  <2>2. QED BY <1>10, <1>11, <2>1, Zenon
<1>13. \A e \in 1..Left' : IF e <= 4 THEN FromEnd(e)' = VpsPlan'[5 - e] ELSE FromEnd(e)' \in Kinds
  <2> SUFFICES ASSUME NEW e \in 1..Left'
               PROVE  IF e <= 4 THEN FromEnd(e)' = VpsPlan'[5 - e] ELSE FromEnd(e)' \in Kinds
    OBVIOUS
  <2>1. FromEnd(e)' = todo'[n + 5 - e]
    BY <1>12 DEF FromEnd, Left
  <2>2. CASE e <= 4
    <3>1. 5 - e \in 1..4 /\ n + 5 - e = n + (5 - e)
      BY <1>12, <2>2 DEF Left
    <3>2. QED BY <1>12, <2>1, <2>2, <3>1
  <2>3. CASE e > 4
    <3>1. n + 5 - e \in 1..n
      BY <1>12, <2>3 DEF Left
    <3>2. P[n + 5 - e] \in Kinds
      BY <1>8, <3>1, ElementOfSeq
    <3>3. QED BY <1>12, <2>1, <2>3, <3>1, <3>2
  <2>4. QED BY <1>12, <2>2, <2>3
<1>14. place["link"] = Absent => \E e \in 5..Left' : FromEnd(e)' = VpsLink
  <2> SUFFICES ASSUME place["link"] = Absent PROVE \E e \in 5..Left' : FromEnd(e)' = VpsLink
    OBVIOUS
  <2>1. n >= 1 /\ P[1] = VpsLink
    BY <1>7, <1>8
  <2>2. n + 4 \in 5..Left' /\ FromEnd(n + 4)' = VpsLink
    BY <1>12, <2>1 DEF FromEnd, Left
  <2>3. QED BY <2>2
<1>15. ~cert => \E e \in 5..Left' : FromEnd(e)' = <<"certbot">>
  <2> SUFFICES ASSUME ~cert PROVE \E e \in 5..Left' : FromEnd(e)' = <<"certbot">>
    OBVIOUS
  <2>1. n >= 1 /\ P[n] = <<"certbot">>
    BY <1>7, <1>8
  <2>2. 5 \in 5..Left' /\ FromEnd(5)' = <<"certbot">>
    BY <1>12, <2>1 DEF FromEnd, Left
  <2>3. QED BY <2>2
<1>16. Left' > 3
  BY <1>12 DEF Left
<1>17. Seq(Step') = Seq(Step)
  BY <1>6
<1>18. place'["link"] # Absent \/ \E e \in 5..Left' : FromEnd(e)' = VpsLink
  BY <1>1, <1>14
<1>19. cert' \/ \E e \in 5..Left' : FromEnd(e)' = <<"certbot">>
  BY <1>1, <1>15
<1>20. InstallingVps'
  <2>1. VpsLink' = VpsLink /\ VpsHttp' = VpsHttp
    BY DEF VpsLink, VpsHttp
  <2>2. \A e \in 1..Left' : IF e <= 4 THEN FromEnd(e)' = VpsPlan'[5 - e]
                ELSE FromEnd(e)' \in {VpsLink, VpsHttp, <<"reload">>, <<"certbot">>}
    BY <1>13 DEF Kinds
  <2>3. ~(Left' <= 2) /\ ~(Left' <= 1)
    BY <1>12 DEF Left
  <2>4. QED BY <1>18, <1>19, <2>1, <2>2, <2>3 DEF InstallingVps
<1>21. todo' # <<>>
  BY <1>12, EmptySeq
<1>22. QED BY <1>12, <1>17, <1>20, <1>21

(***************************************************************************)
(* The roll-back of the node is put together from five sequences: its      *)
(* first seven steps, "disable" or nothing, "daemon-reload", "start" or    *)
(* nothing, "reload".                                                      *)
(***************************************************************************)
Chain(f, d, r, s, q) == (((f \o d) \o r) \o s) \o q

\* Where the parts of a restoration are.
LEMMA Chained ==
    ASSUME NEW S, NEW f \in Seq(S), NEW d \in Seq(S), NEW r \in Seq(S), NEW s \in Seq(S),
           NEW q \in Seq(S), Len(f) = 7, Len(r) = 1, Len(q) = 1
    PROVE  LET t == Chain(f, d, r, s, q) IN
           /\ t \in Seq(S) /\ Len(t) = 9 + Len(d) + Len(s)
           /\ t[1] = f[1] /\ t[2] = f[2] /\ t[3] = f[3] /\ t[4] = f[4]
           /\ t[5] = f[5] /\ t[6] = f[6] /\ t[7] = f[7]
           /\ Len(d) = 1 => t[8] = d[1]
           /\ t[8 + Len(d)] = r[1]
           /\ Len(s) = 1 => t[9 + Len(d)] = s[1]
           /\ t[9 + Len(d) + Len(s)] = q[1]
<1>1. Len(d) \in Nat /\ Len(s) \in Nat
  BY LenProperties
<1>2. ASSUME NEW x \in Seq(S), NEW y \in Seq(S)
      PROVE  \E z \in Seq(S) : /\ z = x \o y /\ Len(z) = Len(x) + Len(y)
                               /\ \A i \in 1..Len(x) : z[i] = x[i]
                               /\ \A i \in 1..Len(y) : z[Len(x) + i] = y[i]
  <2>1. /\ x \o y \in Seq(S) /\ Len(x \o y) = Len(x) + Len(y)
        /\ \A i \in 1..Len(x) : (x \o y)[i] = x[i]
        /\ \A i \in 1..Len(y) : (x \o y)[Len(x) + i] = y[i]
    BY Joined
  <2>2. QED BY <2>1, Zenon
<1>3. PICK a \in Seq(S) : /\ a = f \o d /\ Len(a) = Len(f) + Len(d)
                          /\ \A i \in 1..Len(f) : a[i] = f[i]
                          /\ \A i \in 1..Len(d) : a[Len(f) + i] = d[i]
  BY <1>2, Zenon
<1>4. PICK b \in Seq(S) : /\ b = a \o r /\ Len(b) = Len(a) + Len(r)
                          /\ \A i \in 1..Len(a) : b[i] = a[i]
                          /\ \A i \in 1..Len(r) : b[Len(a) + i] = r[i]
  BY <1>2, Zenon
<1>5. PICK c \in Seq(S) : /\ c = b \o s /\ Len(c) = Len(b) + Len(s)
                          /\ \A i \in 1..Len(b) : c[i] = b[i]
                          /\ \A i \in 1..Len(s) : c[Len(b) + i] = s[i]
  BY <1>2, Zenon
<1>6. PICK t \in Seq(S) : /\ t = c \o q /\ Len(t) = Len(c) + Len(q)
                          /\ \A i \in 1..Len(c) : t[i] = c[i]
                          /\ \A i \in 1..Len(q) : t[Len(c) + i] = q[i]
  BY <1>2, Zenon
<1>7. t = Chain(f, d, r, s, q)
  BY <1>3, <1>4, <1>5, <1>6, Zenon DEF Chain
<1>8. /\ Len(a) = 7 + Len(d) /\ Len(b) = 8 + Len(d) /\ Len(c) = 8 + Len(d) + Len(s)
      /\ Len(t) = 9 + Len(d) + Len(s)
  BY <1>1, <1>3, <1>4, <1>5, <1>6
<1>9. \A i \in 1..Len(a) : t[i] = a[i]
  <2> SUFFICES ASSUME NEW i \in 1..Len(a) PROVE t[i] = a[i]
    OBVIOUS
  <2>1. i \in 1..Len(b) /\ i \in 1..Len(c)
    BY <1>1, <1>8
  <2>2. QED BY <1>4, <1>5, <1>6, <2>1, Zenon
<1>10. \A i \in 1..7 : t[i] = f[i]
  <2> SUFFICES ASSUME NEW i \in 1..7 PROVE t[i] = f[i]
    OBVIOUS
  <2>1. i \in 1..Len(a) /\ i \in 1..Len(f)
    BY <1>1, <1>8
  <2>2. QED BY <1>3, <1>9, <2>1, Zenon
<1>11. \A i \in 1..Len(d) : t[7 + i] = d[i]
  <2> SUFFICES ASSUME NEW i \in 1..Len(d) PROVE t[7 + i] = d[i]
    OBVIOUS
  <2>1. 7 + i \in 1..Len(a)
    BY <1>1, <1>8
  <2>2. a[7 + i] = d[i]
    BY <1>3, Zenon
  <2>3. QED BY <1>9, <2>1, <2>2, Zenon
<1>12. t[8 + Len(d)] = r[1]
  <2>1. /\ 8 + Len(d) \in 1..Len(b) /\ 8 + Len(d) \in 1..Len(c)
        /\ 8 + Len(d) = Len(a) + 1 /\ 1 \in 1..Len(r)
    BY <1>1, <1>8
  <2>2. t[8 + Len(d)] = c[8 + Len(d)] /\ c[8 + Len(d)] = b[8 + Len(d)]
    BY <1>5, <1>6, <2>1, Zenon
  <2>3. b[Len(a) + 1] = r[1]
    BY <1>4, <2>1, Zenon
  <2>4. QED BY <2>1, <2>2, <2>3, Zenon
<1>13. \A i \in 1..Len(s) : t[8 + Len(d) + i] = s[i]
  <2> SUFFICES ASSUME NEW i \in 1..Len(s) PROVE t[8 + Len(d) + i] = s[i]
    OBVIOUS
  <2>1. 8 + Len(d) + i \in 1..Len(c) /\ 8 + Len(d) + i = Len(b) + i
    BY <1>1, <1>8
  <2>2. t[8 + Len(d) + i] = c[8 + Len(d) + i]
    BY <1>6, <2>1, Zenon
  <2>3. c[Len(b) + i] = s[i]
    BY <1>5, Zenon
  <2>4. QED BY <2>1, <2>2, <2>3, Zenon
<1>14. t[9 + Len(d) + Len(s)] = q[1]
  <2>1. 9 + Len(d) + Len(s) = Len(c) + 1 /\ 1 \in 1..Len(q)
    BY <1>1, <1>8
  <2>2. QED BY <1>6, <2>1, Zenon
<1>15. /\ t[1] = f[1] /\ t[2] = f[2] /\ t[3] = f[3] /\ t[4] = f[4]
       /\ t[5] = f[5] /\ t[6] = f[6] /\ t[7] = f[7]
  BY <1>10
<1>16. ASSUME Len(d) = 1 PROVE t[8] = d[1]
  <2>1. 1 \in 1..Len(d) /\ 7 + 1 = 8
    BY <1>16
  <2>2. t[7 + 1] = d[1]
    BY <1>11, <2>1, Zenon
  <2>3. QED BY <2>1, <2>2
<1>17. ASSUME Len(s) = 1 PROVE t[9 + Len(d)] = s[1]
  <2>1. 1 \in 1..Len(s) /\ 8 + Len(d) + 1 = 9 + Len(d)
    BY <1>1, <1>17
  <2>2. t[8 + Len(d) + 1] = s[1]
    BY <1>13, <2>1, Zenon
  <2>3. QED BY <2>1, <2>2, Zenon
<1>18. QED BY <1>7, <1>8, <1>12, <1>14, <1>15, <1>16, <1>17, Zenon

\* A failure of install-apps begins a restoration from what was noted before.
LEMMA AppsUndoBegin ==
    ASSUME InstallInv, script = "apps", StepFails
    PROVE  RestoringApps' /\ todo' \in Seq(Step') /\ todo' # <<>>
<1> DEFINE D == IF before.enabled THEN <<>> ELSE << <<"disable">> >>
           S == IF before.active THEN << <<"start">> >> ELSE <<>>
<1>1. /\ script' = script /\ before' = before /\ todo' = RestoreApps
      /\ before.place \in [Place -> Content] /\ InstallingApps
      /\ before.active \in BOOLEAN /\ before.enabled \in BOOLEAN
  BY DEF StepFails, InstallInv, InstallTypeOK
<1>2. enabled' = enabled /\ (before.enabled => enabled)
  BY <1>1 DEF StepFails, Broken, running, InstallingApps, AppsDone
<1>3. /\ Start \in 0..1 /\ (Start = 1 <=> before.active) /\ Start' = Start
      /\ Disable \in 0..1 /\ (Disable = 0 <=> before.enabled) /\ Disable' = Disable
  BY <1>1 DEF Start, Disable
<1>4. PICK cur \in Content, site \in Content, snip \in Content, unit \in Content, env \in Content :
        /\ cur = before.place["current"] /\ site = before.place["site"]
        /\ snip = before.place["snippet"] /\ unit = before.place["unit"]
        /\ env = before.place["env"]
  BY <1>1 DEF Place
<1>5. /\ \A k \in {"stop", "disable", "daemon-reload", "start", "reload"} : <<k>> \in Step
      /\ \A v \in Content : <<"link", "current", v>> \in Step
      /\ \A v \in Content : \A p \in {"site", "snippet", "unit", "env"} : <<"write", p, v>> \in Step
      /\ Step' = Step /\ Absent \in Content
  BY <1>1 DEF Step, Place, Content
<1>6. PICK f \in Seq(Step) :
        /\ f = << <<"stop">>, <<"link", "current", Absent>>, <<"link", "current", cur>>,
                  <<"write", "site", site>>, <<"write", "snippet", snip>>,
                  <<"write", "unit", unit>>, <<"write", "env", env>> >>
        /\ Len(f) = 7
        /\ f[1] = <<"stop">> /\ f[2] = <<"link", "current", Absent>>
        /\ f[3] = <<"link", "current", cur>> /\ f[4] = <<"write", "site", site>>
        /\ f[5] = <<"write", "snippet", snip>> /\ f[6] = <<"write", "unit", unit>>
        /\ f[7] = <<"write", "env", env>>
  <2> HIDE DEF Step, Content
  <2>1. /\ <<"stop">> \in Step /\ <<"link", "current", Absent>> \in Step
        /\ <<"link", "current", cur>> \in Step /\ <<"write", "site", site>> \in Step
        /\ <<"write", "snippet", snip>> \in Step /\ <<"write", "unit", unit>> \in Step
        /\ <<"write", "env", env>> \in Step
    BY <1>5
  <2> DEFINE g == << <<"stop">>, <<"link", "current", Absent>>, <<"link", "current", cur>>,
                     <<"write", "site", site>>, <<"write", "snippet", snip>>,
                     <<"write", "unit", unit>>, <<"write", "env", env>> >>
  <2>2. g \in Seq(Step)
    BY <2>1
  <2>3. /\ Len(g) = 7 /\ g[1] = <<"stop">> /\ g[2] = <<"link", "current", Absent>>
        /\ g[3] = <<"link", "current", cur>> /\ g[4] = <<"write", "site", site>>
        /\ g[5] = <<"write", "snippet", snip>> /\ g[6] = <<"write", "unit", unit>>
        /\ g[7] = <<"write", "env", env>>
    OBVIOUS
  <2>4. QED BY <2>2, <2>3, Zenon
<1>7. PICK d \in Seq(Step) : d = D /\ Len(d) = Disable /\ (Disable = 1 => d[1] = <<"disable">>)
  <2> HIDE DEF Step
  <2>1. CASE before.enabled
    <3>1. D = <<>> /\ <<>> \in Seq(Step) /\ Len(<<>>) = 0
      BY <2>1
    <3>2. Disable = 0 /\ Disable # 1
      BY <1>3, <2>1
    <3>3. QED BY <3>1, <3>2, Zenon
  <2>2. CASE ~before.enabled
    <3> DEFINE g == << <<"disable">> >>
    <3>1. <<"disable">> \in Step
      BY <1>5
    <3>2. D = g /\ g \in Seq(Step) /\ Len(g) = 1 /\ g[1] = <<"disable">>
      BY <2>2, <3>1
    <3>3. Disable = 1
      BY <1>3, <2>2
    <3>4. QED BY <3>2, <3>3, Zenon
  <2>3. QED BY <2>1, <2>2
<1>8. PICK s \in Seq(Step) : s = S /\ Len(s) = Start /\ (Start = 1 => s[1] = <<"start">>)
  <2> HIDE DEF Step
  <2>1. CASE ~before.active
    <3>1. S = <<>> /\ <<>> \in Seq(Step) /\ Len(<<>>) = 0
      BY <2>1
    <3>2. Start = 0 /\ Start # 1
      BY <1>3, <2>1
    <3>3. QED BY <3>1, <3>2, Zenon
  <2>2. CASE before.active
    <3> DEFINE g == << <<"start">> >>
    <3>1. <<"start">> \in Step
      BY <1>5
    <3>2. S = g /\ g \in Seq(Step) /\ Len(g) = 1 /\ g[1] = <<"start">>
      BY <2>2, <3>1
    <3>3. Start = 1
      BY <1>3, <2>2
    <3>4. QED BY <3>2, <3>3, Zenon
  <2>3. QED BY <2>1, <2>2
<1>9. PICK r \in Seq(Step), q \in Seq(Step) :
        /\ r = << <<"daemon-reload">> >> /\ Len(r) = 1 /\ r[1] = <<"daemon-reload">>
        /\ q = << <<"reload">> >> /\ Len(q) = 1 /\ q[1] = <<"reload">>
  <2> HIDE DEF Step
  <2> DEFINE g == << <<"daemon-reload">> >>
             h == << <<"reload">> >>
  <2>1. <<"daemon-reload">> \in Step /\ <<"reload">> \in Step
    BY <1>5
  <2>2. /\ g \in Seq(Step) /\ Len(g) = 1 /\ g[1] = <<"daemon-reload">>
        /\ h \in Seq(Step) /\ Len(h) = 1 /\ h[1] = <<"reload">>
    BY <2>1
  <2>3. QED BY <2>2, Zenon
<1>10. todo' = Chain(f, d, r, s, q)
  BY <1>1, <1>4, <1>6, <1>7, <1>8, <1>9 DEF RestoreApps, Chain
<1> HIDE DEF D, S
<1>11. PICK t : t = Chain(f, d, r, s, q)
  OBVIOUS
<1>12. t = todo' /\ t \in Seq(Step) /\ Len(t) = 9 + Disable + Start
  <2>1. Len(r) = 1 /\ Len(q) = 1 /\ Len(f) = 7
    BY <1>6, <1>9
  <2>2. Chain(f, d, r, s, q) \in Seq(Step)
    BY <2>1, Chained
  <2>3. Len(Chain(f, d, r, s, q)) = 9 + Len(d) + Len(s)
    BY <2>1, Chained
  <2>4. QED BY <1>7, <1>8, <1>10, <1>11, <2>2, <2>3, Zenon
<1>13. /\ Disable = 1 => t[8] = <<"disable">>
       /\ t[8 + Disable] = <<"daemon-reload">>
       /\ Start = 1 => t[9 + Disable] = <<"start">>
       /\ t[9 + Disable + Start] = <<"reload">>
  <2>1. Len(r) = 1 /\ Len(q) = 1 /\ Len(f) = 7
    BY <1>6, <1>9
  <2>2. Len(d) = 1 => Chain(f, d, r, s, q)[8] = d[1]
    BY <2>1, Chained
  <2>3. Chain(f, d, r, s, q)[8 + Len(d)] = r[1]
    BY <2>1, Chained
  <2>4. Len(s) = 1 => Chain(f, d, r, s, q)[9 + Len(d)] = s[1]
    BY <2>1, Chained
  <2>5. Chain(f, d, r, s, q)[9 + Len(d) + Len(s)] = q[1]
    BY <2>1, Chained
  <2>6. QED BY <1>7, <1>8, <1>9, <1>11, <2>2, <2>3, <2>4, <2>5, Zenon
<1>14. /\ t[1] = f[1] /\ t[2] = f[2] /\ t[3] = f[3] /\ t[4] = f[4]
       /\ t[5] = f[5] /\ t[6] = f[6] /\ t[7] = f[7]
  <2>1. Len(r) = 1 /\ Len(q) = 1 /\ Len(f) = 7
    BY <1>6, <1>9
  <2>2. Chain(f, d, r, s, q)[1] = f[1]
    BY <2>1, Chained
  <2>3. Chain(f, d, r, s, q)[2] = f[2]
    BY <2>1, Chained
  <2>4. Chain(f, d, r, s, q)[3] = f[3]
    BY <2>1, Chained
  <2>5. Chain(f, d, r, s, q)[4] = f[4]
    BY <2>1, Chained
  <2>6. Chain(f, d, r, s, q)[5] = f[5]
    BY <2>1, Chained
  <2>7. Chain(f, d, r, s, q)[6] = f[6]
    BY <2>1, Chained
  <2>8. Chain(f, d, r, s, q)[7] = f[7]
    BY <2>1, Chained
  <2>9. QED BY <1>11, <2>2, <2>3, <2>4, <2>5, <2>6, <2>7, <2>8, Zenon
<1>15. Left' = 9 + Start + Disable
  BY <1>3, <1>12 DEF Left
<1>16. ASSUME NEW e \in 1..Left' PROVE AppsUndo(e)'
  <2>1. FromEnd(e)' = t[10 + Start + Disable - e]
    BY <1>3, <1>15, <1>12 DEF FromEnd, Left
  <2>2. /\ t[1] = <<"stop">> /\ t[2] = <<"link", "current", Absent>>
        /\ t[3] = <<"link", "current", cur>> /\ t[4] = <<"write", "site", site>>
        /\ t[5] = <<"write", "snippet", snip>> /\ t[6] = <<"write", "unit", unit>>
        /\ t[7] = <<"write", "env", env>>
    BY <1>6, <1>14
  <2>3. CASE e >= 3 + Start + Disable
    <3>1. /\ e = 9 + Start + Disable => FromEnd(e)' = t[1]
          /\ e = 8 + Start + Disable => FromEnd(e)' = t[2]
          /\ e = 7 + Start + Disable => FromEnd(e)' = t[3]
          /\ e = 6 + Start + Disable => FromEnd(e)' = t[4]
          /\ e = 5 + Start + Disable => FromEnd(e)' = t[5]
          /\ e = 4 + Start + Disable => FromEnd(e)' = t[6]
          /\ e = 3 + Start + Disable => FromEnd(e)' = t[7]
      BY <1>3, <2>1
    <3>2. ~(e = 1) /\ ~(e = 2 /\ Start = 1) /\ ~(e = 2 + Start) /\ ~(e = 3 + Start /\ Disable = 1)
      BY <1>3, <2>3
    <3>3. QED BY <1>1, <1>3, <1>4, <2>2, <3>1, <3>2 DEF AppsUndo
  <2>4. CASE e < 3 + Start + Disable
    <3>1. /\ e = 1 => FromEnd(e)' = t[9 + Disable + Start]
          /\ e = 2 /\ Start = 1 => FromEnd(e)' = t[9 + Disable]
          /\ e = 2 + Start => FromEnd(e)' = t[8 + Disable]
          /\ e = 3 + Start /\ Disable = 1 => FromEnd(e)' = t[8]
      BY <1>3, <2>1
    <3>2. e \notin {3 + Start + Disable, 4 + Start + Disable, 5 + Start + Disable, 6 + Start + Disable,
                    7 + Start + Disable, 8 + Start + Disable, 9 + Start + Disable}
      BY <1>3, <2>4
    <3>3. QED BY <1>3, <1>13, <3>1, <3>2 DEF AppsUndo
  <2>5. QED BY <1>3, <1>15, <2>3, <2>4
<1>17. AppsUndone'
  <2>1. (before.enabled => enabled)'
    BY <1>1, <1>2
  <2>2. QED BY <1>3, <1>15, <2>1 DEF AppsUndone
<1>18. QED
  <2>1. Seq(Step') = Seq(Step) /\ todo' \in Seq(Step)
    BY <1>5, <1>12
  <2>2. todo' # <<>>
    BY <1>3, <1>12, EmptySeq
  <2>3. QED BY <1>3, <1>15, <1>16, <1>17, <2>1, <2>2 DEF RestoringApps

\* So does a failure of install-vps.
LEMMA VpsUndoBegin ==
    ASSUME InstallInv, script = "vps", StepFails
    PROVE  RestoringVps' /\ todo' \in Seq(Step') /\ todo' # <<>>
<1>1. /\ script' = script /\ before' = before /\ todo' = RestoreVps
      /\ before.place \in [Place -> Content]
  BY DEF StepFails, InstallInv, InstallTypeOK
<1>2. RestoreVps' = RestoreVps /\ Step' = Step
  BY <1>1 DEF RestoreVps, Step, Place
<1>3. Len(RestoreVps) = 4 /\ RestoreVps \in Seq(Step)
  <2>1. /\ <<"link", "link", before.place["link"]>> \in Step
        /\ <<"write", "site", before.place["site"]>> \in Step
        /\ <<"write", "hook", before.place["hook"]>> \in Step /\ <<"reload">> \in Step
    BY <1>1 DEF Step, Place
  <2> HIDE DEF Step
  <2>2. QED BY <2>1 DEF RestoreVps
<1>4. Left' = 4 /\ \A e \in 1..4 : FromEnd(e)' = RestoreVps'[5 - e]
  BY <1>1, <1>2, <1>3 DEF Left, FromEnd
<1>5. RestoringVps'
  BY <1>4 DEF RestoringVps
<1>6. todo' # <<>>
  BY <1>4, EmptySeq DEF Left
<1>7. QED BY <1>1, <1>2, <1>3, <1>5, <1>6

-----------------------------------------------------------------------------
(* The invariant. *)

(***************************************************************************)
(* What the attempt keeps of itself, besides the host.                     *)
(***************************************************************************)
AttemptOK ==
    /\ run \in 0..MaxRuns
    /\ phase \in {"none", "installing", "restoring", "installed", "failed", "killed"}
    /\ InProgress <=> todo # <<>>
    /\ before.place \in [Place -> Content] /\ {before.active, before.enabled} \subseteq BOOLEAN

\* The type invariant speaks of the host and of the attempt.
LEMMA TypeParts == InstallTypeOK <=> HostTypeOK /\ AttemptOK
BY DEF InstallTypeOK, HostTypeOK, AttemptOK

\* And so does it in the next state.
LEMMA TypePartsNext == (HostTypeOK' /\ AttemptOK') => InstallTypeOK'
BY DEF InstallTypeOK, HostTypeOK, AttemptOK

(***************************************************************************)
(* InstallInv is an inductive invariant of both installers: it holds of a  *)
(* host without a release or a site, and every step of a run, its failure, *)
(* its end, a kill and a restart of the host keep it.                      *)
(***************************************************************************)
THEOREM InstallInvInit == InstallInit => InstallInv
<1> SUFFICES ASSUME InstallInit PROVE InstallInv
  OBVIOUS
<1>1. MaxRuns \in Nat /\ {0, Absent} \subseteq Content /\ 0 # Http /\ Absent # Http
  BY InstallAssumption DEF Content
<1>2. script \in {"apps", "vps"} /\ place \in [Place -> Content] /\ before = Found
  BY <1>1 DEF InstallInit
<1>3. Served \in [DOMAIN Served -> Content]
  BY <1>2 DEF Served, Restrict
<1>4. HostTypeOK
  <2>1. /\ releases = {} /\ cert \in BOOLEAN /\ loaded = Absent /\ enabled = FALSE /\ proc = Absent
        /\ nginx = Served
    BY DEF InstallInit
  <2>2. releases \subseteq 1..MaxRuns /\ enabled \in BOOLEAN /\ loaded \in Content
    BY <1>1, <2>1
  <2>3. nginx \in [DOMAIN Served -> Content]
    BY <1>3, <2>1
  <2>4. QED BY <1>2, <2>1, <2>2, <2>3 DEF HostTypeOK
<1>5. before.place = place /\ before.active = FALSE /\ before.enabled = FALSE
  <2>1. before.place = place /\ before.active = (proc # Absent) /\ before.enabled = enabled
    BY <1>2 DEF Found
  <2>2. proc = Absent /\ enabled = FALSE
    BY DEF InstallInit
  <2>3. QED BY <2>1, <2>2
<1>6. AttemptOK
  <2>1. run = 0 /\ phase = "none" /\ todo = <<>>
    BY DEF InstallInit
  <2>2. ~InProgress /\ run \in 0..MaxRuns
    BY <1>1, <2>1 DEF InProgress
  <2>3. before.place \in [Place -> Content] /\ {before.active, before.enabled} \subseteq BOOLEAN
    BY <1>2, <1>5
  <2>4. QED BY <2>1, <2>2, <2>3 DEF AttemptOK
<1>7. WholeReleases
  <2>1. script = "apps" => place["current"] = Absent /\ \A p \in Place : place[p] # Http
    BY <1>1 DEF InstallInit, Place
  <2>2. loaded # Http
    BY <1>1 DEF InstallInit
  <2>3. QED BY <1>5, <2>1, <2>2 DEF InstallInit, WholeReleases
<1>8. HostFacts
  BY <1>7, EmptySeq DEF InstallInit, HostFacts
<1>9. phase = "none"
  BY DEF InstallInit
<1>10. QED BY <1>4, <1>6, <1>8, <1>9, TypeParts DEF InstallInv, FailureRestores, InstalledServes

\* An installation begins.
LEMMA BeginKeeps == InstallInv /\ BeginInstall => InstallInv'
<1> SUFFICES ASSUME InstallInv, BeginInstall PROVE InstallInv'
  OBVIOUS
<1>1. /\ InstallTypeOK /\ HostFacts /\ WholeReleases /\ script \in {"apps", "vps"}
      /\ UNCHANGED <<script, place, releases, cert, loaded, enabled, proc, nginx>>
      /\ run' = run + 1 /\ run < MaxRuns /\ run \in Nat /\ MaxRuns \in Nat
      /\ phase' = "installing" /\ before' = Found
  BY InstallAssumption DEF BeginInstall, InstallInv, InstallTypeOK, HostFacts, files, running
<1>2. HostTypeOK'
  <2>1. HostTypeOK /\ Place' = Place /\ Served' = Served
    BY <1>1, TypeParts DEF Place, Served
  <2>2. QED BY <1>1, <2>1 DEF HostTypeOK
<1>3. /\ before'.place = place /\ before'.active = (proc # Absent) /\ before'.enabled = enabled
      /\ Place' = Place
  BY <1>1 DEF Found, Place
<1>4. (script = "apps" => InstallingApps') /\ (script = "vps" => InstallingVps')
      /\ todo' \in Seq(Step') /\ todo' # <<>>
  BY <1>1, AppsBegin, VpsBegin
<1>5. AttemptOK'
  <2>1. run' \in 0..MaxRuns
    BY <1>1
  <2>2. before'.place \in [Place' -> Content] /\ {before'.active, before'.enabled} \subseteq BOOLEAN
    BY <1>1, <1>3 DEF InstallTypeOK
  <2>3. InProgress'
    BY <1>1 DEF InProgress
  <2>4. QED BY <1>1, <1>4, <2>1, <2>2, <2>3 DEF AttemptOK
<1>6. WholeReleases'
  BY <1>1, <1>3 DEF WholeReleases
<1>7. HostFacts'
  BY <1>1, <1>4, <1>6 DEF HostFacts
<1>8. InstallTypeOK'
  BY <1>2, <1>5, TypePartsNext
<1>9. QED BY <1>1, <1>4, <1>7, <1>8 DEF InstallInv, FailureRestores, InstalledServes

(***************************************************************************)
(* However the step at the head ends, the host stays sound.                *)
(***************************************************************************)
LEMMA HostKept ==
    ASSUME InstallInv, InProgress, Perform(Head(todo)) \/ Broken(Head(todo)),
           UNCHANGED <<script, run, before>>
    PROVE  HostTypeOK' /\ WholeReleases'
<1>1. PICK step : step = Head(todo) /\ (Perform(step) \/ Broken(step))
  <2>1. CASE Perform(Head(todo))
    BY <2>1, HeadPerformed
  <2>2. CASE Broken(Head(todo))
    BY <2>2, HeadBroken
  <2>3. QED BY <2>1, <2>2
<1>2. Proper(step)
  <2>1. Proper(Head(todo))
    BY HeadProper
  <2>2. QED BY <1>1, <2>1 DEF Proper
<1>3. HostTypeOK /\ WholeReleases
  BY TypeParts DEF InstallInv, HostFacts
<1>4. run \in 1..MaxRuns
  BY InstallAssumption DEF InstallInv, InstallTypeOK, HostFacts, InProgress
<1>5. QED BY <1>1, <1>2, <1>3, <1>4, HostAfter

\* A step succeeds.
LEMMA SucceedsKeeps == InstallInv /\ StepSucceeds => InstallInv'
<1> SUFFICES ASSUME InstallInv, StepSucceeds PROVE InstallInv'
  OBVIOUS
<1>1. /\ InstallTypeOK /\ HostFacts /\ WholeReleases /\ script \in {"apps", "vps"}
      /\ InProgress /\ Perform(Head(todo)) /\ todo' = Tail(todo)
      /\ script' = script /\ run' = run /\ before' = before
      /\ todo \in Seq(Step) /\ todo # <<>> /\ AttemptOK
  BY TypeParts DEF StepSucceeds, InstallInv, InstallTypeOK, HostFacts
<1>2. HostTypeOK' /\ WholeReleases'
  BY <1>1, HostKept
<1>3. /\ todo' \in Seq(Step') /\ Left' = Left - 1 /\ (todo' = <<>> <=> Left = 1)
      /\ Left \in Nat \ {0}
  BY <1>1, TailKeepsEnd, FirstIsLast
<1>4. /\ Left # 1 => phase' = phase
      /\ Left = 1 /\ phase = "installing" => phase' = "installed"
      /\ Left = 1 /\ phase = "restoring" => phase' = "failed"
  BY <1>3 DEF StepSucceeds
<1>5. phase \in {"installing", "restoring"}
  BY <1>1 DEF InProgress
<1>6. AttemptOK'
  <2>1. phase' \in {"none", "installing", "restoring", "installed", "failed", "killed"}
    BY <1>4, <1>5
  <2>2. InProgress' <=> todo' # <<>>
    BY <1>3, <1>4, <1>5 DEF InProgress
  <2>3. Place' = Place
    BY <1>1 DEF Place
  <2>4. QED BY <1>1, <2>1, <2>2, <2>3 DEF AttemptOK
<1>7. HostFacts'
  <2>1. run' >= 1
    BY <1>1, <1>5 DEF HostFacts
  <2>2. QED BY <1>2, <1>3, <2>1 DEF HostFacts
<1>8. phase' = "installing" => IF script' = "apps" THEN InstallingApps' ELSE InstallingVps'
  <2>1. phase' = "installing" => phase = "installing"
    BY <1>4, <1>5
  <2>2. QED BY <1>1, <2>1, AppsAdvance, VpsAdvance
<1>9. phase' = "restoring" => IF script' = "apps" THEN RestoringApps' ELSE RestoringVps'
  <2>1. phase' = "restoring" => phase = "restoring"
    BY <1>4, <1>5
  <2>2. QED BY <1>1, <2>1, AppsUndoAdvance, VpsUndoAdvance
<1>10. FailureRestores'
  <2> SUFFICES ASSUME phase' = "failed"
               PROVE  /\ place' = before'.place /\ nginx' = Served'
                      /\ enabled' = before'.enabled
                      /\ (proc' # Absent) <=> (before'.active /\ Startable')
    BY DEF FailureRestores
  <2>1. phase = "restoring" /\ Left = 1 /\ Left' = 0
    BY <1>3, <1>4, <1>5
  <2>2. place' \in [Place' -> Content] /\ before'.place \in [Place' -> Content]
    BY <1>2, <1>6 DEF HostTypeOK, AttemptOK
  <2>3. CASE script = "apps"
    <3>1. RestoringApps' /\ nginx' = Served'
      BY <2>1, <2>3, AppsUndoAdvance
    <3>2. /\ Left' <= 6 + Start' + Disable' /\ Left' <= 5 + Start' + Disable'
          /\ Left' <= 4 + Start' + Disable' /\ Left' <= 3 + Start' + Disable'
          /\ Left' <= 2 + Start' + Disable' /\ Left' <= 2 + Start' /\ Left' <= 1
      <4>1. Left' = 0 /\ (Start' = 0 \/ Start' = 1) /\ (Disable' = 0 \/ Disable' = 1)
        BY <2>1 DEF Start, Disable
      <4>2. QED BY <4>1
    <3>3. AppsUndone'
      BY <3>1 DEF RestoringApps
    <3>4. /\ place'["current"] = before'.place["current"] /\ place'["site"] = before'.place["site"]
          /\ place'["snippet"] = before'.place["snippet"] /\ place'["unit"] = before'.place["unit"]
          /\ place'["env"] = before'.place["env"]
      BY <3>2, <3>3, Zenon DEF AppsUndone
    <3>5. enabled' = before'.enabled
      BY <3>2, <3>3, Zenon DEF AppsUndone
    <3>6. (proc' # Absent) <=> (before'.active /\ Startable')
      BY <3>2, <3>3, Zenon DEF AppsUndone
    <3>7. Place' = {"current", "env", "unit", "snippet", "site"}
      BY <1>1, <2>3 DEF Place
    <3>8. place' = before'.place
      BY <2>2, <3>4, <3>7
    <3>9. QED BY <3>1, <3>8, <3>5, <3>6
  <2>4. CASE script = "vps"
    <3>1. RestoringVps' /\ nginx' = Served'
      BY <2>1, <2>4, VpsUndoAdvance
    <3>2. /\ place'["link"] = before'.place["link"] /\ place'["site"] = before'.place["site"]
          /\ place'["hook"] = before'.place["hook"]
      BY <2>1, <3>1 DEF RestoringVps
    <3>3. Place' = {"link", "site", "hook"}
      BY <1>1, <2>4 DEF Place
    <3>4. place' = before'.place
      BY <2>2, <3>2, <3>3
    <3>5. proc' = Absent /\ enabled' = FALSE /\ before'.active = FALSE /\ before'.enabled = FALSE
      BY <1>1, <1>2, <1>6, <2>4 DEF WholeReleases, HostTypeOK, AttemptOK
    <3>6. QED BY <3>1, <3>4, <3>5
  <2>5. QED BY <1>1, <2>3, <2>4
<1>11. InstalledServes'
  <2> SUFFICES ASSUME phase' = "installed"
               PROVE  IF script' = "apps"
                      THEN /\ proc' = [current |-> run', env |-> run', unit |-> run'] /\ enabled'
                           /\ nginx'["snippet"] = run' /\ nginx'["site"] # 0
                      ELSE /\ nginx'["link"] # Absent /\ nginx'["site"] = run'
                           /\ place'["hook"] = run' /\ cert'
    BY DEF InstalledServes
  <2>1. phase = "installing" /\ Left = 1 /\ Left' = 0
    BY <1>3, <1>4, <1>5
  <2>2. CASE script = "apps"
    <3>1. InstallingApps' /\ nginx' = Served'
      BY <2>1, <2>2, AppsAdvance
    <3>2. /\ place'["snippet"] = run' /\ place'["site"] # 0 /\ enabled'
          /\ proc' = [current |-> run', env |-> run', unit |-> run']
      BY <2>1, <3>1 DEF InstallingApps, AppsDone
    <3>3. Served'["snippet"] = place'["snippet"] /\ Served'["site"] = place'["site"]
      <4>1. {"snippet", "site"} \subseteq Place' \cap {"snippet", "link", "site"}
        BY <1>1, <2>2 DEF Place
      <4>2. QED BY <4>1 DEF Served, Restrict
    <3>4. QED BY <1>1, <2>2, <3>1, <3>2, <3>3
  <2>3. CASE script = "vps"
    <3>1. InstallingVps' /\ place'["hook"] = run
      BY <2>1, <2>3, VpsAdvance
    <3>2. nginx'["link"] # Absent /\ nginx'["site"] = run' /\ cert'
      <4>1. 5..Left' = {}
        BY <2>1
      <4>2. QED BY <2>1, <3>1, <4>1 DEF InstallingVps
    <3>3. QED BY <1>1, <2>3, <3>1, <3>2
  <2>4. QED BY <1>1, <2>2, <2>3
<1>12. InstallTypeOK'
  BY <1>2, <1>6, TypePartsNext
<1>13. QED BY <1>7, <1>8, <1>9, <1>10, <1>11, <1>12 DEF InstallInv

\* A step fails.
LEMMA FailsKeeps == InstallInv /\ StepFails => InstallInv'
<1> SUFFICES ASSUME InstallInv, StepFails PROVE InstallInv'
  OBVIOUS
<1>1. /\ script \in {"apps", "vps"} /\ phase = "installing" /\ phase' = "restoring"
      /\ InProgress /\ Broken(Head(todo)) /\ AttemptOK /\ HostFacts
      /\ script' = script /\ run' = run /\ before' = before
  BY TypeParts DEF StepFails, InstallInv, InstallTypeOK, InProgress
<1>2. HostTypeOK' /\ WholeReleases'
  BY <1>1, HostKept
<1>3. (script = "apps" => RestoringApps') /\ (script = "vps" => RestoringVps')
      /\ todo' \in Seq(Step') /\ todo' # <<>>
  BY <1>1, AppsUndoBegin, VpsUndoBegin
<1>4. AttemptOK'
  <2>1. Place' = Place /\ InProgress'
    BY <1>1 DEF Place, InProgress
  <2>2. QED BY <1>1, <1>3, <2>1 DEF AttemptOK
<1>5. HostFacts'
  BY <1>1, <1>2, <1>3 DEF HostFacts
<1>6. InstallTypeOK'
  BY <1>2, <1>4, TypePartsNext
<1>7. QED BY <1>1, <1>3, <1>5, <1>6 DEF InstallInv, FailureRestores, InstalledServes

\* The script is killed.
LEMMA KilledKeeps == InstallInv /\ Killed => InstallInv'
<1> SUFFICES ASSUME InstallInv, Killed PROVE InstallInv'
  OBVIOUS
<1>1. /\ phase' = "killed" /\ todo' = <<>>
      /\ InProgress /\ Broken(Head(todo)) /\ AttemptOK /\ HostFacts
      /\ script' = script /\ run' = run /\ before' = before
  BY TypeParts DEF Killed, InstallInv
<1>2. HostTypeOK' /\ WholeReleases'
  BY <1>1, HostKept
<1>3. AttemptOK'
  <2>1. Place' = Place /\ ~InProgress'
    BY <1>1 DEF Place, InProgress
  <2>2. QED BY <1>1, <2>1 DEF AttemptOK
<1>4. HostFacts'
  <2>1. run' >= 1
    BY <1>1 DEF HostFacts, InProgress
  <2>2. todo' \in Seq(Step')
    BY <1>1, EmptySeq
  <2>3. QED BY <1>2, <2>1, <2>2 DEF HostFacts
<1>5. InstallTypeOK'
  BY <1>2, <1>3, TypePartsNext
<1>6. QED BY <1>1, <1>4, <1>5 DEF InstallInv, FailureRestores, InstalledServes

\* The host restarts.
LEMMA RebootKeeps == InstallInv /\ Reboot => InstallInv'
<1> SUFFICES ASSUME InstallInv, Reboot PROVE InstallInv'
  OBVIOUS
<1>1. /\ HostTypeOK /\ AttemptOK /\ WholeReleases /\ HostFacts /\ ~InProgress
      /\ phase' = "none" /\ nginx' = Served /\ script \in {"apps", "vps"}
      /\ script' = script /\ place' = place /\ releases' = releases /\ cert' = cert
      /\ enabled' = enabled /\ run' = run /\ todo' = todo /\ before' = before
      /\ loaded' = (IF script = "apps" THEN place["unit"] ELSE loaded)
      /\ proc' = (IF script = "apps" /\ enabled /\ Startable' THEN Started(loaded') ELSE Absent)
  BY TypeParts DEF Reboot, InstallInv, HostFacts, HostTypeOK, files
<1>2. Place' = Place /\ Served' = Served /\ Step' = Step
  BY <1>1 DEF Place, Served, Step
<1>3. loaded' \in Content /\ (script = "apps" => loaded' # Http)
  <2>1. CASE script = "apps"
    <3>1. "unit" \in Place
      BY <2>1 DEF Place
    <3>2. place["unit"] \in Content /\ place["unit"] # Http
      BY <1>1, <2>1, <3>1 DEF HostTypeOK, WholeReleases
    <3>3. QED BY <1>1, <2>1, <3>2
  <2>2. CASE script = "vps"
    BY <1>1, <2>2 DEF HostTypeOK
  <2>3. QED BY <1>1, <2>1, <2>2
<1>4. \/ proc' = Absent
      \/ proc'.current \in Nat /\ {proc'.env, proc'.unit} \subseteq Nat \cup {Torn}
  <2>1. CASE script = "apps" /\ Startable'
    <3>1. place["current"] # Absent /\ place["env"] # Absent /\ loaded' \notin {Absent, Torn}
      BY <1>1, <2>1 DEF Startable
    <3>2. place["current"] \in 1..MaxRuns
      BY <1>1, <2>1, <3>1 DEF HostTypeOK, WholeReleases
    <3>3. place["current"] \in Nat
      BY <3>2, InstallAssumption
    <3>4. place["env"] \in Nat \cup {Torn} /\ loaded' \in Nat \cup {Torn}
      BY <1>1, <1>3, <2>1, <3>1 DEF HostTypeOK, WholeReleases, Place, Content
    <3>5. CASE enabled
      <4>1. proc' = [current |-> place["current"], env |-> place["env"], unit |-> loaded']
        BY <1>1, <2>1, <3>5 DEF Started
      <4>2. QED BY <3>3, <3>4, <4>1
    <3>6. CASE ~enabled
      BY <1>1, <3>6
    <3>7. QED BY <3>5, <3>6
  <2>2. CASE ~(script = "apps" /\ Startable')
    BY <1>1, <2>2
  <2>3. QED BY <2>1, <2>2
<1>5. HostTypeOK'
  <2>1. Served \in [DOMAIN Served -> Content]
    BY <1>1, ServedType
  <2>2. QED BY <1>1, <1>2, <1>3, <1>4, <2>1 DEF HostTypeOK
<1>6. AttemptOK'
  <2>1. ~InProgress' /\ todo' = <<>>
    BY <1>1 DEF InProgress, AttemptOK
  <2>2. QED BY <1>1, <1>2, <2>1 DEF AttemptOK
<1>7. WholeReleases'
  BY <1>1, <1>2, <1>3 DEF WholeReleases
<1>8. HostFacts'
  BY <1>1, <1>2, <1>7 DEF HostFacts
<1>9. InstallTypeOK'
  BY <1>5, <1>6, TypePartsNext
<1>10. QED BY <1>1, <1>8, <1>9 DEF InstallInv, FailureRestores, InstalledServes

\* Nothing happens.
LEMMA StutterKeeps == InstallInv /\ UNCHANGED installVars => InstallInv'
<1> SUFFICES ASSUME InstallInv, UNCHANGED installVars PROVE InstallInv'
  OBVIOUS
<1>1. /\ script' = script /\ place' = place /\ releases' = releases /\ cert' = cert
      /\ loaded' = loaded /\ enabled' = enabled /\ proc' = proc /\ nginx' = nginx
      /\ run' = run /\ phase' = phase /\ todo' = todo /\ before' = before
  BY DEF installVars, files, running, attempt
<1>2. InstallTypeOK' /\ HostFacts'
  BY <1>1 DEF InstallInv, InstallTypeOK, InProgress, HostFacts, WholeReleases, Place, Served, Step
<1>3. (InstallingApps => InstallingApps') /\ (InstallingVps => InstallingVps')
  BY <1>1 DEF InstallingApps, InstallingVps, AppsDone, AppsPlan, VpsPlan, VpsLink, VpsHttp,
              FromEnd, Left
<1>4. (RestoringApps => RestoringApps') /\ (RestoringVps => RestoringVps')
  BY <1>1 DEF RestoringApps, RestoringVps, AppsUndo, AppsUndone, Start, Disable, RestoreVps,
              Startable, FromEnd, Left
<1>5. FailureRestores' /\ InstalledServes'
  BY <1>1 DEF InstallInv, FailureRestores, InstalledServes, Startable, Served, Place
<1>6. QED BY <1>1, <1>2, <1>3, <1>4, <1>5 DEF InstallInv

(***************************************************************************)
(* Every step keeps InstallInv: an installation begins, each of its steps  *)
(* and of its roll-back succeeds, fails or is cut short, or the host       *)
(* restarts.                                                               *)
(***************************************************************************)
THEOREM InstallInvNext == InstallInv /\ [InstallNext]_installVars => InstallInv'
BY BeginKeeps, SucceedsKeeps, FailsKeeps, KilledKeeps, RebootKeeps, StutterKeeps DEF InstallNext

(***************************************************************************)
(* So InstallInv holds in every state, whatever number of runs is killed.  *)
(***************************************************************************)
THEOREM InstallInvariant == InstallSpec => []InstallInv
BY InstallInvInit, InstallInvNext, PTL DEF InstallSpec

(***************************************************************************)
(* The host, the run and what it found are of the right kind, and an       *)
(* installation is in progress exactly while it has steps left             *)
(* (deploy/install-apps.py, deploy/install-vps.py).                        *)
(***************************************************************************)
THEOREM InstallTypeCorrect == InstallSpec => []InstallTypeOK
<1>1. InstallInv => InstallTypeOK
  BY DEF InstallInv
<1>2. QED BY <1>1, InstallInvariant, PTL

(***************************************************************************)
(* An installation whose step fails, wherever it fails and whatever        *)
(* earlier ones left, ends with the files of before, read by nginx, and    *)
(* with the service as it was (the roll-backs of both installers).         *)
(***************************************************************************)
THEOREM FailuresAreRestored == InstallSpec => []FailureRestores
<1>1. InstallInv => FailureRestores
  BY DEF InstallInv
<1>2. QED BY <1>1, InstallInvariant, PTL

(***************************************************************************)
(* Whenever an installation or its roll-back is killed, the link `current` *)
(* leads to a whole release or is not there (install-apps.py).             *)
(***************************************************************************)
THEOREM CurrentStaysComplete == InstallSpec => []CurrentIsComplete
<1>1. InstallInv => CurrentIsComplete
  BY DEF InstallInv, HostFacts, WholeReleases, CurrentIsComplete
<1>2. QED BY <1>1, InstallInvariant, PTL

(***************************************************************************)
(* An installation that ends well is what runs and what nginx serves,      *)
(* whatever one that was killed left behind (both installers).             *)
(***************************************************************************)
THEOREM InstallationsServe == InstallSpec => []InstalledServes
<1>1. InstallInv => InstalledServes
  BY DEF InstallInv
<1>2. QED BY <1>1, InstallInvariant, PTL

=============================================================================
