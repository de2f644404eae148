------------------------------ MODULE Install ------------------------------
(***************************************************************************)
(* The two installers, deploy/install-apps.py (the node: release, service  *)
(* and nginx location) and deploy/install-vps.py (the public nginx site),  *)
(* and the host they change.                                               *)
(*                                                                         *)
(* An installation is a sequence of steps.  One that fails rolls back what *)
(* was there before; one that is killed (a signal, a power cut, an error   *)
(* of the roll-back itself) leaves everything as it is, the file that it   *)
(* was writing torn.  Texts are told apart by the run that wrote them.     *)
(***************************************************************************)
EXTENDS Naturals, Sequences, Functions

CONSTANTS MaxRuns,  \* bound: installations
          Absent,   \* there is no such file, link or process
          Torn,     \* a file that was truncated and not written
          Http      \* the site of install-vps.py without its HTTPS part

ASSUME InstallAssumption ==
    /\ MaxRuns \in Nat
    /\ Absent \notin Nat \cup {Torn, Http} /\ Torn \notin Nat \cup {Http} /\ Http \notin Nat
    /\ Absent \notin [current : Nat, env : Nat \cup {Torn}, unit : Nat \cup {Torn}]

VARIABLES script,   \* which installer this host has
          place,    \* place[p]: the content of the file or link p
          releases, \* the complete directories of /opt/maia-meet/releases
          cert,     \* there is a certificate
          loaded,   \* the unit as systemd has read it
          enabled,  \* the service starts with the host
          proc,     \* what the service was started with, or Absent
          nginx,    \* the files as nginx has read them
          run,      \* installations so far
          phase,    \* what became of the last one
          todo,     \* the steps it has still to do
          before    \* what it found: files, service active, service enabled

files == <<place, releases, cert>>
running == <<loaded, enabled, proc, nginx>>
attempt == <<run, phase, todo, before>>
installVars == <<script, files, running, attempt>>

Content == Nat \cup {Absent, Torn, Http}

Place == IF script = "apps" THEN {"current", "env", "unit", "snippet", "site"}
                            ELSE {"link", "site", "hook"}

Served == Restrict(place, Place \cap {"snippet", "link", "site"})

InProgress == phase \in {"installing", "restoring"}

InstallTypeOK ==
    /\ script \in {"apps", "vps"} /\ place \in [Place -> Content]
    /\ releases \subseteq 1..MaxRuns /\ cert \in BOOLEAN
    /\ loaded \in Content /\ enabled \in BOOLEAN
    /\ \/ proc = Absent
       \/ proc.current \in Nat /\ {proc.env, proc.unit} \subseteq Nat \cup {Torn}
    /\ nginx \in [DOMAIN Served -> Content]
    /\ run \in 0..MaxRuns
    /\ phase \in {"none", "installing", "restoring", "installed", "failed", "killed"}
    /\ InProgress <=> todo # <<>>
    /\ before.place \in [Place -> Content] /\ {before.active, before.enabled} \subseteq BOOLEAN

Found == [place |-> place, active |-> proc # Absent, enabled |-> enabled]

\* The site of the node is there before Meet is, as version 0.
InstallInit ==
    /\ script \in {"apps", "vps"}
    /\ place = [p \in Place |-> IF script = "apps" /\ p = "site" THEN 0 ELSE Absent]
    /\ releases = {} /\ cert \in BOOLEAN
    /\ loaded = Absent /\ enabled = FALSE /\ proc = Absent /\ nginx = Served
    /\ run = 0 /\ phase = "none" /\ todo = <<>> /\ before = Found

-----------------------------------------------------------------------------
(* The steps of run n. *)

\* Faulty: the release is made current before it is copied.
AppsStepsLinkFirst(n) ==
    << <<"link", "current", Absent>>, <<"link", "current", n>>, <<"copy">>,
       <<"write", "env", n>>, <<"write", "unit", n>>, <<"write", "snippet", n>>,
       <<"write", "site", IF place["site"] = 0 THEN n ELSE place["site"]>>,
       <<"check">>, <<"daemon-reload">>, <<"start">>, <<"check">>, <<"enable">>, <<"reload">> >>

\* site_config() adds its include to the site that has none
AppsSteps(n) ==
    << <<"copy">>, <<"link", "current", Absent>>, <<"link", "current", n>>,
       <<"write", "env", n>>, <<"write", "unit", n>>, <<"write", "snippet", n>>,
       <<"write", "site", IF place["site"] = 0 THEN n ELSE place["site"]>>,
       <<"check">>, <<"daemon-reload">>, <<"start">>, <<"check">>, <<"enable">>, <<"reload">> >>

\* Faulty: nginx is not told of the site with HTTPS.
VpsStepsUnread(n) ==
    (IF place["link"] = Absent THEN << <<"link", "link", 0>> >> ELSE <<>>)
    \o (IF cert THEN <<>> ELSE << <<"write", "site", Http>>, <<"reload">>, <<"certbot">> >>)
    \o << <<"check">>, <<"write", "site", n>>, <<"write", "hook", n>> >>

VpsSteps(n) ==
    (IF place["link"] = Absent THEN << <<"link", "link", 0>> >> ELSE <<>>)
    \o (IF cert THEN <<>> ELSE << <<"write", "site", Http>>, <<"reload">>, <<"certbot">> >>)
    \o << <<"check">>, <<"write", "site", n>>, <<"reload">>, <<"write", "hook", n>> >>

\* Faulty: the environment is not among the paths that are backed up.
RestoreAppsForgets ==
    << <<"stop">>, <<"link", "current", Absent>>, <<"link", "current", before.place["current"]>>,
       <<"write", "site", before.place["site"]>>, <<"write", "snippet", before.place["snippet"]>>,
       <<"write", "unit", before.place["unit"]>> >>
    \o (IF before.enabled THEN <<>> ELSE << <<"disable">> >>) \o << <<"daemon-reload">> >>
    \o (IF before.active THEN << <<"start">> >> ELSE <<>>) \o << <<"reload">> >>

\* The roll-backs; to write or link what was absent is to unlink
RestoreApps ==
    << <<"stop">>, <<"link", "current", Absent>>, <<"link", "current", before.place["current"]>>,
       <<"write", "site", before.place["site"]>>, <<"write", "snippet", before.place["snippet"]>>,
       <<"write", "unit", before.place["unit"]>>, <<"write", "env", before.place["env"]>> >>
    \o (IF before.enabled THEN <<>> ELSE << <<"disable">> >>) \o << <<"daemon-reload">> >>
    \o (IF before.active THEN << <<"start">> >> ELSE <<>>) \o << <<"reload">> >>

RestoreVps ==
    << <<"link", "link", before.place["link"]>>, <<"write", "site", before.place["site"]>>,
       <<"write", "hook", before.place["hook"]>>, <<"reload">> >>

-----------------------------------------------------------------------------
(* What a step does to the host. *)

\* What systemd starts; there must be a release, an environment and a unit
Startable == /\ place["current"] # Absent /\ place["env"] # Absent
             /\ loaded \notin {Absent, Torn}

Started(unit) == [current |-> place["current"], env |-> place["env"], unit |-> unit]

Perform(step) ==
    \/ /\ step[1] \in {"link", "write"}
       /\ place' = [place EXCEPT ![step[2]] = step[3]]
       /\ UNCHANGED <<releases, cert, running>>
    \/ /\ step[1] \in {"copy", "certbot"}
       /\ releases' = IF step[1] = "copy" THEN releases \cup {run} ELSE releases
       /\ cert' = (cert \/ step[1] = "certbot")
       /\ UNCHANGED <<place, running>>
    \/ /\ step[1] = "daemon-reload"
       /\ loaded' = place["unit"]
       /\ UNCHANGED <<files, enabled, proc, nginx>>
    \/ /\ step[1] \in {"start", "stop"}
       /\ proc' = IF step[1] = "start" /\ Startable THEN Started(loaded) ELSE Absent
       /\ UNCHANGED <<files, loaded, enabled, nginx>>
    \/ /\ step[1] \in {"enable", "disable"}
       /\ enabled' = (step[1] = "enable")
       /\ UNCHANGED <<files, loaded, proc, nginx>>
    \/ /\ step[1] = "reload"
       /\ nginx' = Served
       /\ UNCHANGED <<files, loaded, enabled, proc>>
    \/ /\ step[1] = "check"
       /\ UNCHANGED <<files, running>>

\* The step is not done, or not to its end
Broken(step) ==
    \/ UNCHANGED <<files, running>>
    \/ /\ step[1] = "write" /\ step[3] # Absent
       /\ place' = [place EXCEPT ![step[2]] = Torn]
       /\ UNCHANGED <<releases, cert, running>>
    \/ /\ step[1] = "start"
       /\ proc' = Absent
       /\ UNCHANGED <<files, loaded, enabled, nginx>>

-----------------------------------------------------------------------------
(* Actions. *)

\* The checks that refuse: files without their marker, a site that nginx cannot read
Acceptable ==
    /\ place["site"] # Torn
    /\ IF script = "apps" THEN place["snippet"] # Torn
       ELSE place["hook"] # Torn /\ ~(place["link"] # Absent /\ place["site"] = Absent)

BeginInstall ==
    /\ ~InProgress /\ run < MaxRuns /\ Acceptable
    /\ run' = run + 1
    /\ phase' = "installing"
    /\ before' = Found
    /\ todo' = IF script = "apps" THEN AppsSteps(run') ELSE VpsSteps(run')
    /\ UNCHANGED <<script, files, running>>

StepSucceeds ==
    /\ InProgress
    /\ Perform(Head(todo))
    /\ todo' = Tail(todo)
    /\ phase' = CASE todo' # <<>> -> phase
                  [] todo' = <<>> /\ phase = "installing" -> "installed"
                  [] todo' = <<>> /\ phase = "restoring" -> "failed"
    /\ UNCHANGED <<script, run, before>>

StepFails ==
    /\ phase = "installing"
    /\ Broken(Head(todo))
    /\ phase' = "restoring"
    /\ todo' = IF script = "apps" THEN RestoreApps ELSE RestoreVps
    /\ UNCHANGED <<script, run, before>>

Killed ==
    /\ InProgress
    /\ Broken(Head(todo))
    /\ phase' = "killed"
    /\ todo' = <<>>
    /\ UNCHANGED <<script, run, before>>

\* Faulty: the service starts although there may be no release to run.
RebootBlindly ==
    /\ ~InProgress
    /\ nginx' = Served
    /\ script = "apps"
    /\ loaded' = place["unit"]
    /\ proc' = Started(place["unit"])
    /\ phase' = "none"
    /\ UNCHANGED <<script, files, enabled, run, todo, before>>

\* The host starts again: systemd reads the unit, nginx its files.
Reboot ==
    /\ ~InProgress
    /\ phase' = "none"
    /\ nginx' = Served
    /\ UNCHANGED <<script, files, enabled, run, todo, before>>
    /\ loaded' = IF script = "apps" THEN place["unit"] ELSE loaded
    /\ proc' = IF script = "apps" /\ enabled /\ Startable' THEN Started(loaded') ELSE Absent

InstallNext == BeginInstall \/ StepSucceeds \/ StepFails \/ Killed \/ Reboot

InstallSpec == InstallInit /\ [][InstallNext]_installVars

-----------------------------------------------------------------------------
(* Properties. *)

(***************************************************************************)
(* deploy/README.md, lines 97-98: "installation errors restore the previous   *)
(* files/release and prior service state".  Whichever step fails, and      *)
(* whatever earlier runs left, the files are those of before, nginx has    *)
(* read them, and the service is as it was, if what it was started from is *)
(* still there.                                                            *)
(***************************************************************************)
FailureRestores ==
    phase = "failed" =>
        /\ place = before.place /\ nginx = Served
        /\ enabled = before.enabled
        /\ (proc # Absent) <=> (before.active /\ Startable)

(***************************************************************************)
(* The link `current` never leads to a release that is not all there:      *)
(* whatever the moment at which an installation or its roll-back is        *)
(* killed, the host can be restarted into a whole release or into none.    *)
(***************************************************************************)
CurrentIsComplete ==
    script = "apps" => place["current"] \in releases \cup {Absent}

(***************************************************************************)
(* An installation that ends well is what is served, whatever an earlier   *)
(* one that was killed left behind: the service runs its release with its  *)
(* environment and unit and starts with the host, and nginx has read its   *)
(* site, with HTTPS on the public one.                                     *)
(***************************************************************************)
InstalledServes ==
    phase = "installed" =>
        IF script = "apps"
        THEN /\ proc = [current |-> run, env |-> run, unit |-> run] /\ enabled
             /\ nginx["snippet"] = run /\ nginx["site"] # 0
        ELSE /\ nginx["link"] # Absent /\ nginx["site"] = run
             /\ place["hook"] = run /\ cert
=============================================================================
