----------------------------- MODULE NodeControl -----------------------------
(***************************************************************************)
(* The installed node as its operator drives it: the commands of the       *)
(* `decent` binary (login, logout, install, uninstall, pause, resume,      *)
(* upgrade), the service manager they call (launchd or systemd --user) and *)
(* the daemon that the manager keeps up (src/bins/decent/src/main.rs and   *)
(* service.rs).  A command runs step by step beside the daemon, may be     *)
(* interrupted between two steps, and any call to the manager may fail.    *)
(*                                                                         *)
(* The state is spread over parties that do not tell each other: the token *)
(* file and the token a process read when it started, the unit file and    *)
(* what the manager holds, the binary on disk and the one that runs, the   *)
(* daemon-status file and the daemon that wrote it.                        *)
(*                                                                         *)
(* One operator runs one command at a time.  A version is a number in the  *)
(* order of release; 0 is a daemon from before the version line of         *)
(* daemon-status.  The manager chosen in Init stands for the platform the  *)
(* code was compiled for.                                                  *)
(***************************************************************************)
EXTENDS Naturals

CONSTANTS
    Tokens,     \* worker tokens an operator may store
    None,       \* no token
    Releases    \* bound on the versions the channel releases

ASSUME NoneIsNoToken == None \notin Tokens
ASSUME ReleasesAreCounted == Releases \in Nat /\ Releases > 0

VARIABLES
    manager,    \* "launchd" or "systemd": the platform
    token,      \* the token file
    unit,       \* the plist or unit file exists
    link,       \* systemd: the unit is enabled
    known,      \* the manager holds the unit's definition (launchd: loaded)
    wants,      \* the manager keeps the daemon up (systemd: active, activating)
    leaving,    \* the manager told the process to end, and it has not yet
    proc,       \* the daemon: "down", "boot" (token not read yet) or "up"
    holds,      \* the token the process read
    version,    \* the version of the process
    binary,     \* the version on disk
    snap,       \* the version line of daemon-status (0: none)
    pc,         \* the next step of the command that runs, or "idle"
    own,        \* the version of the `decent upgrade` that runs
    unapplied,  \* a login could not or did not reach the running process
    survivor,   \* an uninstall's call to the manager failed on a wanted daemon
    paused,     \* the operator paused the node and nothing since starts it
    gone,       \* the operator was told that the daemon is uninstalled
    assured,    \* the version `upgrade` last said the daemon is on (0: none)
    installed   \* the version `install` last put into service (0: none)

nodeFiles == <<token, unit, binary, snap>>
managerHolds == <<link, known, wants, leaving>>
process == <<proc, holds, version>>
told == <<unapplied, survivor, paused, gone, assured, installed>>
vars == <<manager, nodeFiles, managerHolds, process, pc, own, told>>

Versions == 0 .. Releases

Steps == {"idle", "apply", "unload", "write", "bootstrap", "reload", "enable",
          "remove", "forget", "package", "look", "restart"}

FlagsOK ==
    /\ unit \in BOOLEAN /\ link \in BOOLEAN /\ known \in BOOLEAN
    /\ wants \in BOOLEAN /\ leaving \in BOOLEAN
    /\ unapplied \in BOOLEAN /\ survivor \in BOOLEAN
    /\ paused \in BOOLEAN /\ gone \in BOOLEAN

TypeOK ==
    /\ FlagsOK
    /\ manager \in {"launchd", "systemd"}
    /\ token \in Tokens \union {None}
    /\ holds \in Tokens \union {None}
    /\ proc \in {"down", "boot", "up"}
    /\ version \in Versions /\ snap \in Versions
    /\ binary \in 1 .. Releases /\ own \in 1 .. Releases
    /\ pc \in Steps
    /\ assured \in Versions /\ installed \in Versions

\* A fresh machine, or a node whose daemon an earlier release installed and
\* which still runs that release after the binary was swapped.
Init ==
    /\ manager \in {"launchd", "systemd"}
    /\ \/ token = None /\ unit = FALSE
       \/ token \in Tokens /\ unit = TRUE
    /\ link = (unit /\ manager = "systemd")
    /\ known = unit /\ wants = unit /\ leaving = FALSE
    /\ proc = IF unit THEN "up" ELSE "down"
    /\ holds = token /\ version = 0 /\ binary = 1 /\ snap = 0
    /\ pc = "idle" /\ own = 1
    /\ unapplied = FALSE /\ survivor = FALSE /\ paused = FALSE /\ gone = FALSE
    /\ assured = 0 /\ installed = 0

---------------------------------------------------------------------------
(* What the service manager does for a command *)

\* service::state: the unit file first, then what the manager says.
DaemonState ==
    IF ~unit THEN "NotInstalled" ELSE IF wants THEN "Running" ELSE "Paused"

\* The daemon is stopped: launchd's unload and bootout also forget it.
ManagerStops ==
    /\ wants' = FALSE
    /\ known' = (known /\ manager = "systemd")
    /\ leaving' = (proc # "down")
    /\ survivor' = FALSE

\* The daemon is wanted up again; a process that is leaving leaves first.
ManagerStarts == wants' = TRUE /\ known' = TRUE

\* Slip: kickstart without -k, which leaves a running process alone.
ManagerKicks ==
    /\ ManagerStarts
    /\ UNCHANGED <<leaving, link>>

\* kickstart -k or `systemctl restart`: the process is ended, another follows.
ManagerRestarts ==
    /\ ManagerStarts
    /\ leaving' = (proc # "down")
    /\ UNCHANGED link

\* What service::restart asks first.  systemd restarts a stopped unit too.
CanRestart == IF manager = "launchd" THEN known ELSE DaemonState # "NotInstalled"

Becomes(next) == pc' = next

---------------------------------------------------------------------------
(* login and logout *)

SaveToken(t) ==
    /\ pc = "idle" /\ Becomes("apply")
    /\ token' = t
    /\ UNCHANGED <<manager, unit, binary, snap, managerHolds, process, own, told>>

\* Slip: the daemon is restarted without a look at its state.
ApplyTokenAlways ==
    /\ pc = "apply" /\ Becomes("idle")
    /\ \/ CanRestart /\ ManagerRestarts /\ unapplied' = FALSE
       \/ UNCHANGED managerHolds /\ unapplied' = (proc = "up")
    /\ UNCHANGED <<manager, nodeFiles, process, own, survivor, paused, gone,
                   assured, installed>>

\* apply_token_to_running_daemon: only a Running daemon is restarted.  A failed
\* restart is a warning; without a unit file the process is taken for absent.
ApplyToken ==
    /\ pc = "apply" /\ Becomes("idle")
    /\ \/ /\ DaemonState = "Running"
          /\ ManagerRestarts
          /\ unapplied' = FALSE
       \/ /\ DaemonState # "Paused"
          /\ unapplied' = (proc = "up")
          /\ UNCHANGED managerHolds
       \/ /\ DaemonState = "Paused"
          /\ UNCHANGED <<managerHolds, unapplied>>
    /\ UNCHANGED <<manager, nodeFiles, process, own, survivor, paused, gone,
                   assured, installed>>

\* Nothing but the file: a running daemon stays connected with what it read.
Logout ==
    /\ pc = "idle"
    /\ token' = None
    /\ UNCHANGED <<manager, unit, binary, snap, managerHolds, process, pc, own, told>>

---------------------------------------------------------------------------
(* install *)

Install ==
    /\ pc = "idle" /\ token # None
    /\ Becomes(IF manager = "launchd" /\ unit THEN "unload" ELSE "write")
    /\ UNCHANGED <<manager, nodeFiles, managerHolds, process, own, told>>

\* A reinstall on launchd unloads the agent first; a failure is only a warning.
UnloadFirst ==
    /\ pc = "unload" /\ Becomes("write")
    /\ \/ ManagerStops /\ UNCHANGED link
       \/ UNCHANGED <<managerHolds, survivor>>
    /\ UNCHANGED <<manager, nodeFiles, process, own, unapplied, paused, gone,
                   assured, installed>>

\* require_systemd or the write itself may fail.
WriteUnit ==
    /\ pc = "write"
    /\ \/ /\ unit' = TRUE /\ gone' = FALSE
          /\ Becomes(IF manager = "launchd" THEN "bootstrap" ELSE "reload")
       \/ Becomes("idle") /\ UNCHANGED <<unit, gone>>
    /\ UNCHANGED <<manager, token, binary, snap, managerHolds, process, own,
                   unapplied, survivor, paused, assured, installed>>

InService == paused' = FALSE /\ installed' = binary

\* An agent that is still loaded is booted out and bootstrapped again.
Bootstrap ==
    /\ pc = "bootstrap" /\ Becomes("idle")
    /\ \/ /\ ManagerStarts /\ InService
          /\ leaving' = (leaving \/ (known /\ proc # "down"))
          /\ UNCHANGED survivor
       \/ ManagerStops /\ UNCHANGED <<paused, installed>>
       \/ UNCHANGED <<known, wants, leaving, survivor, paused, installed>>
    /\ UNCHANGED <<manager, nodeFiles, link, process, own, unapplied, gone, assured>>

ReloadUnits ==
    /\ pc = "reload"
    /\ \/ known' = TRUE /\ Becomes("enable")
       \/ Becomes("idle") /\ UNCHANGED known
    /\ UNCHANGED <<manager, nodeFiles, link, wants, leaving, process, own, told>>

\* `enable --now` starts a stopped unit and leaves an active one alone.  It may
\* fail in its second half.
EnableNow ==
    /\ pc = "enable" /\ Becomes("idle")
    /\ \/ link' = TRUE /\ ManagerStarts /\ InService
       \/ (link' = TRUE \/ UNCHANGED link) /\ UNCHANGED <<known, wants, paused, installed>>
    /\ UNCHANGED <<manager, nodeFiles, leaving, process, own, unapplied, survivor,
                   gone, assured>>

---------------------------------------------------------------------------
(* uninstall *)

\* unload or `disable --now`: both need the file, and the result is ignored.
StopForGood ==
    \/ unit /\ ManagerStops /\ link' = FALSE
    \/ /\ link' = FALSE \/ UNCHANGED link
       /\ survivor' = (survivor \/ (unit /\ wants))
       /\ UNCHANGED <<known, wants, leaving>>

\* Slip: the file is removed first, and the stop that follows finds none.
UninstallFileFirst ==
    /\ pc = "idle"
    /\ unit' = FALSE /\ gone' = TRUE
    /\ UNCHANGED <<manager, token, binary, snap, managerHolds, process, pc, own,
                   unapplied, survivor, paused, assured, installed>>

Uninstall ==
    /\ pc = "idle" /\ Becomes("remove")
    /\ StopForGood
    /\ UNCHANGED <<manager, nodeFiles, process, own, unapplied, paused, gone,
                   assured, installed>>

RemoveUnit ==
    /\ pc = "remove"
    /\ \/ /\ unit' = FALSE
          /\ Becomes(IF manager = "launchd" THEN "idle" ELSE "forget")
          /\ gone' = (gone \/ manager = "launchd")
       \/ unit /\ Becomes("idle") /\ UNCHANGED <<unit, gone>>
    /\ UNCHANGED <<manager, token, binary, snap, managerHolds, process, own,
                   unapplied, survivor, paused, assured, installed>>

\* The last daemon-reload; its result is ignored.
Forget ==
    /\ pc = "forget" /\ Becomes("idle")
    /\ known' = FALSE \/ UNCHANGED known
    /\ gone' = TRUE
    /\ UNCHANGED <<manager, nodeFiles, link, wants, leaving, process, own,
                   unapplied, survivor, paused, assured, installed>>

---------------------------------------------------------------------------
(* pause and resume; a refused call leaves all as it was *)

Pause ==
    /\ pc = "idle" /\ unit
    /\ ManagerStops /\ paused' = TRUE
    /\ UNCHANGED <<manager, nodeFiles, link, process, pc, own, unapplied, gone,
                   assured, installed>>

Resume ==
    /\ pc = "idle" /\ unit
    /\ ManagerStarts /\ paused' = FALSE
    /\ UNCHANGED <<manager, nodeFiles, link, leaving, process, pc, own, unapplied,
                   survivor, gone, assured, installed>>

---------------------------------------------------------------------------
(* upgrade *)

Upgrade ==
    /\ pc = "idle" /\ Becomes("package")
    /\ own' = binary
    /\ UNCHANGED <<manager, nodeFiles, managerHolds, process, told>>

\* The package manager and upgrade_outcome: a changed binary, an error, or
\* AlreadyCurrent, which a formula that pins `own` or a version that cannot be
\* read yield whatever is on disk.
RunPackageManager ==
    /\ pc = "package"
    /\ binary' \in binary .. Releases
    /\ \/ binary' # own /\ Becomes("restart")
       \/ Becomes("look")
       \/ Becomes("idle")
    /\ UNCHANGED <<manager, token, unit, snap, managerHolds, process, own, told>>

\* What read_daemon_snapshot finds: the line of whichever daemon wrote last, none
\* from an old release or without a whole file.  Its age is not looked at.
VersionLine == snap

\* daemon_binary_state: the daemon is current when its version line says so, and
\* stale with another line or none.
DaemonIsCurrent == VersionLine = own

\* Slip: AlreadyCurrent is taken for the daemon's version as well.
LookNoFurther ==
    /\ pc = "look" /\ Becomes("idle")
    /\ assured' = own
    /\ UNCHANGED <<manager, nodeFiles, managerHolds, process, own, unapplied,
                   survivor, paused, gone, installed>>

\* AlreadyCurrent(own): a stale daemon is restarted, a current one is left.
LookAtDaemon ==
    /\ pc = "look"
    /\ \/ DaemonIsCurrent /\ Becomes("idle") /\ assured' = own
       \/ ~DaemonIsCurrent /\ Becomes("restart") /\ UNCHANGED assured
    /\ UNCHANGED <<manager, nodeFiles, managerHolds, process, own, unapplied,
                   survivor, paused, gone, installed>>

\* The restart starts a paused unit of systemd.
RestartDaemon ==
    /\ pc = "restart" /\ Becomes("idle")
    /\ \/ /\ CanRestart /\ ManagerRestarts
          /\ assured' = binary /\ paused' = FALSE
       \/ UNCHANGED <<managerHolds, assured, paused>>
    /\ UNCHANGED <<manager, nodeFiles, process, own, unapplied, survivor, gone,
                   installed>>

---------------------------------------------------------------------------
(* The daemon, and what happens around the commands *)

\* Only a manager that holds the definition brings a process back.
ProcessEnds ==
    /\ proc' = "down" /\ leaving' = FALSE /\ unapplied' = FALSE
    /\ wants' = (wants /\ known)

Launch ==
    /\ proc = "down" /\ wants /\ known
    /\ proc' = "boot" /\ version' = binary
    /\ UNCHANGED <<manager, nodeFiles, managerHolds, holds, pc, own, told>>

\* `decent start` reads the token once; without one it exits.
ReadToken ==
    /\ proc = "boot"
    /\ \/ /\ token # None
          /\ proc' = "up" /\ holds' = token
          /\ UNCHANGED <<leaving, unapplied, wants>>
       \/ token = None /\ ProcessEnds /\ UNCHANGED holds
    /\ UNCHANGED <<manager, nodeFiles, link, known, version, pc, own, survivor,
                   paused, gone, assured, installed>>

WriteSnapshot ==
    /\ proc = "up"
    /\ snap' = version
    /\ UNCHANGED <<manager, token, unit, binary, managerHolds, process, pc, own, told>>

\* A crash, an exit of its own (an unattended upgrade), or the manager's stop.
Exit ==
    /\ proc # "down" /\ ProcessEnds
    /\ UNCHANGED <<manager, nodeFiles, link, known, holds, version, pc, own,
                   survivor, paused, gone, assured, installed>>

\* The binary is swapped by someone else: brew on its own, or the daemon.
SwapBinary ==
    /\ binary' \in binary + 1 .. Releases
    /\ UNCHANGED <<manager, token, unit, snap, managerHolds, process, pc, own, told>>

\* The operator interrupts the command that runs.
Interrupt ==
    /\ pc # "idle" /\ Becomes("idle")
    /\ unapplied' = (unapplied \/ (pc = "apply" /\ proc = "up"))
    /\ UNCHANGED <<manager, nodeFiles, managerHolds, process, own, survivor, paused,
                   gone, assured, installed>>

\* The machine restarts: an agent's plist is loaded at login, an enabled unit
\* is started.
Reboot ==
    /\ Becomes("idle")
    /\ proc' = "down" /\ leaving' = FALSE
    /\ known' = unit /\ wants' = (unit /\ (manager = "launchd" \/ link))
    /\ unapplied' = FALSE /\ survivor' = FALSE /\ paused' = FALSE
    /\ UNCHANGED <<manager, nodeFiles, link, holds, version, own, gone, assured,
                   installed>>

---------------------------------------------------------------------------
Command ==
    \/ \E t \in Tokens : SaveToken(t)
    \/ ApplyToken \/ Logout
    \/ Install \/ UnloadFirst \/ WriteUnit \/ Bootstrap \/ ReloadUnits \/ EnableNow
    \/ Uninstall \/ RemoveUnit \/ Forget
    \/ Pause \/ Resume
    \/ Upgrade \/ RunPackageManager \/ LookAtDaemon \/ RestartDaemon

Around ==
    \/ Launch \/ ReadToken \/ WriteSnapshot \/ Exit
    \/ SwapBinary \/ Interrupt \/ Reboot

Next == Command \/ Around

Spec == Init /\ [][Next]_vars

---------------------------------------------------------------------------
(* Properties *)

\* After a login the running daemon connects with the stored token: a process
\* that read another one is being ended, unless the login still has its restart
\* to do or could not reach the process (main.rs:1112-1117, 1494-1516).
TokenTakesEffect ==
    proc = "up" /\ ~leaving /\ token # None /\ pc # "apply" /\ ~unapplied
        => holds = token

\* After "Uninstalled" nothing wants the daemon up and no process stays, unless
\* the manager refused the stop, and no later command or restart of the machine
\* brings it back (service.rs:338-347, 622-630).
UninstallIsFinal ==
    gone => /\ ~unit
            /\ wants => survivor
            /\ proc # "down" => leaving \/ survivor

\* A paused node stays down whatever token is stored meanwhile: only resume,
\* install, a restart of the machine or an upgrade bring it back
\* (service.rs:366-381, 646-659).
PauseHolds == paused => ~wants /\ (proc # "down" => leaving)

\* A daemon that stays is never older than the version `decent upgrade` said
\* it is on, whether it restarted it or found nothing to do
\* (main.rs:1348-1395, 1574-1629).
UpgradeReachesDaemon == proc # "down" /\ ~leaving => version >= assured

\* What `decent status` and the changelog promise of `decent install`: it
\* restarts a daemon that runs an older binary (main.rs:1643-1646).
InstallRestarts == proc # "down" /\ ~leaving => version >= installed

=============================================================================
