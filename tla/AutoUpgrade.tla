---------------------------- MODULE AutoUpgrade ----------------------------
(***************************************************************************)
(* The installed daemon around run_until_exit: the loop of `decent start`, *)
(* the ledger that keeps unattended upgrades from looping, the package     *)
(* manager it runs, the service manager that stops and relaunches it, and  *)
(* the operator's commands.  A session is here only its upgrade gate; what *)
(* it does with jobs is SupervisorSession.                                 *)
(*                                                                         *)
(* One clock stands for the wall clock of the ledger and the monotonic one *)
(* of the gate.  A version is its place in the order of releases.          *)
(***************************************************************************)
EXTENDS Integers

CONSTANTS
    Releases,    \* versions are 1 .. Releases, the daemon starts as 1
    Targets,     \* what dispatch announces
    Malformed,   \* a target that is no version
    None,
    Window,      \* RETRY_SUPPRESS_MS
    Quiet,       \* AUTO_UPGRADE_QUIET_PERIOD
    MaxTime,     \* bound: the clock stops there
    MaxCrashes   \* bound: crashes

Versions == 1 .. Releases
Outcomes == {"started", "failed", "rejected", "upgraded", "already-current"}

ASSUME UpgradeAssumption ==
    /\ Releases \in Nat \ {0} /\ Window \in Nat \ {0} /\ Quiet \in Nat
    /\ MaxTime \in Nat /\ MaxCrashes \in Nat
    /\ Targets \subseteq Versions \cup {Malformed}
    /\ Malformed \notin Int /\ None \notin Outcomes \cup Int \cup {Malformed}
    /\ None \notin [target : Targets, at : Nat, outcome : Outcomes]

VARIABLES
    now,         \* now_ms
    flag,        \* on disk: the opt-in
    ledger,      \* on disk: the last AttemptRecord
    installed,   \* on disk: the version the next process runs
    channel,     \* the newest release the package manager can see
    loaded,      \* the service manager keeps the daemon up
    stopping,    \* it is stopping the process: TERM, and later KILL
    pc,          \* where the daemon is
    running,     \* the version the process was built as
    optIn,       \* obs.auto_upgrade_enabled
    policy,      \* AutoUpgradePolicy: suppressed_version, suppressed_for
    gate,        \* AutoUpgradeGate: target, idle_since, suppressed_until
    busy,        \* a job or a teardown is live
    target,      \* ConnectionExit::AutoUpgrade's version
    attempted,   \* attempted_at_ms, taken as the handoff begins
    latest,      \* what the refreshed tap pins, None if unreadable
    outcome,     \* what apply is about to record or return
    terminate,   \* terminate_after_upgrade
    orphan,      \* a package manager outlived its daemon
    crashes,     \* so far
    last,        \* history: the last transaction, while the ledger is about it
    over         \* history: this process has no business serving again

disk == <<flag, ledger, installed, channel>>
session == <<policy, gate, busy>>
attempt == <<target, attempted, latest, outcome, terminate>>
manager == <<loaded, stopping>>
vars == <<now, disk, manager, pc, running, optIn, session, attempt, orphan,
          crashes, last, over>>

NoGate == [target |-> None, since |-> None, until |-> 0]
NoPolicy == [version |-> None, span |-> 0]

\* A select that polls await_termination: around the run, around apply.
Serving == {"connect", "session"}
Applying == {"apply", "tap", "package", "record"}

Init ==
    /\ now = 0 /\ crashes = 0 /\ orphan = FALSE
    /\ flag \in BOOLEAN /\ ledger = None /\ installed = 1 /\ channel \in Versions
    /\ loaded = TRUE /\ stopping = FALSE
    /\ pc = "down" /\ running = 1 /\ optIn = FALSE
    /\ policy = NoPolicy /\ gate = NoGate /\ busy = FALSE
    /\ target = None /\ attempted = None /\ latest = None /\ outcome = None
    /\ terminate = FALSE
    /\ last = None /\ over = FALSE

(***************************************************************************)
(* The process.                                                            *)
(***************************************************************************)

\* The process is gone; what it held in memory goes with it.
Exits ==
    /\ pc' = "down"
    /\ policy' = NoPolicy /\ gate' = NoGate /\ busy' = FALSE
    /\ target' = None /\ attempted' = None /\ latest' = None /\ outcome' = None
    /\ terminate' = FALSE
    /\ over' = FALSE

\* The service manager starts the installed binary.
Launch ==
    /\ pc = "down" /\ loaded /\ ~stopping
    /\ pc' = "boot"
    /\ running' = installed
    /\ optIn' = flag
    /\ UNCHANGED <<now, disk, manager, session, attempt, orphan, crashes, last, over>>

\* The task that rereads the flag every three seconds.
PollFlag ==
    /\ pc # "down" /\ optIn # flag
    /\ optIn' = flag
    /\ UNCHANGED <<now, disk, manager, pc, running, session, attempt, orphan, crashes, last, over>>

\* A record in the future has age 0.
Age(record) == IF now < record.at THEN 0 ELSE now - record.at

\* Slip: an attempt whose end was never recorded does not suppress.
SuppressionOfEnded ==
    IF ledger # None /\ ledger.outcome \notin {"upgraded", "started"} /\ Age(ledger) < Window
    THEN [version |-> ledger.target, span |-> Window - Age(ledger)]
    ELSE NoPolicy

Suppression ==
    IF ledger # None /\ ledger.outcome # "upgraded" /\ Age(ledger) < Window
    THEN [version |-> ledger.target, span |-> Window - Age(ledger)]
    ELSE NoPolicy

\* The top of the loop.
BeginRun ==
    /\ pc \in {"boot", "loop"}
    /\ pc' = "connect"
    /\ policy' = Suppression
    /\ UNCHANGED <<now, disk, manager, running, optIn, gate, busy, attempt, orphan, crashes, last, over>>

\* The initial connects are used up: run_until_exit fails and so does main.
Unreachable ==
    /\ pc = "connect"
    /\ Exits
    /\ UNCHANGED <<now, disk, manager, running, optIn, orphan, crashes, last>>

(***************************************************************************)
(* A session.                                                              *)
(***************************************************************************)

\* AutoUpgradeGate::new: every session counts the suppression anew.
Connect ==
    /\ pc = "connect"
    /\ pc' = "session"
    /\ gate' = [NoGate EXCEPT !.until = now + policy.span]
    /\ UNCHANGED <<now, disk, manager, running, optIn, policy, busy, attempt, orphan, crashes, last, over>>

\* The socket is lost; the backoff sleep ends in another session.
LoseSocket ==
    /\ pc = "session"
    /\ pc' = "connect"
    /\ gate' = NoGate /\ busy' = FALSE
    /\ UNCHANGED <<now, disk, manager, running, optIn, policy, attempt, orphan, crashes, last, over>>

\* UpgradeRequired and the other exits that are no handoff.
RunEnds ==
    /\ pc = "session"
    /\ Exits
    /\ UNCHANGED <<now, disk, manager, running, optIn, orphan, crashes, last>>

\* An update notice; a repeated one must not reset the idle window.
announce(version) ==
    /\ pc = "session"
    /\ gate.target # version
    /\ gate' = [gate EXCEPT !.target = version, !.since = None]
    /\ UNCHANGED <<now, disk, manager, pc, running, optIn, policy, busy, attempt, orphan, crashes, last, over>>

\* A job is accepted.
mark_busy ==
    /\ pc = "session" /\ ~busy
    /\ busy' = TRUE
    /\ gate' = [gate EXCEPT !.since = None]
    /\ UNCHANGED <<now, disk, manager, pc, running, optIn, policy, attempt, orphan, crashes, last, over>>

BecomeIdle ==
    /\ pc = "session" /\ busy
    /\ busy' = FALSE
    /\ UNCHANGED <<now, disk, manager, pc, running, optIn, policy, gate, attempt, orphan, crashes, last, over>>

Eligible ==
    /\ optIn /\ ~busy /\ gate.target # None
    /\ ~(policy.version = gate.target /\ now < gate.until)

IdleSince == IF gate.since = None THEN now ELSE gate.since

\* The maintenance tick: observe, then ready.
ObserveGate ==
    /\ pc = "session"
    /\ IF ~Eligible
       THEN gate' = [gate EXCEPT !.since = None] /\ UNCHANGED <<pc, target, policy>>
       ELSE IF now - IdleSince < Quiet
       THEN gate' = [gate EXCEPT !.since = IdleSince] /\ UNCHANGED <<pc, target, policy>>
       ELSE /\ pc' = "closing" /\ target' = gate.target
            /\ gate' = NoGate /\ policy' = NoPolicy
    /\ UNCHANGED <<now, disk, manager, running, optIn, busy, attempted, latest, outcome, terminate, orphan, crashes, last, over>>

(***************************************************************************)
(* The handoff and auto_upgrade::apply.                                    *)
(***************************************************************************)

\* The Close frame is sent and finished teardowns are joined.
SessionClosed ==
    /\ pc = "closing"
    /\ pc' = "handoff"
    /\ UNCHANGED <<now, disk, manager, running, optIn, session, attempt, orphan, crashes, last, over>>

\* The flag may have been turned off meanwhile.
Handoff ==
    /\ pc = "handoff"
    /\ pc' = IF optIn THEN "apply" ELSE "loop"
    /\ target' = IF optIn THEN target ELSE None
    /\ attempted' = IF optIn THEN now ELSE None
    /\ UNCHANGED <<now, disk, manager, running, optIn, session, latest, outcome, terminate, orphan, crashes, last, over>>

\* write_attempt: by rename, so all or nothing. A record of another attempt
\* is the end of what the ledger says of the last one.
Writes(result) ==
    /\ ledger' = [target |-> target, at |-> attempted, outcome |-> result]
    /\ last' = IF last # None /\ (last.target # target \/ result = "upgraded") THEN None ELSE last

Newer == IF target = Malformed THEN FALSE ELSE target > running

Rejection == IF target = Malformed THEN "rejected" ELSE "already-current"

\* A target that is not newer: a record if it can be written, no attempt.
Decline ==
    /\ pc = "apply" /\ ~Newer
    /\ pc' = "settle"
    /\ Writes(Rejection) \/ UNCHANGED <<ledger, last>>
    /\ UNCHANGED <<now, flag, installed, channel, manager, running, optIn, session, attempt, orphan, crashes, over>>

\* The fuse: no attempt without its record.
Start ==
    /\ pc = "apply" /\ Newer
    /\ \/ /\ ledger' = [target |-> target, at |-> attempted, outcome |-> "started"]
          /\ pc' = "tap"
          /\ last' = [target |-> target, at |-> attempted]
       \/ pc' = "settle" /\ UNCHANGED <<ledger, last>>
    /\ UNCHANGED <<now, flag, installed, channel, manager, running, optIn, session, attempt, orphan, crashes, over>>

\* What the tap pins after a pull, or brew's own update where there is none;
\* None where its formula cannot be read, and on Linux, which has no tap.
refresh_homebrew_tap == {channel, None}

\* upgrade_binary: a tap that pins the running version ends it.
RefreshTap ==
    /\ pc = "tap"
    /\ \E seen \in refresh_homebrew_tap :
         /\ latest' = seen
         /\ pc' = IF seen = running THEN "record" ELSE "package"
         /\ outcome' = IF seen = running THEN "already-current" ELSE None
    /\ UNCHANGED <<now, disk, manager, running, optIn, session, target, attempted, terminate, orphan, crashes, last, over>>

\* The package manager, the daemon's child or an orphan, replaces the binary.
Swap ==
    /\ pc = "package" \/ orphan
    /\ installed < channel
    /\ installed' = channel
    /\ UNCHANGED <<now, flag, ledger, channel, manager, pc, running, optIn, session, attempt, orphan, crashes, last, over>>

\* What the binary of the next process answers to --version, if it does.
installed_version == {installed, None}

\* upgrade_outcome: success is a changed binary.
upgrade_outcome(before, after) ==
    CASE after \notin {before, None} -> "upgraded"
      [] after \in {before, None} /\ latest \notin {before, None} -> "failed"
      [] OTHER -> "already-current"

\* The package manager returns, with success or not.
PackageReturns ==
    /\ pc = "package"
    /\ pc' = "record"
    /\ \E after \in installed_version : outcome' \in {upgrade_outcome(running, after), "failed"}
    /\ over' = IF outcome' = "upgraded" THEN TRUE ELSE over
    /\ UNCHANGED <<now, disk, manager, running, optIn, session, target, attempted, latest, terminate, orphan, crashes, last>>

\* Slip: the wait for the package manager has no end.
WaitForever == FALSE /\ UNCHANGED vars

\* run_bounded's deadline: the group is killed.
BoundExpires ==
    /\ pc = "package"
    /\ pc' = "record"
    /\ outcome' = "failed"
    /\ UNCHANGED <<now, disk, manager, running, optIn, session, target, attempted, latest, terminate, orphan, crashes, last, over>>

\* Slip: a result that cannot be recorded fails the apply.
RecordOrReconnect ==
    /\ pc = "record"
    /\ \/ Writes(outcome) /\ IF outcome = "upgraded" THEN Exits ELSE pc' = "settle" /\ UNCHANGED <<session, attempt, over>>
       \/ pc' = "settle" /\ UNCHANGED <<ledger, last, session, attempt, over>>
    /\ UNCHANGED <<now, flag, installed, channel, manager, running, optIn, orphan, crashes>>

\* The outcome is recorded if it can be; a changed binary ends the process
\* either way.
Record ==
    /\ pc = "record"
    /\ Writes(outcome) \/ UNCHANGED <<ledger, last>>
    /\ IF outcome = "upgraded" THEN Exits ELSE pc' = "settle" /\ UNCHANGED <<session, attempt, over>>
    /\ UNCHANGED <<now, flag, installed, channel, manager, running, optIn, orphan, crashes>>

\* Reconnect, or the stop that was put off.
Settle ==
    /\ pc = "settle"
    /\ IF terminate
       THEN Exits
       ELSE /\ pc' = "loop"
            /\ target' = None /\ attempted' = None /\ latest' = None /\ outcome' = None
            /\ UNCHANGED <<session, terminate, over>>
    /\ UNCHANGED <<now, disk, manager, running, optIn, orphan, crashes, last>>

(***************************************************************************)
(* Signals, the service manager, crashes, the operator, time.              *)
(***************************************************************************)

\* A process dies where it stands. Its package manager has a process group
\* of its own and may go on.
Dies ==
    /\ Exits
    /\ (pc = "package" /\ orphan' = TRUE) \/ UNCHANGED orphan
    /\ UNCHANGED <<now, disk, running, optIn, last>>

\* TERM: the run winds down and main returns; apply is waited for; before the
\* handler exists it kills; where no select listens, or where the session
\* already closes for a handoff, it is lost.
Term ==
    \/ pc \in Serving \cup {"boot", "down"} /\ Exits
    \/ /\ pc \in Applying
       /\ terminate' = TRUE /\ over' = TRUE
       /\ UNCHANGED <<pc, session, target, attempted, latest, outcome>>
    \/ pc \in {"closing", "handoff", "settle", "loop"} /\ UNCHANGED <<pc, session, attempt, over>>

\* decent pause; a shutdown.
Pause ==
    /\ loaded /\ ~stopping
    /\ loaded' = FALSE
    /\ stopping' = IF pc = "down" THEN FALSE ELSE TRUE
    /\ Term
    /\ UNCHANGED <<now, disk, running, optIn, orphan, crashes, last>>

Resume ==
    /\ ~loaded
    /\ loaded' = TRUE
    /\ UNCHANGED <<now, disk, stopping, pc, running, optIn, session, attempt, orphan, crashes, last, over>>

\* systemctl restart, of decent upgrade and login: it starts a paused unit too.
Restart ==
    /\ ~stopping
    /\ loaded' = TRUE
    /\ stopping' = IF pc = "down" THEN FALSE ELSE TRUE
    /\ Term
    /\ UNCHANGED <<now, disk, running, optIn, orphan, crashes, last>>

\* launchctl kickstart -k.
Kickstart ==
    /\ loaded /\ pc # "down"
    /\ stopping' = TRUE
    /\ Dies
    /\ UNCHANGED <<loaded, crashes>>

\* TimeoutStopSec.
HardStop ==
    /\ stopping /\ pc # "down"
    /\ Dies
    /\ UNCHANGED <<manager, crashes>>

Stopped ==
    /\ stopping /\ pc = "down"
    /\ stopping' = FALSE
    /\ UNCHANGED <<now, disk, loaded, pc, running, optIn, session, attempt, orphan, crashes, last, over>>

Crash ==
    /\ pc # "down" /\ crashes < MaxCrashes
    /\ crashes' = crashes + 1
    /\ Dies
    /\ UNCHANGED manager

OrphanEnds ==
    /\ orphan
    /\ orphan' = FALSE
    /\ UNCHANGED <<now, disk, manager, pc, running, optIn, session, attempt, crashes, last, over>>

set_enabled ==
    /\ flag' = ~flag
    /\ UNCHANGED <<now, ledger, installed, channel, manager, pc, running, optIn, session, attempt, orphan, crashes, last, over>>

\* decent upgrade swaps the binary; its restart is Restart or Kickstart.
ManualUpgrade ==
    /\ installed < channel
    /\ installed' = channel
    /\ UNCHANGED <<now, flag, ledger, channel, manager, pc, running, optIn, session, attempt, orphan, crashes, last, over>>

Publish ==
    /\ channel < Releases
    /\ channel' = channel + 1
    /\ UNCHANGED <<now, flag, ledger, installed, manager, pc, running, optIn, session, attempt, orphan, crashes, last, over>>

Tick ==
    /\ now < MaxTime
    /\ now' = now + 1
    /\ UNCHANGED <<disk, manager, pc, running, optIn, session, attempt, orphan, crashes, last, over>>

Daemon ==
    \/ Launch \/ BeginRun \/ SessionClosed \/ Handoff \/ Decline \/ Start
    \/ RefreshTap \/ BoundExpires \/ Record \/ Settle \/ HardStop \/ Stopped

World ==
    \/ PollFlag \/ Unreachable \/ Connect \/ LoseSocket \/ RunEnds
    \/ (\E t \in Targets : announce(t)) \/ mark_busy \/ BecomeIdle \/ ObserveGate
    \/ Swap \/ PackageReturns \/ Pause \/ Resume \/ Restart \/ Kickstart \/ Crash
    \/ OrphanEnds \/ set_enabled \/ ManualUpgrade \/ Publish \/ Tick

Next == Daemon \/ World

Spec == Init /\ [][Next]_vars

\* The daemon's own code runs and the service manager does what it is asked;
\* the package manager, dispatch and the operator owe nothing.
FairSpec == Spec /\ WF_vars(Daemon)

(***************************************************************************)
(* Properties.                                                             *)
(***************************************************************************)

WorldType ==
    /\ now \in Nat /\ crashes \in Nat
    /\ flag \in BOOLEAN /\ loaded \in BOOLEAN /\ stopping \in BOOLEAN /\ orphan \in BOOLEAN
    /\ installed \in Versions /\ channel \in Versions

SessionType ==
    /\ policy \in [version : Targets \cup {None}, span : Nat]
    /\ gate \in [target : Targets \cup {None}, since : Nat \cup {None}, until : Nat]
    /\ busy \in BOOLEAN /\ optIn \in BOOLEAN

AttemptType ==
    /\ pc \in Serving \cup Applying \cup {"down", "boot", "loop", "closing", "handoff", "settle"}
    /\ ledger = None \/ ledger \in [target : Targets, at : Nat, outcome : Outcomes]
    /\ target \in Targets \cup {None}
    /\ pc \in Applying \cup {"closing", "handoff"} => target # None
    /\ attempted \in Nat \cup {None}
    /\ pc \in Applying => attempted # None
    /\ latest \in Versions \cup {None}
    /\ outcome \in Outcomes \cup {None}
    /\ pc = "record" => outcome # None
    /\ running \in Versions
    /\ terminate \in BOOLEAN /\ over \in BOOLEAN
    /\ last = None \/ last \in [target : Targets, at : Nat]

TypeOK == WorldType /\ SessionType /\ AttemptType

(* The crash-loop fuse: once package-manager work for a target has begun, no *)
(* process, whatever died or could not be written in between, begins it      *)
(* again within the suppression window, unless the ledger has meanwhile      *)
(* recorded its success or an attempt at another target.                     *)
AttemptsSpaced ==
    [][pc = "apply" /\ pc' = "tap" /\ last # None /\ last.target = target
         => now - last.at >= Window]_vars

(* After a reported swap of the binary, or a stop heard while the package    *)
(* manager ran, the process that saw it never goes back to dispatch, even if *)
(* a record cannot be written.                                               *)
NeverReconnects == over => pc \notin {"loop"} \cup Serving

(* A node that is to be up always gets back to dispatch: no stuck package    *)
(* manager, stop, crash or upgrade keeps it away for good.                   *)
NodeReturns == []<>(pc \in Serving \/ ~loaded \/ stopping)
=============================================================================
