------------------------------ MODULE RunnerJob ------------------------------
(***************************************************************************)
(* One job on a node: run_job, run_job_inner and terminate_child of        *)
(* crates/supervisor-core/src/runner.rs, the WorkDir they hold (purge.rs)  *)
(* and the process tree they drive: the runner, the helpers in its process *)
(* group, and browsers, which leave that group when they start and are     *)
(* known only by the line their exec wrapper appends to the pidfile.       *)
(*                                                                         *)
(* Time is counted in sampler intervals.  The timers are those of tokio: a *)
(* `sleep` armed once (age), an `interval` (sampleIn), and a `timeout`     *)
(* that is a new one in every iteration of the select loop (armed).        *)
(*                                                                         *)
(* A definition marked "Slip" is no part of the specification: it is how   *)
(* the operator below it would read after a plausible mistake, kept to show*)
(* which property notices.                                                 *)
(***************************************************************************)
EXTENDS Naturals, Sequences

CONSTANTS
  Helpers,         \* processes the runner may start in its own group
  Browsers,        \* browsers it may start, each the leader of its own group
  WallLimit,       \* wall_clock_limit
  SilenceLimit,    \* SILENCE_TIMEOUT
  SampleInterval,  \* WORKDIR_SAMPLE_INTERVAL
  Grace,           \* CANCEL_GRACE
  PipeCap,         \* lines the stdout pipe holds
  LoopMayLag       \* the loop may be scheduled later than it becomes ready

ASSUME JobAssumption ==
  /\ {WallLimit, SilenceLimit, SampleInterval, Grace, PipeCap} \subseteq Nat \ {0}
  /\ LoopMayLag \in BOOLEAN

VARIABLES
  pc,           \* where run_job_inner and terminate_child are
  why,          \* the error about to be returned, "none" while there is none
  result,       \* the JobOutcome, "none" until run_job returns
  cancel,       \* the cancel oneshot: "none", or "sent" (or its sender dropped)
  wrapped,      \* browser_pidfile is Some: the assignment named a browser
  workdir,      \* "none", "present", "gone", "left" (purge failed, recorded)
  runner,       \* "none", "alive", "zombie" (not waited for yet), "reaped"
  exitOk,       \* its exit status is success
  said,         \* the last word it wrote: "nothing", "done" or "error"
  stdoutOpen,   \* the runner's end of the stdout pipe
  pipe,         \* lines written and not yet read
  doneSeen,     \* done_metrics is Some
  stdinFailed,  \* stdin_error is Some
  tooBig,       \* the workdir holds more than workdir_cap_bytes
  helpers,      \* live helpers
  browser,      \* "none", "starting" (the wrapper shell), "alive", "dead"
  record,       \* its pidfile line: "no", "bare" (no ps), "dated"
  recycled,     \* dead browsers whose pid now leads someone else's group
  harmed,       \* history: recycled pids that were killed
  racing,       \* history: wrappers that had not recorded when swept
  age, armed, sampleIn, grace,   \* the clocks of the four timers
  quiet         \* history: time since the runner last wrote a line

verdict == <<why, result>>
words   == <<said, stdoutOpen, pipe>>
heard   == <<doneSeen, stdinFailed>>
proc    == <<runner, exitOk>>
tree    == <<helpers, browser, record, recycled, harmed, racing>>
clocks  == <<age, armed, sampleIn, grace, quiet>>
vars == <<pc, verdict, cancel, wrapped, workdir, proc, words, heard, tooBig,
          tree, clocks>>

-----------------------------------------------------------------------------
Setup == {"payload", "browser", "workdir", "spawn", "stdin"}
Teardown == {"grace", "reap", "sweep", "drop"}

\* Heartbeat, progress and non-NDJSON lines are all a "line"; a line that is
\* not UTF-8 makes the reader fail.
Lines == {"line", "garbled", "done", "error"}

Reasons == {"none", "setup", "deadline", "disk", "canceled", "silent",
            "read_failed", "runner_error", "exit_status", "stdin", "no_done"}

Upto(n, limit) == IF n < limit THEN n + 1 ELSE n

Init ==
  /\ pc = "payload" /\ why = "none" /\ result = "none"
  /\ cancel = "none" /\ wrapped = FALSE /\ workdir = "none"
  /\ runner = "none" /\ exitOk = FALSE
  /\ said = "nothing" /\ stdoutOpen = FALSE /\ pipe = <<>>
  /\ doneSeen = FALSE /\ stdinFailed = FALSE /\ tooBig = FALSE
  /\ helpers = {} /\ recycled = {} /\ harmed = {} /\ racing = {}
  /\ browser = [b \in Browsers |-> "none"]
  /\ record = [b \in Browsers |-> "no"]
  /\ age = 0 /\ armed = 0 /\ sampleIn = 0 /\ grace = 0 /\ quiet = 0

-----------------------------------------------------------------------------
(* Before the select loop.  Nothing here looks at the cancel or at a clock. *)

\* An early return: `?` drops the WorkDir if there is one.
Fail(next) == pc' = next /\ why' = "setup"

Step(next) == pc' = next /\ UNCHANGED why

EnsurePayload ==
  /\ pc = "payload"
  /\ Step("browser") \/ Fail("report")
  /\ UNCHANGED <<result, cancel, wrapped, workdir, proc, words, heard, tooBig,
                 tree, clocks>>

\* An assignment without a browser leaves the runner to find its own.
EnsureBrowser ==
  /\ pc = "browser"
  /\ \/ Step("workdir") /\ wrapped' \in BOOLEAN
     \/ Fail("report") /\ UNCHANGED wrapped
  /\ UNCHANGED <<result, cancel, workdir, proc, words, heard, tooBig, tree,
                 clocks>>

\* WorkDir::new and write_browser_wrapper.
CreateWorkdir ==
  /\ pc = "workdir"
  /\ \/ Fail("report") /\ UNCHANGED workdir
     \/ workdir' = "present" /\ (Step("spawn") \/ (wrapped /\ Fail("drop")))
  /\ UNCHANGED <<result, cancel, wrapped, proc, words, heard, tooBig, tree,
                 clocks>>

Spawn ==
  /\ pc = "spawn"
  /\ \/ Step("stdin") /\ runner' = "alive" /\ stdoutOpen' = TRUE
     \/ Fail("drop") /\ UNCHANGED <<runner, stdoutOpen>>
  /\ UNCHANGED <<result, cancel, wrapped, workdir, exitOk, said, pipe, heard,
                 tooBig, tree, clocks>>

\* The write may fail only when the runner is gone; the error is kept, not
\* returned.  The timers are armed when the loop is entered.
WriteStdin ==
  /\ pc = "stdin"
  /\ pc' = "select"
  /\ stdinFailed' \in IF runner = "alive" THEN {FALSE} ELSE BOOLEAN
  /\ age' = 0 /\ armed' = 0 /\ sampleIn' = 0 /\ quiet' = 0
  /\ UNCHANGED <<verdict, cancel, wrapped, workdir, proc, words, doneSeen,
                 tooBig, tree, grace>>

-----------------------------------------------------------------------------
(* The select loop.  It is not biased: of several ready arms any may run.   *)

\* Slip: return without killing, as a `?` in the loop would.
Abandon(reason) ==
  /\ pc' = "drop" /\ why' = reason /\ UNCHANGED grace
\* terminate_child up to its first await: TERM to the runner's group.
Terminate(reason) ==
  /\ pc' = "grace" /\ why' = reason /\ grace' = 0

Arm == pc = "select"

\* An arm that does not return goes round the loop, where `timeout(..)` is
\* called anew.
\* Slip: the deadline too is armed in the loop.
LoopRearmingAll == pc' = "select" /\ armed' = 0 /\ age' = 0
Loop == pc' = "select" /\ armed' = 0 /\ UNCHANGED age

DeadlineArm ==
  /\ Arm /\ age = WallLimit
  /\ Terminate("deadline")
  /\ UNCHANGED <<result, cancel, wrapped, workdir, proc, words, heard, tooBig,
                 tree, age, armed, sampleIn, quiet>>

SampleArm ==
  /\ Arm /\ sampleIn = 0
  /\ sampleIn' = SampleInterval
  /\ \/ tooBig /\ Terminate("disk") /\ UNCHANGED <<age, armed>>
     \/ ~tooBig /\ Loop /\ UNCHANGED <<why, grace>>
  /\ UNCHANGED <<result, cancel, wrapped, workdir, proc, words, heard, tooBig,
                 tree, quiet>>

CancelArm ==
  /\ Arm /\ cancel = "sent"
  /\ Terminate("canceled")
  /\ UNCHANGED <<result, cancel, wrapped, workdir, proc, words, heard, tooBig,
                 tree, age, armed, sampleIn, quiet>>

SilenceArm ==
  /\ Arm /\ armed = SilenceLimit /\ pipe = <<>> /\ stdoutOpen
  /\ Terminate("silent")
  /\ UNCHANGED <<result, cancel, wrapped, workdir, proc, words, heard, tooBig,
                 tree, age, armed, sampleIn, quiet>>

\* A line that cannot be read, and the runner's own error, end the job.
BadLine == [garbled |-> "read_failed", error |-> "runner_error"]

ReadLine ==
  /\ Arm /\ pipe # <<>>
  /\ pipe' = Tail(pipe)
  /\ \/ /\ Head(pipe) \in DOMAIN BadLine
        /\ Terminate(BadLine[Head(pipe)])
        /\ UNCHANGED <<doneSeen, age, armed>>
     \/ /\ Head(pipe) \in {"line", "done"}
        /\ Loop
        /\ doneSeen' = (doneSeen \/ Head(pipe) = "done")
        /\ UNCHANGED <<why, grace>>
  /\ UNCHANGED <<result, cancel, wrapped, workdir, proc, said, stdoutOpen,
                 stdinFailed, tooBig, tree, sampleIn, quiet>>

\* Slip: the wait for the exit is skipped once done was read.
EofPhaseDone == IF doneSeen THEN "sweep" ELSE "wait"
\* End of file ends the loop; then the exit is awaited.
EofPhase == "wait"

ReadEof ==
  /\ Arm /\ pipe = <<>> /\ ~stdoutOpen
  /\ pc' = EofPhase
  /\ UNCHANGED <<verdict, cancel, wrapped, workdir, proc, words, heard, tooBig,
                 tree, clocks>>

-----------------------------------------------------------------------------
(* After the loop. *)

\* child.wait() after end of file: no timer, and no signal to the group.
AwaitExit ==
  /\ pc = "wait" /\ runner = "zombie"
  /\ pc' = "sweep" /\ runner' = "reaped"
  /\ UNCHANGED <<verdict, cancel, wrapped, workdir, exitOk, words, heard,
                 tooBig, tree, clocks>>

\* terminate_child: the leader ended within the grace period.  Only the leader
\* is awaited; a helper that outlives it is not signalled again.
EndsInGrace ==
  /\ pc = "grace" /\ runner = "zombie"
  /\ pc' = "sweep" /\ runner' = "reaped"
  /\ UNCHANGED <<verdict, cancel, wrapped, workdir, exitOk, words, heard,
                 tooBig, tree, clocks>>

\* After the kill the leader is awaited again, now without a limit.
AfterKill == "reap"

\* terminate_child: it did not, so its whole group is killed.
Kill ==
  /\ pc = "grace" /\ runner = "alive" /\ grace = Grace
  /\ pc' = AfterKill
  /\ runner' = "zombie" /\ exitOk' = FALSE /\ stdoutOpen' = FALSE
  /\ helpers' = {}
  /\ UNCHANGED <<verdict, cancel, wrapped, workdir, said, pipe, heard, tooBig,
                 browser, record, recycled, harmed, racing, clocks>>

Reap ==
  /\ pc = "reap"
  /\ pc' = "sweep" /\ runner' = "reaped"
  /\ UNCHANGED <<verdict, cancel, wrapped, workdir, exitOk, words, heard,
                 tooBig, tree, clocks>>

Recorded == {b \in Browsers : record[b] # "no"}

\* Slip: any process that has the pid is taken for the browser.
HasPid(b) == browser[b] = "alive" \/ b \in recycled
\* A dated line is trusted if the live process started when it says; a bare
\* line whenever the pid exists.
Trusted(b) == browser[b] = "alive" \/ (b \in recycled /\ record[b] = "bare")

\* kill_recorded_browsers: the pids signalled.
kill_recorded_browsers == {b \in Recorded : Trusted(b)}
\* Slip: the sweep kills only what a canceled job leaves.
KilledWhenTold == IF why = "none" THEN {} ELSE kill_recorded_browsers
\* Without a wrapper there is no pidfile and nothing is swept.
Killed == IF wrapped THEN kill_recorded_browsers ELSE {}

Sweep ==
  /\ pc = "sweep"
  /\ pc' = "drop"
  /\ browser' = [b \in Browsers |->
                   IF b \in Killed /\ browser[b] = "alive" THEN "dead" ELSE browser[b]]
  /\ harmed' = harmed \cup (Killed \cap recycled)
  /\ racing' = {b \in Browsers : browser[b] = "starting"}
  /\ UNCHANGED <<verdict, cancel, wrapped, workdir, proc, words, heard, tooBig,
                 helpers, record, recycled, clocks>>

\* WorkDir::drop: remove_dir_all with retries, or the failure is recorded.
DropWorkdir ==
  /\ pc = "drop"
  /\ pc' = "report"
  /\ workdir' \in {"gone", "left"}
  /\ UNCHANGED <<verdict, cancel, wrapped, proc, words, heard, tooBig, tree,
                 clocks>>

\* Slip: the failed write goes before what the runner itself said.
VerdictStdinFirst ==
  IF why # "none" THEN why
  ELSE IF stdinFailed THEN "stdin"
  ELSE IF ~exitOk THEN "exit_status"
  ELSE IF ~doneSeen THEN "no_done"
  ELSE "none"
\* Slip: a done line is success, whatever the exit status.
VerdictOnDone ==
  IF why # "none" THEN why
  ELSE IF doneSeen THEN "none"
  ELSE IF ~exitOk THEN "exit_status"
  ELSE IF stdinFailed THEN "stdin"
  ELSE "no_done"
\* The reason run_job_inner fails with, "none" for success.
Verdict ==
  IF why # "none" THEN why
  ELSE IF ~exitOk THEN "exit_status"
  ELSE IF doneSeen THEN "none"
  ELSE IF stdinFailed THEN "stdin"
  ELSE "no_done"

\* run_job: the terminal frame and the outcome.
Report ==
  /\ pc = "report"
  /\ pc' = "ended"
  /\ why' = Verdict
  /\ result' = IF Verdict = "none" THEN "complete" ELSE "failed"
  /\ UNCHANGED <<cancel, wrapped, workdir, proc, words, heard, tooBig, tree,
                 clocks>>

-----------------------------------------------------------------------------
(* The runner (packages/runner-core/src/index.ts) and its tree. *)

Writes(line) ==
  /\ runner = "alive" /\ stdoutOpen /\ Len(pipe) < PipeCap
  /\ pipe' = Append(pipe, line)
  /\ quiet' = 0

RunnerSays(line) ==
  /\ said = "nothing" /\ Writes(line)
  /\ said' = IF line \in {"done", "error"} THEN line ELSE said
  /\ UNCHANGED <<pc, verdict, cancel, wrapped, workdir, proc, stdoutOpen, heard,
                 tooBig, tree, age, armed, sampleIn, grace>>

\* exit(0) follows a done and exit(1) an error, but the TERM handler's exit, a
\* crash or a kill by the system may come at any point.
RunnerExits ==
  /\ runner = "alive"
  /\ exitOk' \in IF said = "error" THEN {FALSE} ELSE BOOLEAN
  /\ runner' = "zombie" /\ stdoutOpen' = FALSE
  /\ UNCHANGED <<pc, verdict, cancel, wrapped, workdir, said, pipe, heard,
                 tooBig, tree, clocks>>

\* The runner closes stdout and lives on.
RunnerCloses ==
  /\ runner = "alive" /\ stdoutOpen
  /\ stdoutOpen' = FALSE
  /\ UNCHANGED <<pc, verdict, cancel, wrapped, workdir, proc, said, pipe, heard,
                 tooBig, tree, clocks>>

FillDisk ==
  /\ runner = "alive" /\ ~tooBig
  /\ tooBig' = TRUE
  /\ UNCHANGED <<pc, verdict, cancel, wrapped, workdir, proc, words, heard, tree,
                 clocks>>

HelperStarts(p) ==
  /\ runner = "alive" /\ p \notin helpers
  /\ helpers' = helpers \cup {p}
  /\ UNCHANGED <<pc, verdict, cancel, wrapped, workdir, proc, words, heard,
                 tooBig, browser, record, recycled, harmed, racing, clocks>>

\* On TERM, or of itself; a helper may also take its time.
HelperEnds(p) ==
  /\ p \in helpers
  /\ helpers' = helpers \ {p}
  /\ UNCHANGED <<pc, verdict, cancel, wrapped, workdir, proc, words, heard,
                 tooBig, browser, record, recycled, harmed, racing, clocks>>

\* Detached: from here on no signal to the runner's group reaches it.
BrowserStarts(b) ==
  /\ runner = "alive" /\ browser[b] = "none"
  /\ browser' = [browser EXCEPT ![b] = IF wrapped THEN "starting" ELSE "alive"]
  /\ UNCHANGED <<pc, verdict, cancel, wrapped, workdir, proc, words, heard,
                 tooBig, helpers, record, recycled, harmed, racing, clocks>>

\* The wrapper appends its pid, dated if ps answers, and execs the browser; if
\* the workdir is gone the append fails and the exec goes on.
WrapperExecs(b) ==
  /\ browser[b] = "starting"
  /\ browser' = [browser EXCEPT ![b] = "alive"]
  /\ \E line \in IF workdir = "present" THEN {"bare", "dated"} ELSE {"no"} :
       record' = [record EXCEPT ![b] = line]
  /\ UNCHANGED <<pc, verdict, cancel, wrapped, workdir, proc, words, heard,
                 tooBig, helpers, recycled, harmed, racing, clocks>>

BrowserEnds(b) ==
  /\ browser[b] = "alive"
  /\ browser' = [browser EXCEPT ![b] = "dead"]
  /\ UNCHANGED <<pc, verdict, cancel, wrapped, workdir, proc, words, heard,
                 tooBig, helpers, record, recycled, harmed, racing, clocks>>

PidRecycled(b) ==
  /\ browser[b] = "dead" /\ b \notin recycled
  /\ recycled' = recycled \cup {b}
  /\ UNCHANGED <<pc, verdict, cancel, wrapped, workdir, proc, words, heard,
                 tooBig, helpers, browser, record, harmed, racing, clocks>>

\* The connection loop signals the oneshot, or drops the job record.
SendCancel ==
  /\ pc # "ended" /\ cancel = "none"
  /\ cancel' = "sent"
  /\ UNCHANGED <<pc, verdict, wrapped, workdir, proc, words, heard, tooBig, tree,
                 clocks>>

\* An arm of the loop, or the escalation, is ready.
Ready ==
  \/ /\ pc = "select"
     /\ \/ age = WallLimit \/ sampleIn = 0 \/ armed = SilenceLimit
        \/ cancel = "sent" \/ pipe # <<>> \/ ~stdoutOpen
  \/ pc = "grace" /\ (grace = Grace \/ runner = "zombie")

Tick ==
  /\ pc \in {"select", "grace"}
  /\ LoopMayLag \/ ~Ready
  /\ age' = Upto(age, WallLimit)
  /\ armed' = Upto(armed, SilenceLimit)
  /\ sampleIn' = IF sampleIn = 0 THEN 0 ELSE sampleIn - 1
  /\ grace' = Upto(grace, Grace)
  /\ quiet' = Upto(quiet, SilenceLimit + 1)
  /\ UNCHANGED <<pc, verdict, cancel, wrapped, workdir, proc, words, heard,
                 tooBig, tree>>

-----------------------------------------------------------------------------
Loops == DeadlineArm \/ SampleArm \/ CancelArm \/ SilenceArm \/ ReadLine \/ ReadEof

Supervise ==
  \/ EnsurePayload \/ EnsureBrowser \/ CreateWorkdir \/ Spawn \/ WriteStdin
  \/ Loops
  \/ AwaitExit \/ EndsInGrace \/ Kill \/ Reap \/ Sweep \/ DropWorkdir \/ Report

RunnerActs ==
  \/ \E line \in Lines : RunnerSays(line)
  \/ RunnerExits \/ RunnerCloses \/ FillDisk
  \/ \E p \in Helpers : HelperStarts(p) \/ HelperEnds(p)
  \/ \E b \in Browsers :
       BrowserStarts(b) \/ WrapperExecs(b) \/ BrowserEnds(b) \/ PidRecycled(b)

Next == Supervise \/ RunnerActs \/ SendCancel \/ Tick

Spec == Init /\ [][Next]_vars

(* The task is polled; select! takes a ready arm at random, so none is      *)
(* passed over for ever; time passes; a runner that has closed its stdout   *)
(* exits.  The last is not the code's doing: AwaitExit has no limit.        *)
Fairness ==
  /\ WF_vars(EnsurePayload) /\ WF_vars(EnsureBrowser) /\ WF_vars(CreateWorkdir)
  /\ WF_vars(Spawn) /\ WF_vars(WriteStdin)
  /\ WF_vars(DeadlineArm) /\ WF_vars(SampleArm) /\ WF_vars(CancelArm)
  /\ WF_vars(SilenceArm) /\ WF_vars(ReadLine) /\ WF_vars(ReadEof)
  /\ WF_vars(AwaitExit) /\ WF_vars(EndsInGrace) /\ WF_vars(Kill) /\ WF_vars(Reap)
  /\ WF_vars(Sweep) /\ WF_vars(DropWorkdir) /\ WF_vars(Report)
  /\ WF_vars(Tick) /\ WF_vars(~stdoutOpen /\ RunnerExits)

FairSpec == Spec /\ Fairness

-----------------------------------------------------------------------------
(* Types, and the phases in which there is a runner and a workdir: none     *)
(* before their step, and no unreaped leader from the sweep on.             *)
TypeOK ==
  /\ pc \in Setup \cup Teardown \cup {"select", "wait", "report", "ended"}
  /\ why \in Reasons
  /\ result \in {"none", "complete", "failed"}
  /\ cancel \in {"none", "sent"}
  /\ wrapped \in BOOLEAN /\ exitOk \in BOOLEAN /\ stdoutOpen \in BOOLEAN
  /\ doneSeen \in BOOLEAN /\ stdinFailed \in BOOLEAN /\ tooBig \in BOOLEAN
  /\ workdir \in {"none", "present", "gone", "left"}
  /\ runner \in {"none", "alive", "zombie", "reaped"}
  /\ said \in {"nothing", "done", "error"}
  /\ pipe \in Seq(Lines) /\ Len(pipe) <= PipeCap
  /\ helpers \subseteq Helpers
  /\ browser \in [Browsers -> {"none", "starting", "alive", "dead"}]
  /\ record \in [Browsers -> {"no", "bare", "dated"}]
  /\ recycled \subseteq Browsers /\ harmed \subseteq recycled
  /\ racing \subseteq Browsers
  /\ age \in 0..WallLimit /\ armed \in 0..SilenceLimit
  /\ sampleIn \in 0..SampleInterval /\ grace \in 0..Grace
  /\ quiet \in 0..(SilenceLimit + 1)
  /\ pc \in Setup \ {"stdin"} => runner = "none"
  /\ pc \in {"sweep", "drop", "report", "ended"} => runner \in {"none", "reaped"}

(* Success is claimed only for a runner that said done, was waited for     *)
(* and exited with success; so the upload that precedes its done happened.  *)
VerdictIsTrue ==
  result = "complete" => said = "done" /\ exitOk /\ runner = "reaped"

(* What the runner itself said decides: a done and a clean exit fail only   *)
(* because something stopped the job first, and an error it wrote is never  *)
(* replaced by a broken pipe, its exit status or a missing done, which it   *)
(* caused ("destroying the only useful diagnostic", the stdin comment).     *)
OwnWordCounts ==
  result = "failed" =>
    /\ said = "done" /\ exitOk => why \notin {"stdin", "no_done", "exit_status"}
    /\ said = "error" => why \notin {"stdin", "no_done", "exit_status"}

(* Every exit path ends the browsers the wrapper recorded: after the sweep, *)
(* a wrapped browser still alive is one whose wrapper had not yet written   *)
(* its line when the sweep read the file.                                   *)
ContainedUnlessRacing ==
  pc \in {"drop", "report", "ended"} /\ wrapped /\ runner # "none" =>
    \A b \in Browsers : browser[b] \in {"starting", "alive"} => b \in racing

(* D-8: a pid that was recycled since the wrapper dated it is never killed. *)
ForeignSpared == \A b \in harmed : record[b] = "bare"

(* The job as the connection loop sees it: told to stop or not until it     *)
(* ends; content purged after the runner's death, the outcome told last.    *)
Contract == INSTANCE JobContract WITH
  task <- IF result # "none" THEN result
          ELSE IF cancel = "sent" THEN "stopping" ELSE "running",
  leader <- IF runner \in {"zombie", "reaped"} THEN "dead" ELSE runner,
  content <- workdir
KeepsJobContract == Contract!ContractSpec

(* Whatever the runner does, the task ends: this is what SupervisorSession  *)
(* assumes of it, and with it that a drain and a shutdown end.              *)
JobEnds == <>(pc = "ended")

-----------------------------------------------------------------------------
(* "[`SILENCE_TIMEOUT`] only catches a runner that goes QUIET" (runner.rs)   *)
(* and "kills a job after SILENCE_TIMEOUT (120s) without a line on stdout"  *)
(* (runner-core): a runner is not watched in silence for longer.            *)
SilenceIsCaught == pc = "select" => quiet <= SilenceLimit

(* An ack measures the time to "process-tree dead + purge done"             *)
(* (connection.rs): when a canceled job is over, so is its whole tree.      *)
CanceledTreeIsDead ==
  pc = "ended" /\ why = "canceled" /\ wrapped =>
    helpers = {} /\ \A b \in Browsers : browser[b] \in {"none", "dead"}
=============================================================================
