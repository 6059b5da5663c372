---------------------------- MODULE NodeContent ----------------------------
(***************************************************************************)
(* Where a job's content is on a node's disk: the supervisor's directory,  *)
(* held by run_job, and the runner's own, made and purged by its process,  *)
(* through cancels, kills, refused removals, and the crash and restart of  *)
(* the supervisor while runners go on without it.                          *)
(***************************************************************************)
EXTENDS RenderJob, Workdirs

CONSTANTS
    Foreign,    \* directories with other programs' names
    Sibling,    \* the pid of another supervisor that is running at first
    Crashes     \* bound on crashes of ours

ASSUME ContentAssumption ==
    /\ Jobs \subseteq Dirs /\ Foreign \subseteq Dirs \ Jobs
    /\ Sibling \in Pids /\ Crashes \in Nat

VARIABLES
    task,       \* run_job: "none", "made", "run", "term", "over"; "orphan"
    crashes

nodeVars == <<task, crashes>>
vars == <<runnerVars, workdirVars, nodeVars>>

Active == {"made", "run", "term"}

Init ==
    /\ RunnerInit
    /\ sup = None /\ phase = "off" /\ todo = {} /\ failures = <<>> /\ lost = {}
    /\ live = {Sibling}
    /\ on = Dirs \ Jobs
    /\ owner = [d \in Dirs |-> IF d \in Jobs \cup Foreign THEN None ELSE Sibling]
    /\ held = Dirs \ (Jobs \cup Foreign)
    /\ task = [j \in Jobs |-> "none"]
    /\ crashes = 0

Task(j, s) == task' = [task EXCEPT ![j] = s]

(* run_job *)

Begin(j) ==
    /\ task[j] = "none"
    /\ NewDir(j)
    /\ Task(j, "made")
    /\ UNCHANGED <<runnerVars, crashes>>

\* The browser wrapper is not written, or the process not spawned.
SpawnFails(j) ==
    /\ task[j] = "made"
    /\ DropDir(j)
    /\ Task(j, "over")
    /\ UNCHANGED <<runnerVars, crashes>>

Spawn(j) ==
    /\ task[j] = "made"
    /\ StartRunner(j)
    /\ Task(j, "run")
    /\ UNCHANGED <<workdirVars, crashes>>

\* terminate_child, from any of its callers: TERM to the group.
Terminate(j) ==
    /\ task[j] = "run"
    /\ TermRunner(j)
    /\ Task(j, "term")
    /\ UNCHANGED <<workdirVars, crashes>>

\* CANCEL_GRACE is over.
Escalate(j) ==
    /\ task[j] = "term"
    /\ KillRunner(j)
    /\ UNCHANGED <<workdirVars, nodeVars>>

\* Slip: after TERM the directory is dropped without the wait.
DropAfterTerm(j) ==
    /\ \/ task[j] = "run" /\ step[j] = "gone"
       \/ task[j] = "term"
    /\ DropDir(j)
    /\ Task(j, "over")
    /\ UNCHANGED <<runnerVars, crashes>>

\* child.wait() returned; only then is the WorkDir dropped.
Reap(j) ==
    /\ task[j] \in {"run", "term"} /\ step[j] = "gone"
    /\ DropDir(j)
    /\ Task(j, "over")
    /\ UNCHANGED <<runnerVars, crashes>>

Runner(j) == RunnerStep(j) /\ UNCHANGED <<workdirVars, nodeVars>>

\* Out of memory, or an operator, or power.
KilledOutside(j) == KillRunner(j) /\ UNCHANGED <<workdirVars, nodeVars>>

(* The supervisor *)

Start(p) == StartSup(p) /\ UNCHANGED <<runnerVars, nodeVars>>

SweepDir(d) == Visit(d) /\ UNCHANGED <<runnerVars, nodeVars>>

\* Newest write seven days ago: no job of a living supervisor is silent so long.
MayBeOld(j) ==
    /\ rundir[j]
    /\ step[j] = "gone" \/ (task[j] = "orphan" /\ step[j] \in {"render", "put"})

\* The walk's other entries, by age: no owner is in a runner directory's name.
EndWalk ==
    /\ WalkEnds
    /\ \E A \in SUBSET {j \in Jobs : MayBeOld(j)} :
          /\ rundir' = [j \in Jobs |-> rundir[j] /\ j \notin A]
          /\ out' = [j \in Jobs |-> IF j \in A THEN NoFile ELSE out[j]]
    /\ UNCHANGED <<step, tries, term, canceled, put, verdict, said, History, nodeVars>>

Retried(d) == RetryFailure(d) /\ UNCHANGED <<runnerVars, nodeVars>>
Registered == Register /\ UNCHANGED <<runnerVars, nodeVars>>

\* drain_in_flight_jobs first awaits every task.
LoseSocket ==
    /\ \A j \in Jobs : task[j] \notin Active
    /\ Reconnect
    /\ UNCHANGED <<runnerVars, nodeVars>>

\* The runners are in groups of their own, and go on.
Crash ==
    /\ crashes < Crashes
    /\ CrashSup
    /\ crashes' = crashes + 1
    /\ task' = [j \in Jobs |-> IF task[j] = "none" THEN "none" ELSE "orphan"]
    /\ UNCHANGED runnerVars

(* The rest of the machine *)

ProcessEnds(p) == OtherEnds(p) /\ UNCHANGED <<runnerVars, nodeVars>>
ProcessStarts(p) == OtherStarts(p) /\ UNCHANGED <<runnerVars, nodeVars>>

Next ==
    \/ \E j \in Jobs : Begin(j) \/ SpawnFails(j) \/ Spawn(j) \/ Terminate(j)
                       \/ Escalate(j) \/ Reap(j) \/ Runner(j) \/ KilledOutside(j)
    \/ \E d \in Dirs : SweepDir(d) \/ Retried(d)
    \/ \E p \in Pids : Start(p) \/ ProcessEnds(p) \/ ProcessStarts(p)
    \/ EndWalk \/ Registered \/ LoseSocket \/ Crash

Spec == Init /\ [][Next]_vars
----------------------------------------------------------------------------
(* Properties *)

ContentTypeOK ==
    /\ RunnerTypeOK
    /\ WorkdirsTypeOK
    /\ task \in [Jobs -> {"none", "over", "orphan"} \cup Active]
    /\ crashes \in 0 .. Crashes

\* A runner never works in a removed directory (its cwd, with the browser
\* wrapper and the pidfile): run_job drops it after the process is reaped, and
\* no sweep takes it, as long as the supervisor that started the runner lives.
RunnerKeepsItsDir == \A j \in Jobs : Running(j) /\ task[j] # "orphan" => j \in on

\* When run_job is over the node has none of the job's content, except a
\* runner's directory whose process was killed or whose removal was refused,
\* and a supervisor's directory that the failure list owes or has pushed out.
JobLeavesNothing ==
    \A j \in Jobs : task[j] = "over" =>
        /\ rundir[j] => unpurged[j]
        /\ j \in on => j \in Recorded \cup lost
====
