----------------------------- MODULE Workdirs -----------------------------
(***************************************************************************)
(* The job directories supervisors make in the temp directory: the guard   *)
(* that removes one when its job is over, the bounded list of removals     *)
(* that failed, and the sweep that runs between a connection and its       *)
(* register frame. One supervisor is followed through crashes and starts;  *)
(* of every other process only the pid and a directory are seen.           *)
(*                                                                         *)
(* The module has the actions; NodeContent composes them with runners.     *)
(***************************************************************************)
EXTENDS Naturals, Sequences

CONSTANTS
    Dirs,       \* directories, ours and of other supervisors
    Pids,
    MaxFail,    \* MAX_RECORDED_PURGE_FAILURES
    None

ASSUME WorkdirsAssumption == MaxFail \in Nat \ {0} /\ None \notin Pids

VARIABLES
    sup,        \* the pid of the supervisor followed, None between two
    live,       \* the pids that answer kill(pid, 0)
    on,         \* directories on disk
    owner,      \* the pid in a directory's name, None in a foreign one's and
                \* before it is made
    held,       \* directories with a WorkDir in a live process
    failures,   \* PURGE_FAILURES
    phase,      \* of the connection: its sweep, then "ready" for jobs; "off"
    todo,       \* what the sweep's loop has still to visit
    lost        \* history: paths pushed out of the full list

workdirVars == <<sup, live, on, owner, held, failures, phase, todo, lost>>

Recorded == {failures[i] : i \in 1 .. Len(failures)}
Other(p) == p # sup /\ p \in live
\* classify_dir_name: a name that gives no pid is foreign. A runner's own
\* directory is in NodeContent.
classify_dir_name(d) == IF owner[d] = None THEN "foreign" ELSE "supervisor"
\* pid_is_dead, after the test for one's own pid.
Dead(p) == p # sup /\ p \notin live

\* record_purge_failure: the oldest makes room.
Record(d) ==
    IF d \in Recorded THEN UNCHANGED <<failures, lost>>
    ELSE IF Len(failures) >= MaxFail
    THEN failures' = Append(Tail(failures), d) /\ lost' = lost \cup {Head(failures)}
    ELSE failures' = Append(failures, d) /\ UNCHANGED lost

\* clear_purge_failure: a path is in the list at most once.
Without(i) == [k \in 1 .. Len(failures) - 1 |-> failures[IF k < i THEN k ELSE k + 1]]
Clear(d) ==
    /\ IF d \in Recorded
       THEN \E i \in 1 .. Len(failures) : failures[i] = d /\ failures' = Without(i)
       ELSE UNCHANGED failures
    /\ UNCHANGED lost

Forget == failures' = <<>> /\ lost' = {}

\* A connection: the walk's entries are those there when it starts.
Connect == phase' = "walk" /\ todo' = on

StartSup(p) ==
    /\ sup = None /\ p \notin live
    /\ sup' = p
    /\ live' = live \cup {p}
    /\ Connect
    /\ UNCHANGED <<on, owner, held, failures, lost>>

\* Slip: any name that is not one's own is abandoned.
SweepOthers(d) ==
    /\ phase = "walk" /\ d \in todo
    /\ todo' = todo \ {d}
    /\ on' \in IF classify_dir_name(d) = "supervisor" /\ owner[d] # sup THEN {on, on \ {d}} ELSE {on}
    /\ UNCHANGED <<sup, live, owner, held, failures, phase, lost>>

\* One entry of sweep_dir's loop; a removal may be refused.
Visit(d) ==
    /\ phase = "walk" /\ d \in todo
    /\ todo' = todo \ {d}
    /\ on' \in IF classify_dir_name(d) = "supervisor" /\ Dead(owner[d])
             THEN {on, on \ {d}} ELSE {on}
    /\ UNCHANGED <<sup, live, owner, held, failures, phase, lost>>

WalkEnds ==
    /\ phase = "walk" /\ todo = {}
    /\ phase' = "retry"
    /\ todo' = Recorded
    /\ UNCHANGED <<sup, live, on, owner, held, failures, lost>>

\* sweep_stale_workdirs, after the walk: our own failed removals once more.
RetryFailure(d) ==
    /\ phase = "retry" /\ d \in todo
    /\ todo' = todo \ {d}
    /\ \/ /\ classify_dir_name(d) = "supervisor" /\ ~Other(owner[d])
          /\ on' = on \ {d} /\ Clear(d)
       \/ UNCHANGED <<on, failures, lost>>
    /\ UNCHANGED <<sup, live, owner, held, phase>>

Register ==
    /\ phase = "retry" /\ todo = {}
    /\ phase' = "ready"
    /\ UNCHANGED <<sup, live, on, owner, held, failures, todo, lost>>

\* WorkDir::new: a name of its own, made exclusively.
NewDir(d) ==
    /\ phase = "ready" /\ owner[d] = None
    /\ owner' = [owner EXCEPT ![d] = sup]
    /\ on' = on \cup {d}
    /\ held' = held \cup {d}
    /\ UNCHANGED <<sup, live, failures, phase, todo, lost>>

\* WorkDir::drop, with its three attempts: removed, or recorded.
DropDir(d) ==
    /\ d \in held
    /\ held' = held \ {d}
    /\ \/ on' = on \ {d} /\ Clear(d)
       \/ UNCHANGED on /\ Record(d)
    /\ UNCHANGED <<sup, live, owner, phase, todo>>

\* The socket is gone and no job is left: the next connection sweeps again.
Reconnect ==
    /\ phase = "ready"
    /\ Connect
    /\ UNCHANGED <<sup, live, on, owner, held, failures, lost>>

\* KILL, power: no drop runs, and the list was in memory.
CrashSup ==
    /\ sup # None
    /\ live' = live \ {sup}
    /\ held' = {d \in held : owner[d] # sup}
    /\ sup' = None
    /\ phase' = "off"
    /\ todo' = {}
    /\ Forget
    /\ UNCHANGED <<on, owner>>

\* A process other than ours, a sibling or not, ends; another takes a pid.
OtherEnds(p) ==
    /\ p \in live /\ p # sup
    /\ live' = live \ {p}
    /\ held' = {d \in held : owner[d] # p}
    /\ UNCHANGED <<sup, on, owner, failures, phase, todo, lost>>

OtherStarts(p) ==
    /\ p \notin live
    /\ live' = live \cup {p}
    /\ UNCHANGED <<sup, on, owner, held, failures, phase, todo, lost>>
----------------------------------------------------------------------------
(* Properties *)

WorkdirsTypeOK ==
    /\ sup \in Pids \cup {None}
    /\ live \subseteq Pids
    /\ on \subseteq Dirs /\ held \subseteq Dirs /\ todo \subseteq Dirs /\ lost \subseteq Dirs
    /\ owner \in [Dirs -> Pids \cup {None}]
    /\ failures \in Seq(Dirs) /\ Len(failures) <= MaxFail
    /\ phase \in {"off", "walk", "retry", "ready"}

\* No sweep, ours or at any moment of another process's life, takes a directory
\* that a live supervisor's job is using, which only its own WorkDir removes,
\* and nothing takes a directory that is not a supervisor's by its name.
LiveDirsSpared ==
    [][\A d \in on : (d \in held /\ d \in held') \/ owner[d] = None => d \in on']_workdirVars
====
