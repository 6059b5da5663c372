----------------------------- MODULE RenderJob -----------------------------
(***************************************************************************)
(* The runner process: runRunner around renderJob, from the bundle to the  *)
(* last event on stdout, with the signal handler that purges and exits.    *)
(* JavaScript is single-threaded: the handler runs only where the code     *)
(* awaits, and it awaits nothing itself, so from the cancel flag to        *)
(* process.exit it is one step. Only where its purge and then stderr fail  *)
(* does it throw and leave a process behind that knows it is canceled.     *)
(*                                                                         *)
(* The module has the actions of a runner; NodeContent starts, terminates  *)
(* and kills runners and interleaves them.                                 *)
(***************************************************************************)
EXTENDS OutputChecks

CONSTANTS
    Jobs,       \* one runner process for each
    Stills,     \* the jobs that render one frame
    Tooled,     \* the jobs whose payload ships ffprobe and ffmpeg
    Claim,      \* what a job's composition declares
    Files       \* what a job's render may leave, NoFile for nothing

ASSUME RenderAssumption == Stills \subseteq Jobs /\ Tooled \subseteq Jobs

VARIABLES
    step,       \* where the runner is; "off" before and "gone" after the process
    tries,      \* the attempt at the whole render that runs
    out,        \* the output file, in rundir
    rundir,     \* the mkdtemp directory is on disk
    term,       \* a TERM is pending
    canceled,   \* cancelObserved
    put,        \* the upload
    verdict,    \* what the runner goes on to say
    said,       \* its last event
    unpurged,   \* history: a purge was refused, or a kill came before it
    early       \* history of a running process: a TERM came before its upload

runnerVars == <<step, tries, out, rundir, term, canceled, put, verdict, said,
                unpurged, early>>

Awaiting == {"bundle", "props", "render", "tick", "put"}
Synchronous == {"verify", "purge", "speak"}
Running(j) == step[j] \in Awaiting \cup Synchronous

Set(f, j, v) == [f EXCEPT ![j] = v]
Goto(j, s) == step' = Set(step, j, s)
\* An exception: the finally block if the directory was made, else the end.
Throws(j) == verdict' = Set(verdict, j, "error") /\ Goto(j, IF rundir[j] THEN "purge" ELSE "speak")

\* rmSync of the directory and the file in it; or refused, which leaves both.
Removed(j) == rundir' = Set(rundir, j, FALSE) /\ out' = Set(out, j, NoFile) /\ UNCHANGED unpurged
Refused(j) == rundir[j] /\ unpurged' = Set(unpurged, j, TRUE) /\ UNCHANGED <<rundir, out>>

\* cancelObserved: once set it is never cleared.
jobCanceled(j) == canceled[j]
markJobCanceled(j) == canceled' = Set(canceled, j, TRUE)

\* The process and its memory are gone.
Ends(j) ==
    /\ Goto(j, "gone")
    /\ tries' = Set(tries, j, 0)
    /\ term' = Set(term, j, FALSE)
    /\ canceled' = Set(canceled, j, FALSE)
    /\ verdict' = Set(verdict, j, "error")
    /\ early' = Set(early, j, FALSE)

RunnerInit ==
    /\ step = [j \in Jobs |-> "off"]
    /\ tries = [j \in Jobs |-> 0]
    /\ out = [j \in Jobs |-> NoFile]
    /\ rundir = [j \in Jobs |-> FALSE]
    /\ term = [j \in Jobs |-> FALSE]
    /\ canceled = [j \in Jobs |-> FALSE]
    /\ put = [j \in Jobs |-> "no"]
    /\ verdict = [j \in Jobs |-> "error"]
    /\ said = [j \in Jobs |-> "nothing"]
    /\ unpurged = [j \in Jobs |-> FALSE]
    /\ early = [j \in Jobs |-> FALSE]

History == <<unpurged, early>>

\* ensureBundle: see ArtifactCache.
BundleReady(j) ==
    /\ step[j] = "bundle"
    /\ Goto(j, "props")
    /\ UNCHANGED <<tries, out, rundir, term, canceled, put, verdict, said, History>>

FetchFails(j) ==
    /\ step[j] \in {"bundle", "props"}
    /\ Throws(j)
    /\ UNCHANGED <<tries, out, rundir, term, canceled, put, said, History>>

\* The props are there: mkdtemp, register the directory, first attempt.
PropsReady(j) ==
    /\ step[j] = "props"
    /\ rundir' = Set(rundir, j, TRUE)
    /\ tries' = Set(tries, j, 1)
    /\ Goto(j, "render")
    /\ UNCHANGED <<out, term, canceled, put, verdict, said, History>>

RenderDone(j) ==
    /\ step[j] = "render"
    /\ \E f \in IF rundir[j] THEN Files[j] ELSE {NoFile} : out' = Set(out, j, f)
    /\ tries' = Set(tries, j, 0)
    /\ Goto(j, "verify")
    /\ UNCHANGED <<rundir, term, canceled, put, verdict, said, History>>

\* A delayRender timeout of the first attempt, not canceled: once more.
Retry(j) ==
    /\ step[j] = "render" /\ tries[j] = 1 /\ ~jobCanceled(j)
    /\ tries' = Set(tries, j, 2)
    /\ UNCHANGED <<step, out, rundir, term, canceled, put, verdict, said, History>>

\* Any other failure, a second timeout, or a still frame beyond the end.
RenderFails(j) ==
    /\ step[j] = "render"
    /\ Throws(j)
    /\ tries' = Set(tries, j, 0)
    /\ UNCHANGED <<out, rundir, term, canceled, put, said, History>>

Accepts(j, f) ==
    IF j \in Stills THEN verifyStillOutput(f, Claim[j])
    ELSE verifyRenderedOutput(f, Claim[j], j \in Tooled)

Verify(j) ==
    /\ step[j] = "verify"
    /\ IF Accepts(j, out[j]) THEN Goto(j, "tick") /\ UNCHANGED verdict ELSE Throws(j)
    /\ UNCHANGED <<tries, out, rundir, term, canceled, put, said, History>>

\* Slip: no yield before the guard: a pending signal is seen after it.
GuardAtOnce(j) ==
    /\ step[j] = "tick"
    /\ IF jobCanceled(j)
       THEN Throws(j) /\ UNCHANGED put
       ELSE put' = Set(put, j, "sent") /\ Goto(j, "put") /\ UNCHANGED verdict
    /\ UNCHANGED <<tries, out, rundir, term, canceled, said, History>>

\* setImmediate: a signal pending since the verification is handled before the
\* guard is read; the request is issued in the same tick as the guard.
Guard(j) ==
    /\ step[j] = "tick" /\ ~term[j]
    /\ IF jobCanceled(j)
       THEN Throws(j) /\ UNCHANGED put
       ELSE put' = Set(put, j, "sent") /\ Goto(j, "put") /\ UNCHANGED verdict
    /\ UNCHANGED <<tries, out, rundir, term, canceled, said, History>>

PutDone(j) ==
    /\ step[j] = "put"
    /\ put' = Set(put, j, "stored")
    /\ verdict' = Set(verdict, j, "done")
    /\ Goto(j, "purge")
    /\ UNCHANGED <<tries, out, rundir, term, canceled, said, History>>

\* Refused, or broken off with any part of the body sent.
PutFails(j) ==
    /\ step[j] = "put"
    /\ put' = Set(put, j, "failed")
    /\ Throws(j)
    /\ UNCHANGED <<tries, out, rundir, term, canceled, said, History>>

\* The finally block: a removal that is refused replaces the outcome.
Purge(j) ==
    /\ step[j] = "purge"
    /\ \/ Removed(j) /\ UNCHANGED verdict
       \/ Refused(j) /\ verdict' = Set(verdict, j, "error")
    /\ Goto(j, "speak")
    /\ UNCHANGED <<tries, term, canceled, put, said, early>>

\* done and exit 0, or error and exit 1: nothing is awaited in between.
Speak(j) ==
    /\ step[j] = "speak"
    /\ said' = Set(said, j, verdict[j])
    /\ Ends(j)
    /\ UNCHANGED <<out, rundir, put, unpurged>>

\* Slip: the handler exits and leaves the purge to the finally block.
HandlerOnlyExits(j) ==
    /\ step[j] \in Awaiting /\ term[j] /\ ~jobCanceled(j)
    /\ Ends(j)
    /\ UNCHANGED <<out, rundir, put, said, unpurged>>

\* exitFromSignal: the flag, the purge (its failure is logged), the exit.
SignalHandler(j) ==
    /\ step[j] \in Awaiting /\ term[j] /\ ~jobCanceled(j)
    /\ Removed(j) \/ Refused(j)
    /\ Ends(j)
    /\ UNCHANGED <<put, said>>

\* The purge fails and so does reporting it: the handler throws before the
\* exit, with the flag set and the watchdog armed.
HandlerThrows(j) ==
    /\ step[j] \in Awaiting /\ term[j] /\ ~jobCanceled(j)
    /\ Refused(j)
    /\ markJobCanceled(j)
    /\ term' = Set(term, j, FALSE)
    /\ UNCHANGED <<step, tries, put, verdict, said, early>>

\* exit(9), without a purge: the watchdog, or a second signal.
ForcedExit(j) ==
    /\ step[j] \in Awaiting /\ jobCanceled(j)
    /\ Ends(j)
    /\ UNCHANGED <<out, rundir, put, said, unpurged>>

RunnerStep(j) ==
    \/ BundleReady(j) \/ FetchFails(j) \/ PropsReady(j)
    \/ RenderDone(j) \/ Retry(j) \/ RenderFails(j)
    \/ Verify(j) \/ Guard(j) \/ PutDone(j) \/ PutFails(j)
    \/ Purge(j) \/ Speak(j)
    \/ SignalHandler(j) \/ HandlerThrows(j) \/ ForcedExit(j)

(* What is done to a runner *)

StartRunner(j) ==
    /\ step[j] = "off"
    /\ Goto(j, "bundle")
    /\ UNCHANGED <<tries, out, rundir, term, canceled, put, verdict, said, History>>

TermRunner(j) ==
    /\ Running(j)
    /\ term' = Set(term, j, TRUE)
    /\ early' = Set(early, j, put[j] = "no")
    /\ UNCHANGED <<step, tries, out, rundir, canceled, put, verdict, said, unpurged>>

KillRunner(j) ==
    /\ Running(j)
    /\ Ends(j)
    /\ unpurged' = Set(unpurged, j, unpurged[j] \/ rundir[j])
    /\ UNCHANGED <<out, rundir, put, said>>
----------------------------------------------------------------------------
(* Properties *)

RunnerTypeOK ==
    /\ step \in [Jobs -> {"off", "gone"} \cup Awaiting \cup Synchronous]
    /\ tries \in [Jobs -> 0 .. 2]
    /\ DOMAIN out = Jobs /\ \A j \in Jobs : out[j] \in Files[j] \cup {NoFile}
    /\ put \in [Jobs -> {"no", "sent", "stored", "failed"}]
    /\ verdict \in [Jobs -> {"done", "error"}]
    /\ said \in [Jobs -> {"nothing", "done", "error"}]
    /\ \A f \in {rundir, term, canceled, unpurged, early} : f \in [Jobs -> BOOLEAN]

\* No byte of a canceled job is uploaded: a TERM that came before the guard,
\* even in the middle of the synchronous verification, prevents the request.
CancelStopsUpload == \A j \in Jobs : early[j] => put[j] = "no"

\* An upload begins only with a file that this node's checks accept.
UploadIsVerified ==
    [][\A j \in Jobs : put[j] = "no" /\ put'[j] # "no" => Accepts(j, out[j])]_runnerVars

\* "done" is said only of a stored output whose directory is removed.
DoneMeansStored ==
    \A j \in Jobs : said[j] = "done" => put[j] = "stored" /\ ~rundir[j]

\* A runner that is gone leaves customer content in its directory only if it
\* was killed, or the file system refused the removal.
RunnerLeavesNothing ==
    \A j \in Jobs : step[j] = "gone" /\ rundir[j] => unpurged[j]
====
