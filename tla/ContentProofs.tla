--------------------------- MODULE ContentProofs ---------------------------
(***************************************************************************)
(* NodeContent for any set of jobs, directories and pids, any claims and   *)
(* files, any length of the failure list and any number of crashes.        *)
(*                                                                         *)
(* RunnerInv speaks of one runner at a time; DirInv of who may remove a    *)
(* directory: held directories belong to live pids, a running job's own    *)
(* directory is held by its supervisor, and nothing that is held is ever   *)
(* on the failure list.                                                    *)
(***************************************************************************)
EXTENDS NodeContent, TLAPS

Steps == {"off", "gone"} \cup Awaiting \cup Synchronous
Puts == {"no", "sent", "stored", "failed"}

RunnerType ==
    /\ step \in [Jobs -> Steps]
    /\ put \in [Jobs -> Puts]
    /\ verdict \in [Jobs -> {"done", "error"}]
    /\ said \in [Jobs -> {"nothing", "done", "error"}]
    /\ rundir \in [Jobs -> BOOLEAN]
    /\ term \in [Jobs -> BOOLEAN]
    /\ canceled \in [Jobs -> BOOLEAN]
    /\ unpurged \in [Jobs -> BOOLEAN]
    /\ early \in [Jobs -> BOOLEAN]
    /\ DOMAIN out = Jobs

\* Signals: a TERM that came before the upload is pending or was taken note of.
SignalInv(j) ==
    /\ early[j] => put[j] = "no" /\ (term[j] \/ canceled[j])
    /\ step[j] \in {"off", "bundle", "props", "render", "verify", "tick"} => put[j] = "no"
    /\ step[j] = "put" => put[j] = "sent"
    /\ canceled[j] => unpurged[j]

\* The directory: made in one place, gone or excused at the end.
PurgeInv(j) ==
    /\ step[j] \in {"off", "bundle", "props"} => ~rundir[j]
    /\ step[j] \in {"speak", "gone"} /\ rundir[j] => unpurged[j]
    /\ step[j] = "tick" => Accepts(j, out[j])

\* The verdict: "done" after a stored upload, and, once past the purge, with the
\* directory removed.
VerdictInv(j) ==
    /\ verdict[j] = "done" => step[j] \in {"purge", "speak"} /\ put[j] = "stored"
    /\ verdict[j] = "done" /\ step[j] = "speak" => ~rundir[j]
    /\ said[j] # "nothing" => step[j] = "gone"
    /\ said[j] = "done" => put[j] = "stored" /\ ~rundir[j]

RunnerInv ==
    /\ RunnerType
    /\ \A j \in Jobs : SignalInv(j) /\ PurgeInv(j) /\ VerdictInv(j)

DirType ==
    /\ sup \in Pids \cup {None} /\ live \subseteq Pids
    /\ on \subseteq Dirs /\ held \subseteq Dirs
    /\ owner \in [Dirs -> Pids \cup {None}]
    /\ failures \in Seq(Dirs) /\ todo \subseteq Dirs
    /\ task \in [Jobs -> {"none", "over", "orphan"} \cup Active]

\* Held directories are on disk, of live processes, and not on the list.
HoldInv ==
    /\ sup # None => sup \in live
    /\ sup = None => phase = "off"
    /\ held \subseteq on
    /\ \A d \in held : owner[d] \in live
    /\ \A d \in Recorded \cup lost : d \notin held /\ owner[d] # None
    /\ phase = "retry" => todo \cap held = {}

\* What a run_job knows of its directory, and its runner of it.
TaskInv(j) ==
    /\ task[j] \in Active => j \in held /\ owner[j] = sup /\ phase = "ready"
    /\ task[j] \in {"none", "made"} => step[j] = "off"
    /\ task[j] = "none" => owner[j] = None
    /\ task[j] = "over" => ~Running(j)
    /\ task[j] = "over" /\ j \in on => j \in Recorded \cup lost

DirInv == DirType /\ HoldInv /\ \A j \in Jobs : TaskInv(j)
----------------------------------------------------------------------------
(* One runner's step keeps the invariant of every runner *)

USE DEF Set, Steps, Puts, Awaiting, Synchronous, jobCanceled, markJobCanceled

LEMMA KeepsBundleReady ==
    ASSUME RunnerInv, NEW j \in Jobs, BundleReady(j)
    PROVE  RunnerInv'
<1>1. RunnerType'
  BY DEF RunnerInv, RunnerType, BundleReady, Goto, History
<1>2. ASSUME NEW k \in Jobs PROVE SignalInv(k)' /\ PurgeInv(k)' /\ VerdictInv(k)'
  BY DEF RunnerInv, RunnerType, BundleReady, Goto, History, SignalInv, PurgeInv,
     VerdictInv
<1>3. QED BY <1>1, <1>2 DEF RunnerInv

LEMMA KeepsFetchFails ==
    ASSUME RunnerInv, NEW j \in Jobs, FetchFails(j)
    PROVE  RunnerInv'
<1>1. RunnerType'
  BY DEF RunnerInv, RunnerType, FetchFails, Goto, History, Throws
<1>2. ASSUME NEW k \in Jobs PROVE SignalInv(k)' /\ PurgeInv(k)' /\ VerdictInv(k)'
  BY DEF RunnerInv, RunnerType, FetchFails, Goto, History, Throws, SignalInv,
     PurgeInv, VerdictInv
<1>3. QED BY <1>1, <1>2 DEF RunnerInv

LEMMA KeepsPropsReady ==
    ASSUME RunnerInv, NEW j \in Jobs, PropsReady(j)
    PROVE  RunnerInv'
<1>1. RunnerType'
  BY DEF RunnerInv, RunnerType, PropsReady, Goto, History
<1>2. ASSUME NEW k \in Jobs PROVE SignalInv(k)' /\ PurgeInv(k)' /\ VerdictInv(k)'
  BY DEF RunnerInv, RunnerType, PropsReady, Goto, History, SignalInv, PurgeInv,
     VerdictInv
<1>3. QED BY <1>1, <1>2 DEF RunnerInv

LEMMA KeepsRenderDone ==
    ASSUME RunnerInv, NEW j \in Jobs, RenderDone(j)
    PROVE  RunnerInv'
<1>1. RunnerType'
  BY DEF RunnerInv, RunnerType, RenderDone, Goto, History
<1>2. ASSUME NEW k \in Jobs PROVE SignalInv(k)' /\ PurgeInv(k)' /\ VerdictInv(k)'
  BY DEF RunnerInv, RunnerType, RenderDone, Goto, History, SignalInv, PurgeInv,
     VerdictInv
<1>3. QED BY <1>1, <1>2 DEF RunnerInv

LEMMA KeepsRetry ==
    ASSUME RunnerInv, NEW j \in Jobs, Retry(j)
    PROVE  RunnerInv'
<1>1. RunnerType'
  BY DEF RunnerInv, RunnerType, Retry, Goto, History
<1>2. ASSUME NEW k \in Jobs PROVE SignalInv(k)' /\ PurgeInv(k)' /\ VerdictInv(k)'
  BY DEF RunnerInv, RunnerType, Retry, Goto, History, SignalInv, PurgeInv,
     VerdictInv
<1>3. QED BY <1>1, <1>2 DEF RunnerInv

LEMMA KeepsRenderFails ==
    ASSUME RunnerInv, NEW j \in Jobs, RenderFails(j)
    PROVE  RunnerInv'
<1>1. RunnerType'
  BY DEF RunnerInv, RunnerType, RenderFails, Goto, History, Throws
<1>2. ASSUME NEW k \in Jobs PROVE SignalInv(k)' /\ PurgeInv(k)' /\ VerdictInv(k)'
  BY DEF RunnerInv, RunnerType, RenderFails, Goto, History, Throws, SignalInv,
     PurgeInv, VerdictInv
<1>3. QED BY <1>1, <1>2 DEF RunnerInv

LEMMA KeepsVerify ==
    ASSUME RunnerInv, NEW j \in Jobs, Verify(j)
    PROVE  RunnerInv'
<1>1. RunnerType'
  BY DEF RunnerInv, RunnerType, Verify, Goto, History, Throws
<1>2. ASSUME NEW k \in Jobs PROVE SignalInv(k)' /\ PurgeInv(k)' /\ VerdictInv(k)'
  BY DEF RunnerInv, RunnerType, Verify, Goto, History, Throws, SignalInv, PurgeInv,
     VerdictInv
<1>3. QED BY <1>1, <1>2 DEF RunnerInv

LEMMA KeepsGuard ==
    ASSUME RunnerInv, NEW j \in Jobs, Guard(j)
    PROVE  RunnerInv'
<1>1. RunnerType'
  BY DEF RunnerInv, RunnerType, Guard, Goto, History, Throws
<1>2. ASSUME NEW k \in Jobs PROVE SignalInv(k)' /\ PurgeInv(k)' /\ VerdictInv(k)'
  BY DEF RunnerInv, RunnerType, Guard, Goto, History, Throws, SignalInv, PurgeInv,
     VerdictInv
<1>3. QED BY <1>1, <1>2 DEF RunnerInv

LEMMA KeepsPutDone ==
    ASSUME RunnerInv, NEW j \in Jobs, PutDone(j)
    PROVE  RunnerInv'
<1>1. RunnerType'
  BY DEF RunnerInv, RunnerType, PutDone, Goto, History
<1>2. ASSUME NEW k \in Jobs PROVE SignalInv(k)' /\ PurgeInv(k)' /\ VerdictInv(k)'
  BY DEF RunnerInv, RunnerType, PutDone, Goto, History, SignalInv, PurgeInv,
     VerdictInv
<1>3. QED BY <1>1, <1>2 DEF RunnerInv

LEMMA KeepsPutFails ==
    ASSUME RunnerInv, NEW j \in Jobs, PutFails(j)
    PROVE  RunnerInv'
<1>1. RunnerType'
  BY DEF RunnerInv, RunnerType, PutFails, Goto, History, Throws
<1>2. ASSUME NEW k \in Jobs PROVE SignalInv(k)' /\ PurgeInv(k)' /\ VerdictInv(k)'
  BY DEF RunnerInv, RunnerType, PutFails, Goto, History, Throws, SignalInv,
     PurgeInv, VerdictInv
<1>3. QED BY <1>1, <1>2 DEF RunnerInv

LEMMA KeepsPurge ==
    ASSUME RunnerInv, NEW j \in Jobs, Purge(j)
    PROVE  RunnerInv'
<1>1. RunnerType'
  BY DEF RunnerInv, RunnerType, Purge, Goto, History, Removed, Refused
<1>2. ASSUME NEW k \in Jobs PROVE SignalInv(k)' /\ PurgeInv(k)' /\ VerdictInv(k)'
  BY DEF RunnerInv, RunnerType, Purge, Goto, History, Removed, Refused, SignalInv,
     PurgeInv, VerdictInv
<1>3. QED BY <1>1, <1>2 DEF RunnerInv

LEMMA KeepsSpeak ==
    ASSUME RunnerInv, NEW j \in Jobs, Speak(j)
    PROVE  RunnerInv'
<1>1. RunnerType'
  BY DEF RunnerInv, RunnerType, Speak, Goto, History, Ends
<1>2. ASSUME NEW k \in Jobs PROVE SignalInv(k)' /\ PurgeInv(k)' /\ VerdictInv(k)'
  BY DEF RunnerInv, RunnerType, Speak, Goto, History, Ends, SignalInv, PurgeInv,
     VerdictInv
<1>3. QED BY <1>1, <1>2 DEF RunnerInv

LEMMA KeepsSignalHandler ==
    ASSUME RunnerInv, NEW j \in Jobs, SignalHandler(j)
    PROVE  RunnerInv'
<1>1. RunnerType'
  BY DEF RunnerInv, RunnerType, SignalHandler, Goto, History, Ends, Removed, Refused
<1>2. ASSUME NEW k \in Jobs PROVE SignalInv(k)' /\ PurgeInv(k)' /\ VerdictInv(k)'
  BY DEF RunnerInv, RunnerType, SignalHandler, Goto, History, Ends, Removed,
     Refused, SignalInv, PurgeInv, VerdictInv
<1>3. QED BY <1>1, <1>2 DEF RunnerInv

LEMMA KeepsHandlerThrows ==
    ASSUME RunnerInv, NEW j \in Jobs, HandlerThrows(j)
    PROVE  RunnerInv'
<1>1. RunnerType'
  BY DEF RunnerInv, RunnerType, HandlerThrows, Goto, History, Refused
<1>2. ASSUME NEW k \in Jobs PROVE SignalInv(k)' /\ PurgeInv(k)' /\ VerdictInv(k)'
  BY DEF RunnerInv, RunnerType, HandlerThrows, Goto, History, Refused, SignalInv,
     PurgeInv, VerdictInv
<1>3. QED BY <1>1, <1>2 DEF RunnerInv

LEMMA KeepsForcedExit ==
    ASSUME RunnerInv, NEW j \in Jobs, ForcedExit(j)
    PROVE  RunnerInv'
<1>1. RunnerType'
  BY DEF RunnerInv, RunnerType, ForcedExit, Goto, History, Ends
<1>2. ASSUME NEW k \in Jobs PROVE SignalInv(k)' /\ PurgeInv(k)' /\ VerdictInv(k)'
  BY DEF RunnerInv, RunnerType, ForcedExit, Goto, History, Ends, SignalInv,
     PurgeInv, VerdictInv
<1>3. QED BY <1>1, <1>2 DEF RunnerInv

LEMMA KeepsStartRunner ==
    ASSUME RunnerInv, NEW j \in Jobs, StartRunner(j)
    PROVE  RunnerInv'
<1>1. RunnerType'
  BY DEF RunnerInv, RunnerType, StartRunner, Goto, History
<1>2. ASSUME NEW k \in Jobs PROVE SignalInv(k)' /\ PurgeInv(k)' /\ VerdictInv(k)'
  BY DEF RunnerInv, RunnerType, StartRunner, Goto, History, SignalInv, PurgeInv,
     VerdictInv
<1>3. QED BY <1>1, <1>2 DEF RunnerInv

LEMMA KeepsTermRunner ==
    ASSUME RunnerInv, NEW j \in Jobs, TermRunner(j)
    PROVE  RunnerInv'
<1>1. RunnerType'
  BY DEF RunnerInv, RunnerType, TermRunner, Goto, History, Running
<1>2. ASSUME NEW k \in Jobs PROVE SignalInv(k)' /\ PurgeInv(k)' /\ VerdictInv(k)'
  BY DEF RunnerInv, RunnerType, TermRunner, Goto, History, Running, SignalInv,
     PurgeInv, VerdictInv
<1>3. QED BY <1>1, <1>2 DEF RunnerInv

LEMMA KeepsKillRunner ==
    ASSUME RunnerInv, NEW j \in Jobs, KillRunner(j)
    PROVE  RunnerInv'
<1>1. RunnerType'
  BY DEF RunnerInv, RunnerType, KillRunner, Goto, History, Ends, Running
<1>2. ASSUME NEW k \in Jobs PROVE SignalInv(k)' /\ PurgeInv(k)' /\ VerdictInv(k)'
  BY DEF RunnerInv, RunnerType, KillRunner, Goto, History, Ends, Running, SignalInv,
     PurgeInv, VerdictInv
<1>3. QED BY <1>1, <1>2 DEF RunnerInv

LEMMA KeepsRunnerVars ==
    ASSUME RunnerInv, UNCHANGED runnerVars
    PROVE  RunnerInv'
<1>1. RunnerType'
  BY DEF RunnerInv, RunnerType, runnerVars
<1>2. ASSUME NEW k \in Jobs PROVE SignalInv(k)' /\ PurgeInv(k)' /\ VerdictInv(k)'
  BY DEF RunnerInv, RunnerType, runnerVars, SignalInv, PurgeInv, VerdictInv
<1>3. QED BY <1>1, <1>2 DEF RunnerInv

LEMMA KeepsEndWalk ==
    ASSUME RunnerInv, EndWalk
    PROVE  RunnerInv'
<1>1. RunnerType'
  BY DEF RunnerInv, RunnerType, EndWalk, History
<1>2. ASSUME NEW k \in Jobs PROVE SignalInv(k)' /\ PurgeInv(k)' /\ VerdictInv(k)'
  BY DEF RunnerInv, RunnerType, EndWalk, MayBeOld, History, SignalInv, PurgeInv,
     VerdictInv
<1>3. QED BY <1>1, <1>2 DEF RunnerInv

LEMMA KeepsRunnerStep ==
    ASSUME RunnerInv, NEW j \in Jobs, RunnerStep(j)
    PROVE  RunnerInv'
BY KeepsBundleReady, KeepsFetchFails, KeepsPropsReady, KeepsRenderDone, KeepsRetry,
   KeepsRenderFails, KeepsVerify, KeepsGuard, KeepsPutDone, KeepsPutFails, KeepsPurge,
   KeepsSpeak, KeepsSignalHandler, KeepsHandlerThrows, KeepsForcedExit DEF RunnerStep

LEMMA RunnerInvStep == RunnerInv /\ [Next]_vars => RunnerInv'
<1> SUFFICES ASSUME RunnerInv, [Next]_vars PROVE RunnerInv'
  OBVIOUS
<1>1. ASSUME NEW j \in Jobs, Begin(j) \/ SpawnFails(j) \/ Reap(j) PROVE RunnerInv'
  BY <1>1, KeepsRunnerVars DEF Begin, SpawnFails, Reap
<1>2. ASSUME NEW j \in Jobs, Spawn(j) PROVE RunnerInv'
  BY <1>2, KeepsStartRunner DEF Spawn
<1>3. ASSUME NEW j \in Jobs, Terminate(j) PROVE RunnerInv'
  BY <1>3, KeepsTermRunner DEF Terminate
<1>4. ASSUME NEW j \in Jobs, Escalate(j) \/ KilledOutside(j) PROVE RunnerInv'
  BY <1>4, KeepsKillRunner DEF Escalate, KilledOutside
<1>5. ASSUME NEW j \in Jobs, Runner(j) PROVE RunnerInv'
  BY <1>5, KeepsRunnerStep DEF Runner
<1>6. ASSUME NEW d \in Dirs, SweepDir(d) \/ Retried(d) PROVE RunnerInv'
  BY <1>6, KeepsRunnerVars DEF SweepDir, Retried
<1>7. ASSUME NEW p \in Pids, Start(p) \/ ProcessEnds(p) \/ ProcessStarts(p) PROVE RunnerInv'
  BY <1>7, KeepsRunnerVars DEF Start, ProcessEnds, ProcessStarts
<1>8. CASE EndWalk
  BY <1>8, KeepsEndWalk
<1>9. CASE Registered \/ LoseSocket \/ Crash
  BY <1>9, KeepsRunnerVars DEF Registered, LoseSocket, Crash
<1>10. CASE UNCHANGED vars
  BY <1>10, KeepsRunnerVars DEF vars
<1>11. QED
  BY <1>1, <1>2, <1>3, <1>4, <1>5, <1>6, <1>7, <1>8, <1>9, <1>10 DEF Next

LEMMA RunnerInvHolds == Spec => []RunnerInv
<1>1. Init => RunnerInv
  BY DEF Init, RunnerInit, RunnerInv, RunnerType, SignalInv, PurgeInv, VerdictInv
<1>2. QED
  BY <1>1, RunnerInvStep, PTL DEF Spec

\* No byte of a job that was canceled before its upload is sent: not when the
\* TERM came during the synchronous verification, and not when the handler's
\* purge failed and the runner went on (render-job.ts:465).
THEOREM CancelStopsUploadHolds == Spec => []CancelStopsUpload
<1>1. RunnerInv => CancelStopsUpload
  BY DEF RunnerInv, SignalInv, CancelStopsUpload
<1>2. QED BY <1>1, RunnerInvHolds, PTL

\* "done" on stdout means a stored object and a removed directory, in this order.
THEOREM DoneMeansStoredHolds == Spec => []DoneMeansStored
<1>1. RunnerInv => DoneMeansStored
  BY DEF RunnerInv, VerdictInv, DoneMeansStored
<1>2. QED BY <1>1, RunnerInvHolds, PTL

\* A runner's process leaves content in its directory only if it was killed or
\* the file system refused the removal.
THEOREM RunnerLeavesNothingHolds == Spec => []RunnerLeavesNothing
<1>1. RunnerInv => RunnerLeavesNothing
  BY DEF RunnerInv, PurgeInv, RunnerLeavesNothing
<1>2. QED BY <1>1, RunnerInvHolds, PTL

----------------------------------------------------------------------------
(* The failure list *)

LEMMA RecordFacts ==
    ASSUME failures \in Seq(Dirs), NEW d \in Dirs, Record(d)
    PROVE  /\ failures' \in Seq(Dirs)
           /\ Recorded' \cup lost' = Recorded \cup lost \cup {d}
<1>1. CASE d \in Recorded
  BY <1>1 DEF Record, Recorded
<1>2. CASE d \notin Recorded /\ Len(failures) >= MaxFail
  <2>1. /\ failures' = Append(Tail(failures), d)
        /\ lost' = lost \cup {Head(failures)}
    BY <1>2 DEF Record
  <2>2. Len(failures) \in Nat \ {0}
    BY <1>2, WorkdirsAssumption
  <2>3. /\ failures' \in Seq(Dirs)
        /\ Len(failures') = Len(failures)
        /\ \A i \in 1 .. Len(failures) - 1 : failures'[i] = failures[i + 1]
        /\ failures'[Len(failures)] = d
        /\ Head(failures) = failures[1]
    BY <2>1, <2>2
  <2>4. Recorded' \cup lost' \subseteq Recorded \cup lost \cup {d}
    <3>1. ASSUME NEW i \in 1 .. Len(failures) PROVE failures'[i] \in Recorded \cup {d}
      <4>1. CASE i = Len(failures)
        BY <4>1, <2>3
      <4>2. CASE i # Len(failures)
        <5>1. i \in 1 .. Len(failures) - 1 /\ i + 1 \in 1 .. Len(failures)
          BY <4>2, <2>2
        <5>2. QED BY <5>1, <2>3 DEF Recorded
      <4>3. QED BY <4>1, <4>2
    <3>2. Head(failures) \in Recorded
      BY <2>2, <2>3, 1 \in 1 .. Len(failures) DEF Recorded
    <3>3. Recorded' \subseteq Recorded \cup {d}
      BY <3>1, <2>3 DEF Recorded
    <3>4. QED BY <2>1, <3>2, <3>3
  <2>5. Recorded \cup {d} \subseteq Recorded' \cup {Head(failures)}
    <3>1. ASSUME NEW i \in 1 .. Len(failures), i # 1
          PROVE  failures[i] \in Recorded'
      <4>1. i - 1 \in 1 .. Len(failures) - 1 /\ i - 1 \in 1 .. Len(failures)
        BY <3>1, <2>2
      <4>2. failures'[i - 1] = failures[(i - 1) + 1]
        BY <4>1, <2>3
      <4>3. (i - 1) + 1 = i
        OBVIOUS
      <4>4. failures'[i - 1] = failures[i] /\ i - 1 \in 1 .. Len(failures')
        BY <4>1, <4>2, <4>3, <2>3
      <4>5. QED BY <4>4 DEF Recorded
    <3>2. d \in Recorded'
      BY <2>2, <2>3 DEF Recorded
    <3>3. QED BY <2>3, <3>1, <3>2 DEF Recorded
  <2>6. QED BY <2>1, <2>3, <2>4, <2>5
<1>3. CASE d \notin Recorded /\ ~(Len(failures) >= MaxFail)
  <2>1. failures' = Append(failures, d) /\ lost' = lost
    BY <1>3 DEF Record
  <2>2. /\ failures' \in Seq(Dirs)
        /\ Len(failures') = Len(failures) + 1
        /\ \A i \in 1 .. Len(failures) : failures'[i] = failures[i]
        /\ failures'[Len(failures) + 1] = d
        /\ Len(failures) \in Nat
    BY <2>1
  <2>3. QED BY <2>1, <2>2 DEF Recorded
<1>4. QED BY <1>1, <1>2, <1>3

LEMMA ClearFacts ==
    ASSUME failures \in Seq(Dirs), NEW d \in Dirs, Clear(d)
    PROVE  /\ failures' \in Seq(Dirs)
           /\ Recorded' \subseteq Recorded
           /\ Recorded \subseteq Recorded' \cup {d}
           /\ lost' = lost
<1>1. CASE d \notin Recorded
  BY <1>1 DEF Clear, Recorded
<1>2. CASE d \in Recorded
  <2>1. PICK i \in 1 .. Len(failures) : failures[i] = d /\ failures' = Without(i)
    BY <1>2 DEF Clear
  <2>2. Len(failures) \in Nat \ {0}
    BY <2>1
  <2>3. /\ failures' \in Seq(Dirs)
        /\ Len(failures') = Len(failures) - 1
        /\ \A k \in 1 .. Len(failures) - 1 :
              failures'[k] = failures[IF k < i THEN k ELSE k + 1]
    BY <2>1, <2>2 DEF Without
  <2>4. Recorded' \subseteq Recorded
    BY <2>2, <2>3 DEF Recorded
  <2>5. ASSUME NEW k \in 1 .. Len(failures), k # i
        PROVE  failures[k] \in Recorded'
    <3>1. CASE k < i
      BY <3>1, <2>1, <2>2, <2>3, k \in 1 .. Len(failures) - 1 DEF Recorded
    <3>2. CASE k > i
      <4>1. k - 1 \in 1 .. Len(failures) - 1 /\ ~(k - 1 < i)
        BY <3>2, <2>2
      <4>2. failures'[k - 1] = failures[k]
        BY <4>1, <2>3, (k - 1) + 1 = k
      <4>3. QED BY <4>1, <4>2, <2>3 DEF Recorded
    <3>3. QED BY <3>1, <3>2, <2>1, <2>5
  <2>6. QED BY <1>2, <2>1, <2>3, <2>4, <2>5 DEF Clear, Recorded
<1>3. QED BY <1>1, <1>2

LEMMA DropFacts ==
    ASSUME failures \in Seq(Dirs), NEW d \in Dirs, DropDir(d)
    PROVE  /\ failures' \in Seq(Dirs)
           /\ Recorded' \cup lost' \subseteq Recorded \cup lost \cup {d}
           /\ Recorded \cup lost \subseteq Recorded' \cup lost' \cup {d}
           /\ on' \subseteq on /\ on \subseteq on' \cup {d}
           /\ d \in on' => d \in Recorded' \cup lost'
<1>1. CASE on' = on \ {d} /\ Clear(d)
  BY <1>1, ClearFacts
<1>2. CASE UNCHANGED on /\ Record(d)
  BY <1>2, RecordFacts
<1>3. QED BY <1>1, <1>2 DEF DropDir

----------------------------------------------------------------------------
(* Who may remove what *)

USE DEF Active

LEMMA DirBegin ==
    ASSUME RunnerInv, DirInv, NEW j \in Jobs, Begin(j)
    PROVE  DirInv'
<1>1. DirType'
  BY ContentAssumption DEF DirInv, DirType, Begin, NewDir, Task, runnerVars
<1>2. HoldInv'
  BY ContentAssumption, WorkdirsAssumption DEF DirInv, DirType, HoldInv, TaskInv,
     Recorded, Begin, NewDir, Task, runnerVars
<1>3. ASSUME NEW k \in Jobs PROVE TaskInv(k)'
  BY ContentAssumption DEF DirInv, DirType, HoldInv, TaskInv, RunnerInv, RunnerType,
     Running, Recorded, Begin, NewDir, Task, runnerVars
<1>4. QED BY <1>1, <1>2, <1>3 DEF DirInv

LEMMA DirSpawnFails ==
    ASSUME RunnerInv, DirInv, NEW j \in Jobs, SpawnFails(j)
    PROVE  DirInv'
<1> DEFINE Kept == Recorded \cup lost
<1>0. /\ failures' \in Seq(Dirs)
      /\ Kept' \subseteq Kept \cup {j}
      /\ Kept \subseteq Kept' \cup {j}
      /\ on' \subseteq on /\ on \subseteq on' \cup {j}
      /\ j \in on' => j \in Kept'
  BY DropFacts, ContentAssumption DEF DirInv, DirType, SpawnFails
<1>00. /\ j \in held /\ held' = held \ {j}
      /\ UNCHANGED <<sup, live, owner, phase, todo>>
      /\ task' = [task EXCEPT ![j] = "over"]
      /\ UNCHANGED step
      /\ step[j] \in {"off", "gone"}
  BY DEF DirInv, TaskInv, SpawnFails, DropDir, Task, runnerVars
<1>1. DirType'
  BY <1>0, <1>00, ContentAssumption DEF DirInv, DirType
<1>2. HoldInv'
  <2>1. HoldInv /\ \A d \in Kept : d \notin held /\ owner[d] # None
    BY DEF DirInv, HoldInv
  <2>2. owner[j] # None
    BY <1>00, WorkdirsAssumption DEF DirInv, DirType, HoldInv
  <2> HIDE DEF Kept
  <2>3. \A d \in Kept' : d \notin held' /\ owner'[d] # None
    BY <2>1, <2>2, <1>0, <1>00
  <2> USE DEF Kept
  <2>4. QED BY <2>1, <2>3, <1>0, <1>00 DEF HoldInv
<1>3. ASSUME NEW k \in Jobs PROVE TaskInv(k)'
  <2>1. TaskInv(k) /\ task \in [Jobs -> {"none", "over", "orphan"} \cup Active]
    BY DEF DirInv, DirType
  <2>2. CASE k = j
    BY <2>1, <2>2, <1>0, <1>00 DEF TaskInv, Running
  <2>3. CASE k # j
    BY <2>1, <2>3, <1>0, <1>00 DEF TaskInv, Running
  <2>4. QED BY <2>2, <2>3
<1>4. QED BY <1>1, <1>2, <1>3 DEF DirInv

LEMMA DirSpawn ==
    ASSUME RunnerInv, DirInv, NEW j \in Jobs, Spawn(j)
    PROVE  DirInv'
<1>1. DirType'
  BY ContentAssumption DEF DirInv, DirType, Spawn, StartRunner, Goto, Task,
     workdirVars
<1>2. HoldInv'
  BY ContentAssumption, WorkdirsAssumption DEF DirInv, DirType, HoldInv, TaskInv,
     Recorded, Spawn, StartRunner, Goto, Task, workdirVars
<1>3. ASSUME NEW k \in Jobs PROVE TaskInv(k)'
  BY ContentAssumption DEF DirInv, DirType, HoldInv, TaskInv, RunnerInv, RunnerType,
     Running, Recorded, Spawn, StartRunner, Goto, Task, workdirVars
<1>4. QED BY <1>1, <1>2, <1>3 DEF DirInv

LEMMA DirTerminate ==
    ASSUME RunnerInv, DirInv, NEW j \in Jobs, Terminate(j)
    PROVE  DirInv'
<1>1. DirType'
  BY ContentAssumption DEF DirInv, DirType, Terminate, TermRunner, Task, workdirVars
<1>2. HoldInv'
  BY ContentAssumption, WorkdirsAssumption DEF DirInv, DirType, HoldInv, TaskInv,
     Recorded, Terminate, TermRunner, Task, workdirVars
<1>3. ASSUME NEW k \in Jobs PROVE TaskInv(k)'
  BY ContentAssumption DEF DirInv, DirType, HoldInv, TaskInv, RunnerInv, RunnerType,
     Running, Recorded, Terminate, TermRunner, Task, workdirVars
<1>4. QED BY <1>1, <1>2, <1>3 DEF DirInv

LEMMA DirKill ==
    ASSUME RunnerInv, DirInv, NEW j \in Jobs, Escalate(j) \/ KilledOutside(j)
    PROVE  DirInv'
<1>1. DirType'
  BY ContentAssumption DEF DirInv, DirType, Escalate, KilledOutside, KillRunner,
     Ends, Goto, nodeVars, workdirVars
<1>2. HoldInv'
  BY ContentAssumption, WorkdirsAssumption DEF DirInv, DirType, HoldInv, TaskInv,
     Recorded, Escalate, KilledOutside, KillRunner, Ends, Goto, nodeVars,
     workdirVars
<1>3. ASSUME NEW k \in Jobs PROVE TaskInv(k)'
  BY ContentAssumption DEF DirInv, DirType, HoldInv, TaskInv, RunnerInv, RunnerType,
     Running, Recorded, Escalate, KilledOutside, KillRunner, Ends, Goto, nodeVars,
     workdirVars
<1>4. QED BY <1>1, <1>2, <1>3 DEF DirInv

LEMMA DirReap ==
    ASSUME RunnerInv, DirInv, NEW j \in Jobs, Reap(j)
    PROVE  DirInv'
<1> DEFINE Kept == Recorded \cup lost
<1>0. /\ failures' \in Seq(Dirs)
      /\ Kept' \subseteq Kept \cup {j}
      /\ Kept \subseteq Kept' \cup {j}
      /\ on' \subseteq on /\ on \subseteq on' \cup {j}
      /\ j \in on' => j \in Kept'
  BY DropFacts, ContentAssumption DEF DirInv, DirType, Reap
<1>00. /\ j \in held /\ held' = held \ {j}
      /\ UNCHANGED <<sup, live, owner, phase, todo>>
      /\ task' = [task EXCEPT ![j] = "over"]
      /\ UNCHANGED step
      /\ step[j] \in {"off", "gone"}
  BY DEF DirInv, TaskInv, Reap, DropDir, Task, runnerVars
<1>1. DirType'
  BY <1>0, <1>00, ContentAssumption DEF DirInv, DirType
<1>2. HoldInv'
  <2>1. HoldInv /\ \A d \in Kept : d \notin held /\ owner[d] # None
    BY DEF DirInv, HoldInv
  <2>2. owner[j] # None
    BY <1>00, WorkdirsAssumption DEF DirInv, DirType, HoldInv
  <2> HIDE DEF Kept
  <2>3. \A d \in Kept' : d \notin held' /\ owner'[d] # None
    BY <2>1, <2>2, <1>0, <1>00
  <2> USE DEF Kept
  <2>4. QED BY <2>1, <2>3, <1>0, <1>00 DEF HoldInv
<1>3. ASSUME NEW k \in Jobs PROVE TaskInv(k)'
  <2>1. TaskInv(k) /\ task \in [Jobs -> {"none", "over", "orphan"} \cup Active]
    BY DEF DirInv, DirType
  <2>2. CASE k = j
    BY <2>1, <2>2, <1>0, <1>00 DEF TaskInv, Running
  <2>3. CASE k # j
    BY <2>1, <2>3, <1>0, <1>00 DEF TaskInv, Running
  <2>4. QED BY <2>2, <2>3
<1>4. QED BY <1>1, <1>2, <1>3 DEF DirInv

LEMMA StepOfRunner ==
    ASSUME RunnerInv, NEW j \in Jobs, RunnerStep(j)
    PROVE  /\ Running(j)
           /\ step' \in [Jobs -> Steps]
           /\ \A k \in Jobs : k # j => step'[k] = step[k]
BY DEF RunnerInv, RunnerType, Running, RunnerStep, BundleReady, FetchFails, PropsReady,
       RenderDone, Retry, RenderFails, Verify, Guard, PutDone, PutFails, Purge, Speak,
       SignalHandler, HandlerThrows, ForcedExit, Throws, Goto, Ends

LEMMA DirRunner ==
    ASSUME RunnerInv, DirInv, NEW j \in Jobs, Runner(j)
    PROVE  DirInv'
<1>1. DirType'
  BY StepOfRunner, ContentAssumption DEF DirInv, DirType, Runner, workdirVars,
     nodeVars
<1>2. HoldInv'
  BY StepOfRunner, ContentAssumption, WorkdirsAssumption DEF DirInv, DirType,
     HoldInv, TaskInv, Recorded, Runner, workdirVars, nodeVars
<1>3. ASSUME NEW k \in Jobs PROVE TaskInv(k)'
  BY StepOfRunner, ContentAssumption DEF DirInv, DirType, HoldInv, TaskInv,
     RunnerInv, RunnerType, Running, Recorded, Runner, workdirVars, nodeVars
<1>4. QED BY <1>1, <1>2, <1>3 DEF DirInv

LEMMA DirSweep ==
    ASSUME RunnerInv, DirInv, NEW d \in Dirs, SweepDir(d)
    PROVE  DirInv'
<1>1. DirType'
  BY ContentAssumption DEF DirInv, DirType, SweepDir, Visit, Dead, runnerVars,
     nodeVars
<1>2. HoldInv'
  BY ContentAssumption, WorkdirsAssumption DEF DirInv, DirType, HoldInv, TaskInv,
     Recorded, SweepDir, Visit, Dead, runnerVars, nodeVars
<1>3. ASSUME NEW k \in Jobs PROVE TaskInv(k)'
  BY ContentAssumption DEF DirInv, DirType, HoldInv, TaskInv, RunnerInv, RunnerType,
     Running, Recorded, SweepDir, Visit, Dead, runnerVars, nodeVars
<1>4. QED BY <1>1, <1>2, <1>3 DEF DirInv

LEMMA DirRetried ==
    ASSUME RunnerInv, DirInv, NEW d \in Dirs, Retried(d)
    PROVE  DirInv'
<1>0. /\ failures' \in Seq(Dirs)
      /\ Recorded' \subseteq Recorded
      /\ Recorded \subseteq Recorded' \cup {d}
      /\ lost' = lost
      /\ \/ on' = on \ {d}
         \/ on' = on /\ Recorded' = Recorded
  <2>1. CASE on' = on \ {d} /\ Clear(d)
    BY <2>1, ClearFacts DEF DirInv, DirType
  <2>2. CASE UNCHANGED <<on, failures, lost>>
    BY <2>2 DEF DirInv, DirType, Recorded
  <2>3. QED BY <2>1, <2>2 DEF Retried, RetryFailure
<1>00. /\ phase = "retry" /\ d \in todo /\ todo' = todo \ {d}
       /\ UNCHANGED <<sup, live, owner, held, phase, task, step>>
  BY DEF Retried, RetryFailure, runnerVars, nodeVars
<1>1. DirType'
  BY <1>0, <1>00 DEF DirInv, DirType
<1>2. HoldInv'
  BY <1>0, <1>00 DEF DirInv, HoldInv
<1>3. ASSUME NEW k \in Jobs PROVE TaskInv(k)'
  BY <1>0, <1>00 DEF DirInv, TaskInv, Running
<1>4. QED BY <1>1, <1>2, <1>3 DEF DirInv

LEMMA DirStart ==
    ASSUME RunnerInv, DirInv, NEW p \in Pids, Start(p)
    PROVE  DirInv'
<1>1. DirType'
  BY ContentAssumption DEF DirInv, DirType, Start, StartSup, Connect, runnerVars,
     nodeVars
<1>2. HoldInv'
  BY ContentAssumption, WorkdirsAssumption DEF DirInv, DirType, HoldInv, TaskInv,
     Recorded, Start, StartSup, Connect, runnerVars, nodeVars
<1>3. ASSUME NEW k \in Jobs PROVE TaskInv(k)'
  BY ContentAssumption DEF DirInv, DirType, HoldInv, TaskInv, RunnerInv, RunnerType,
     Running, Recorded, Start, StartSup, Connect, runnerVars, nodeVars
<1>4. QED BY <1>1, <1>2, <1>3 DEF DirInv

LEMMA DirProcessEnds ==
    ASSUME RunnerInv, DirInv, NEW p \in Pids, ProcessEnds(p)
    PROVE  DirInv'
<1>1. DirType'
  BY ContentAssumption DEF DirInv, DirType, ProcessEnds, OtherEnds, runnerVars,
     nodeVars
<1>2. HoldInv'
  BY ContentAssumption, WorkdirsAssumption DEF DirInv, DirType, HoldInv, TaskInv,
     Recorded, ProcessEnds, OtherEnds, runnerVars, nodeVars
<1>3. ASSUME NEW k \in Jobs PROVE TaskInv(k)'
  BY ContentAssumption DEF DirInv, DirType, HoldInv, TaskInv, RunnerInv, RunnerType,
     Running, Recorded, ProcessEnds, OtherEnds, runnerVars, nodeVars
<1>4. QED BY <1>1, <1>2, <1>3 DEF DirInv

LEMMA DirProcessStarts ==
    ASSUME RunnerInv, DirInv, NEW p \in Pids, ProcessStarts(p)
    PROVE  DirInv'
<1>1. DirType'
  BY ContentAssumption DEF DirInv, DirType, ProcessStarts, OtherStarts, runnerVars,
     nodeVars
<1>2. HoldInv'
  BY ContentAssumption, WorkdirsAssumption DEF DirInv, DirType, HoldInv, TaskInv,
     Recorded, ProcessStarts, OtherStarts, runnerVars, nodeVars
<1>3. ASSUME NEW k \in Jobs PROVE TaskInv(k)'
  BY ContentAssumption DEF DirInv, DirType, HoldInv, TaskInv, RunnerInv, RunnerType,
     Running, Recorded, ProcessStarts, OtherStarts, runnerVars, nodeVars
<1>4. QED BY <1>1, <1>2, <1>3 DEF DirInv

LEMMA DirEndWalk ==
    ASSUME RunnerInv, DirInv, EndWalk
    PROVE  DirInv'
<1>0. Recorded \subseteq Dirs
  BY DEF DirInv, DirType, Recorded
<1>1. DirType'
  BY <1>0, ContentAssumption DEF DirInv, DirType, EndWalk, WalkEnds, nodeVars
<1>2. HoldInv'
  BY <1>0, ContentAssumption, WorkdirsAssumption DEF DirInv, DirType, HoldInv,
     TaskInv, Recorded, EndWalk, WalkEnds, nodeVars
<1>3. ASSUME NEW k \in Jobs PROVE TaskInv(k)'
  BY <1>0, ContentAssumption DEF DirInv, DirType, HoldInv, TaskInv, RunnerInv,
     RunnerType, Running, Recorded, EndWalk, WalkEnds, nodeVars
<1>4. QED BY <1>1, <1>2, <1>3 DEF DirInv

LEMMA DirRegistered ==
    ASSUME RunnerInv, DirInv, Registered
    PROVE  DirInv'
<1>1. DirType'
  BY ContentAssumption DEF DirInv, DirType, Registered, Register, runnerVars,
     nodeVars
<1>2. HoldInv'
  BY ContentAssumption, WorkdirsAssumption DEF DirInv, DirType, HoldInv, TaskInv,
     Recorded, Registered, Register, runnerVars, nodeVars
<1>3. ASSUME NEW k \in Jobs PROVE TaskInv(k)'
  BY ContentAssumption DEF DirInv, DirType, HoldInv, TaskInv, RunnerInv, RunnerType,
     Running, Recorded, Registered, Register, runnerVars, nodeVars
<1>4. QED BY <1>1, <1>2, <1>3 DEF DirInv

LEMMA DirLoseSocket ==
    ASSUME RunnerInv, DirInv, LoseSocket
    PROVE  DirInv'
<1>1. DirType'
  BY ContentAssumption DEF DirInv, DirType, LoseSocket, Reconnect, Connect,
     runnerVars, nodeVars
<1>2. HoldInv'
  BY ContentAssumption, WorkdirsAssumption DEF DirInv, DirType, HoldInv, TaskInv,
     Recorded, LoseSocket, Reconnect, Connect, runnerVars, nodeVars
<1>3. ASSUME NEW k \in Jobs PROVE TaskInv(k)'
  BY ContentAssumption DEF DirInv, DirType, HoldInv, TaskInv, RunnerInv, RunnerType,
     Running, Recorded, LoseSocket, Reconnect, Connect, runnerVars, nodeVars
<1>4. QED BY <1>1, <1>2, <1>3 DEF DirInv

LEMMA DirCrash ==
    ASSUME RunnerInv, DirInv, Crash
    PROVE  DirInv'
<1>1. DirType'
  BY ContentAssumption DEF DirInv, DirType, Crash, CrashSup, Forget, runnerVars
<1>2. HoldInv'
  BY ContentAssumption, WorkdirsAssumption DEF DirInv, DirType, HoldInv, TaskInv,
     Recorded, Crash, CrashSup, Forget, runnerVars
<1>3. ASSUME NEW k \in Jobs PROVE TaskInv(k)'
  BY ContentAssumption DEF DirInv, DirType, HoldInv, TaskInv, RunnerInv, RunnerType,
     Running, Recorded, Crash, CrashSup, Forget, runnerVars
<1>4. QED BY <1>1, <1>2, <1>3 DEF DirInv

LEMMA DirStutter ==
    ASSUME RunnerInv, DirInv, UNCHANGED vars
    PROVE  DirInv'
<1>1. DirType'
  BY ContentAssumption DEF DirInv, DirType, vars, runnerVars, workdirVars, nodeVars
<1>2. HoldInv'
  BY ContentAssumption, WorkdirsAssumption DEF DirInv, DirType, HoldInv, TaskInv,
     Recorded, vars, runnerVars, workdirVars, nodeVars
<1>3. ASSUME NEW k \in Jobs PROVE TaskInv(k)'
  BY ContentAssumption DEF DirInv, DirType, HoldInv, TaskInv, RunnerInv, RunnerType,
     Running, Recorded, vars, runnerVars, workdirVars, nodeVars
<1>4. QED BY <1>1, <1>2, <1>3 DEF DirInv

LEMMA DirInvStep == RunnerInv /\ DirInv /\ [Next]_vars => DirInv'
BY DirBegin, DirSpawnFails, DirSpawn, DirTerminate, DirKill, DirReap, DirRunner, DirSweep,
   DirRetried, DirStart, DirProcessEnds, DirProcessStarts, DirEndWalk, DirRegistered,
   DirLoseSocket, DirCrash, DirStutter DEF Next

LEMMA DirInvHolds == Spec => []DirInv
<1>1. Init => DirInv
  BY ContentAssumption, WorkdirsAssumption
  DEF Init, RunnerInit, DirInv, DirType, HoldInv, TaskInv, Recorded, Running
<1>2. QED
  BY <1>1, DirInvStep, RunnerInvHolds, PTL DEF Spec

\* A runner's supervisor directory is there as long as the runner and the
\* supervisor that started it are: no reaping order, sweep or reused pid takes it.
THEOREM RunnerKeepsItsDirHolds == Spec => []RunnerKeepsItsDir
<1>1. RunnerInv /\ DirInv => RunnerKeepsItsDir
  BY DEF RunnerInv, RunnerType, DirInv, DirType, HoldInv, TaskInv,
     RunnerKeepsItsDir, Running
<1>2. QED BY <1>1, RunnerInvHolds, DirInvHolds, PTL

\* After run_job the node has the job's content only where the property says.
THEOREM JobLeavesNothingHolds == Spec => []JobLeavesNothing
<1>1. RunnerInv /\ DirInv => JobLeavesNothing
  BY DEF RunnerInv, RunnerType, DirInv, TaskInv, JobLeavesNothing, PurgeInv, Running
<1>2. QED BY <1>1, RunnerInvHolds, DirInvHolds, PTL

\* No step removes a directory that is held before and after it, or one with a
\* foreign name: the sweep and its retry of the failure list spare both.
THEOREM LiveDirsSparedHolds == Spec => LiveDirsSpared
<1>1. DirInv /\ [Next]_vars =>
        [\A d \in on : (d \in held /\ d \in held') \/ owner[d] = None => d \in on']_workdirVars
  <2> SUFFICES ASSUME DirInv, [Next]_vars, NEW d \in on,
                      (d \in held /\ d \in held') \/ owner[d] = None
               PROVE  d \in on'
    OBVIOUS
  <2>1. CASE \E e \in Dirs : SweepDir(e) \/ Retried(e)
    BY <2>1 DEF DirInv, HoldInv, SweepDir, Retried, Visit, RetryFailure, Dead,
       classify_dir_name
  <2>2. CASE \E j \in Jobs : SpawnFails(j) \/ Reap(j)
    <3>1. \A e \in held : owner[e] # None
      BY WorkdirsAssumption DEF DirInv, DirType, HoldInv
    <3>2. QED BY <2>2, <3>1 DEF SpawnFails, Reap, DropDir
  <2>3. CASE \E j \in Jobs : Begin(j) \/ Spawn(j) \/ Terminate(j) \/ Escalate(j)
                              \/ KilledOutside(j) \/ Runner(j)
    BY <2>3 DEF Begin, NewDir, Spawn, Terminate, Escalate, KilledOutside, Runner,
       workdirVars
  <2>4. CASE \E p \in Pids : Start(p) \/ ProcessEnds(p) \/ ProcessStarts(p)
    BY <2>4 DEF Start, StartSup, ProcessEnds, OtherEnds, ProcessStarts, OtherStarts
  <2>5. CASE EndWalk \/ Registered \/ LoseSocket \/ Crash
    BY <2>5 DEF EndWalk, WalkEnds, Registered, Register, LoseSocket, Reconnect,
       Crash, CrashSup
  <2>6. CASE UNCHANGED vars
    BY <2>6 DEF vars, workdirVars
  <2>7. QED BY <2>1, <2>2, <2>3, <2>4, <2>5, <2>6 DEF Next
<1>2. QED BY <1>1, DirInvHolds, PTL DEF Spec, LiveDirsSpared

\* An upload begins only with a file that the node's checks accept.
THEOREM UploadIsVerifiedHolds == Spec => UploadIsVerified
<1>1. RunnerInv /\ [Next]_vars =>
        [\A j \in Jobs : put[j] = "no" /\ put'[j] # "no" => Accepts(j, out[j])]_runnerVars
  <2> SUFFICES ASSUME RunnerInv, [Next]_vars, NEW k \in Jobs, put[k] = "no", put'[k] # "no"
               PROVE  Accepts(k, out[k])
    OBVIOUS
  <2>1. ASSUME NEW j \in Jobs, RunnerStep(j) PROVE Accepts(k, out[k])
    BY <2>1 DEF RunnerInv, RunnerType, SignalInv, PurgeInv, RunnerStep, BundleReady,
       FetchFails,
         PropsReady, RenderDone, Retry, RenderFails, Verify, Guard, PutDone, PutFails, Purge,
         Speak, SignalHandler, HandlerThrows, ForcedExit
  <2>2. CASE UNCHANGED put
    BY <2>2
  <2>3. ASSUME NEW j \in Jobs, Begin(j) \/ SpawnFails(j) \/ Spawn(j) \/ Terminate(j)
                                \/ Escalate(j) \/ Reap(j) \/ KilledOutside(j)
        PROVE  UNCHANGED put
    BY <2>3 DEF Begin, SpawnFails, Spawn, Terminate, Escalate, Reap, KilledOutside,
       runnerVars,
         StartRunner, TermRunner, KillRunner
  <2>4. ASSUME \/ \E d \in Dirs : SweepDir(d) \/ Retried(d)
               \/ \E p \in Pids : Start(p) \/ ProcessEnds(p) \/ ProcessStarts(p)
               \/ EndWalk \/ Registered \/ LoseSocket \/ Crash
        PROVE  UNCHANGED put
    BY <2>4 DEF SweepDir, Retried, Start, ProcessEnds, ProcessStarts, EndWalk,
       Registered,
         LoseSocket, Crash, runnerVars
  <2>5. QED BY <2>1, <2>2, <2>3, <2>4 DEF Next, Runner, vars, runnerVars
<1>2. QED BY <1>1, RunnerInvHolds, PTL DEF Spec, UploadIsVerified
----------------------------------------------------------------------------
(* The checks *)

\* The size ceiling never refuses a render within a tenth of a byte per claimed
\* pixel, whatever the claim: rounding and the floor err on the file's side
\* (verify-output.ts:148).
THEOREM LegitimateSizePasses ==
    ASSUME NEW c, c.frames \in Nat, c.width \in Nat, c.height \in Nat, c.sized,
           NEW size \in Nat, size * PixelsPerByte <= c.frames * c.width * c.height
    PROVE  size <= maxOutputBytes(c)
<1> DEFINE pixels == c.frames * c.width * c.height
<1>1. pixels \in Nat
  OBVIOUS
<1> HIDE DEF pixels
<1>2. size <= CeilDiv(pixels, PixelsPerByte) /\ CeilDiv(pixels, PixelsPerByte) \in Nat
  <2>1. size * 10 <= pixels
    BY DEF pixels, PixelsPerByte
  <2>2. QED BY <1>1, <2>1, Z3 DEF CeilDiv, PixelsPerByte
<1>3. maxOutputBytes(c) =
        IF CeilDiv(pixels, PixelsPerByte) > MinOutputCeilingBytes
        THEN CeilDiv(pixels, PixelsPerByte) ELSE MinOutputCeilingBytes
  BY DEF maxOutputBytes, pixels
<1>4. QED BY <1>2, <1>3, CeilingAssumption

\* A video that a node with tools accepts has the frames its composition
\* declared, and one of the frames shown to a viewer is not black.
THEOREM AcceptedVideoIsShown ==
    ASSUME NEW f, NEW c, c.frames \in Nat, verifyRenderedOutput(f, c, TRUE)
    PROVE  /\ f.frames = c.frames /\ c.frames > 0
           /\ \E i \in 0 .. c.frames - 1 : i \in f.bright
<1>1. f.frames = c.frames /\ f.frames > 0 /\ sampleIndices(f.frames) \cap f.bright # {}
  BY DEF verifyRenderedOutput, Measured, Probed, Sampled
<1>2. PICK i \in sampleIndices(f.frames) : i \in f.bright
  BY <1>1
<1>3. i \in 0 .. c.frames - 1
  BY <1>1, <1>2 DEF sampleIndices
<1>4. QED BY <1>1, <1>2, <1>3
====
