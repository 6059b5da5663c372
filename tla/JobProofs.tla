------------------------------ MODULE JobProofs ------------------------------
(* Theorems about RunnerJob, for every set of helpers and browsers, every    *)
(* limit and a loop that lags or does not.                                   *)
EXTENDS RunnerJob, SequenceTheorems, TLAPS

LEMMA Limits ==
  /\ WallLimit \in Nat /\ WallLimit > 0 /\ SilenceLimit \in Nat /\ SilenceLimit > 0
  /\ SampleInterval \in Nat /\ SampleInterval > 0 /\ Grace \in Nat /\ Grace > 0
  /\ PipeCap \in Nat /\ PipeCap > 0
BY JobAssumption

(* The job keeps its types; before the spawn there is no runner, and from    *)
(* the sweep on there is none that was not waited for.                       *)
THEOREM JobTypeCorrect == Spec => []TypeOK
<1>1. Init => TypeOK
  <2> SUFFICES ASSUME Init PROVE TypeOK
    OBVIOUS
  <2>1. /\ wrapped \in BOOLEAN /\ exitOk \in BOOLEAN /\ stdoutOpen \in BOOLEAN
        /\ doneSeen \in BOOLEAN /\ stdinFailed \in BOOLEAN /\ tooBig \in BOOLEAN
    BY Zenon DEF Init
  <2>2. pipe \in Seq(Lines) /\ Len(pipe) = 0
    BY EmptySeq DEF Init
  <2> QED
    BY Limits, <2>1, <2>2 DEF Init, TypeOK, Setup, Teardown, Reasons
<1>2. TypeOK /\ [Next]_vars => TypeOK'
  <2> SUFFICES ASSUME TypeOK, [Next]_vars
               PROVE  TypeOK'
    OBVIOUS
  <2> USE Limits DEF TypeOK, Setup, Teardown, Reasons,
        verdict, words, heard, proc, tree, clocks
  <2>1. CASE EnsurePayload
    BY <2>1 DEF EnsurePayload, Step, Fail
  <2>2. CASE EnsureBrowser
    BY <2>2 DEF EnsureBrowser, Step, Fail
  <2>3. CASE CreateWorkdir
    BY <2>3 DEF CreateWorkdir, Step, Fail
  <2>4. CASE Spawn
    <3>1. stdoutOpen' \in BOOLEAN
      BY <2>4, Zenon DEF Spawn
    <3> QED BY <2>4, <3>1 DEF Spawn, Step, Fail
  <2>5. CASE WriteStdin
    <3>1. stdinFailed' \in BOOLEAN
      BY <2>5, Zenon DEF WriteStdin
    <3> QED BY <2>5, <3>1 DEF WriteStdin
  <2>6. CASE DeadlineArm
    BY <2>6 DEF DeadlineArm, Arm, Terminate
  <2>7. CASE SampleArm
    BY <2>7 DEF SampleArm, Arm, Terminate, Loop
  <2>8. CASE CancelArm
    BY <2>8 DEF CancelArm, Arm, Terminate
  <2>9. CASE SilenceArm
    BY <2>9 DEF SilenceArm, Arm, Terminate
  <2>10. CASE ReadLine
    <3>1. pipe' \in Seq(Lines) /\ Len(pipe') <= PipeCap
      BY <2>10, HeadTailProperties DEF ReadLine
    <3>2. doneSeen' \in BOOLEAN
      BY <2>10, Zenon DEF ReadLine
    <3>3. why' \in Reasons
      BY <2>10 DEF ReadLine, BadLine, Terminate
    <3> QED BY <2>10, <3>1, <3>2, <3>3 DEF ReadLine, Arm, Terminate, Loop, BadLine
  <2>11. CASE ReadEof
    BY <2>11 DEF ReadEof, Arm, EofPhase
  <2>12. CASE AwaitExit
    BY <2>12 DEF AwaitExit
  <2>13. CASE EndsInGrace
    BY <2>13 DEF EndsInGrace
  <2>14. CASE Kill
    <3>1. exitOk' \in BOOLEAN /\ stdoutOpen' \in BOOLEAN
      BY <2>14, Zenon DEF Kill
    <3> QED BY <2>14, <3>1 DEF Kill, AfterKill
  <2>15. CASE Reap
    BY <2>15 DEF Reap
  <2>16. CASE Sweep
    BY <2>16 DEF Sweep, Killed, kill_recorded_browsers, Recorded, Trusted
  <2>17. CASE DropWorkdir
    BY <2>17 DEF DropWorkdir
  <2>18. CASE Report
    BY <2>18 DEF Report, Verdict
  <2>19. ASSUME NEW line \in Lines, RunnerSays(line) PROVE TypeOK'
    <3>1. pipe' \in Seq(Lines) /\ Len(pipe') <= PipeCap
      BY <2>19, AppendProperties DEF RunnerSays, Writes
    <3> QED BY <2>19, <3>1 DEF RunnerSays, Writes
  <2>20. CASE RunnerExits
    <3>1. exitOk' \in BOOLEAN /\ stdoutOpen' \in BOOLEAN
      BY <2>20, Zenon DEF RunnerExits
    <3> QED BY <2>20, <3>1 DEF RunnerExits
  <2>21. CASE RunnerCloses
    <3>1. stdoutOpen' \in BOOLEAN
      BY <2>21, Zenon DEF RunnerCloses
    <3> QED BY <2>21, <3>1 DEF RunnerCloses
  <2>22. CASE FillDisk
    BY <2>22 DEF FillDisk
  <2>23. ASSUME NEW p \in Helpers, HelperStarts(p) PROVE TypeOK'
    BY <2>23 DEF HelperStarts
  <2>24. ASSUME NEW p \in Helpers, HelperEnds(p) PROVE TypeOK'
    BY <2>24 DEF HelperEnds
  <2>25. ASSUME NEW b \in Browsers, BrowserStarts(b) PROVE TypeOK'
    BY <2>25 DEF BrowserStarts
  <2>26. ASSUME NEW b \in Browsers, WrapperExecs(b) PROVE TypeOK'
    BY <2>26 DEF WrapperExecs
  <2>27. ASSUME NEW b \in Browsers, BrowserEnds(b) PROVE TypeOK'
    BY <2>27 DEF BrowserEnds
  <2>28. ASSUME NEW b \in Browsers, PidRecycled(b) PROVE TypeOK'
    BY <2>28 DEF PidRecycled
  <2>29. CASE SendCancel
    BY <2>29 DEF SendCancel
  <2>30. CASE Tick
    BY <2>30 DEF Tick, Upto
  <2>31. CASE UNCHANGED vars
    BY <2>31 DEF vars
  <2> QED
    BY <2>1, <2>2, <2>3, <2>4, <2>5, <2>6, <2>7, <2>8, <2>9, <2>10, <2>11,
       <2>12, <2>13, <2>14, <2>15, <2>16, <2>17, <2>18, <2>19, <2>20, <2>21,
       <2>22, <2>23, <2>24, <2>25, <2>26, <2>27, <2>28, <2>29, <2>30, <2>31
       DEF Next, Supervise, Loops, RunnerActs
<1> QED BY <1>1, <1>2, PTL DEF Spec

-----------------------------------------------------------------------------
(* The course of a job: which phase goes with which reason, runner and       *)
(* workdir.  The reasons Report adds are not there before it.                *)
Guessed == {"exit_status", "stdin", "no_done"}
Course ==
  /\ pc = "ended" <=> result # "none"
  /\ pc # "ended" => why \notin Guessed
  /\ pc \in Setup \cup {"select", "wait"} => why = "none"
  /\ pc \in {"grace", "reap"} => why # "none"
  /\ runner = "none" /\ pc \in {"drop", "report"} => why = "setup"
  /\ runner = "none" => pc \notin {"stdin", "select", "wait", "grace", "reap", "sweep"}
  /\ pc = "reap" => runner = "zombie"
  /\ pc \in {"payload", "browser", "workdir"} => workdir = "none"
  /\ pc \in Teardown \cup {"spawn", "stdin", "select", "wait"} => workdir = "present"
  /\ pc \in {"report", "ended"} => workdir # "present"

LEMMA CourseInit == Init => Course
BY DEF Init, Course, Setup, Teardown, Guessed

LEMMA CourseStep == TypeOK /\ Course /\ [Next]_vars => Course'
  <1> SUFFICES ASSUME TypeOK, Course, [Next]_vars
               PROVE  Course'
    OBVIOUS
  <1> USE DEF TypeOK, Course, Setup, Teardown, Guessed,
        verdict, words, heard, proc, tree, clocks
  <1>1. CASE EnsurePayload
    BY <1>1 DEF EnsurePayload, Step, Fail
  <1>2. CASE EnsureBrowser
    BY <1>2 DEF EnsureBrowser, Step, Fail
  <1>3. CASE CreateWorkdir
    BY <1>3 DEF CreateWorkdir, Step, Fail
  <1>4. CASE Spawn
    BY <1>4 DEF Spawn, Step, Fail
  <1>5. CASE WriteStdin
    BY <1>5 DEF WriteStdin
  <1>6. CASE DeadlineArm
    BY <1>6 DEF DeadlineArm, Arm, Terminate
  <1>7. CASE SampleArm
    BY <1>7 DEF SampleArm, Arm, Terminate, Loop
  <1>8. CASE CancelArm
    BY <1>8 DEF CancelArm, Arm, Terminate
  <1>9. CASE SilenceArm
    BY <1>9 DEF SilenceArm, Arm, Terminate
  <1>10. CASE ReadLine
    BY <1>10 DEF ReadLine, Arm, Terminate, Loop, BadLine
  <1>11. CASE ReadEof
    BY <1>11 DEF ReadEof, Arm, EofPhase
  <1>12. CASE AwaitExit
    BY <1>12 DEF AwaitExit
  <1>13. CASE EndsInGrace
    BY <1>13 DEF EndsInGrace
  <1>14. CASE Kill
    BY <1>14 DEF Kill, AfterKill
  <1>15. CASE Reap
    BY <1>15 DEF Reap
  <1>16. CASE Sweep
    BY <1>16 DEF Sweep, Killed, kill_recorded_browsers, Recorded, Trusted
  <1>17. CASE DropWorkdir
    BY <1>17 DEF DropWorkdir
  <1>18. CASE Report
    BY <1>18 DEF Report, Verdict
  <1>19. ASSUME NEW line \in Lines, RunnerSays(line) PROVE Course'
    BY <1>19 DEF RunnerSays, Writes
  <1>20. CASE RunnerExits
    BY <1>20 DEF RunnerExits
  <1>21. CASE RunnerCloses
    BY <1>21 DEF RunnerCloses
  <1>22. CASE FillDisk
    BY <1>22 DEF FillDisk
  <1>23. ASSUME NEW p \in Helpers, HelperStarts(p) PROVE Course'
    BY <1>23 DEF HelperStarts
  <1>24. ASSUME NEW p \in Helpers, HelperEnds(p) PROVE Course'
    BY <1>24 DEF HelperEnds
  <1>25. ASSUME NEW b \in Browsers, BrowserStarts(b) PROVE Course'
    BY <1>25 DEF BrowserStarts
  <1>26. ASSUME NEW b \in Browsers, WrapperExecs(b) PROVE Course'
    BY <1>26 DEF WrapperExecs
  <1>27. ASSUME NEW b \in Browsers, BrowserEnds(b) PROVE Course'
    BY <1>27 DEF BrowserEnds
  <1>28. ASSUME NEW b \in Browsers, PidRecycled(b) PROVE Course'
    BY <1>28 DEF PidRecycled
  <1>29. CASE SendCancel
    BY <1>29 DEF SendCancel
  <1>30. CASE Tick
    BY <1>30 DEF Tick, Upto
  <1>31. CASE UNCHANGED vars
    BY <1>31 DEF vars
  <1> QED
    BY <1>1, <1>2, <1>3, <1>4, <1>5, <1>6, <1>7, <1>8, <1>9, <1>10, <1>11,
       <1>12, <1>13, <1>14, <1>15, <1>16, <1>17, <1>18, <1>19, <1>20, <1>21,
       <1>22, <1>23, <1>24, <1>25, <1>26, <1>27, <1>28, <1>29, <1>30, <1>31
       DEF Next, Supervise, Loops, RunnerActs

LEMMA JobCourse == Spec => []Course
BY CourseInit, CourseStep, JobTypeCorrect, PTL DEF Spec

-----------------------------------------------------------------------------
(* What is in the pipe. *)
In(x, s) == \E i \in 1..Len(s) : s[i] = x

LEMMA InTail ==
  ASSUME NEW s \in Seq(Lines), s # <<>>, NEW x
  PROVE  /\ In(x, Tail(s)) => In(x, s)
         /\ In(x, s) => x = Head(s) \/ In(x, Tail(s))
BY DEF In

LEMMA InAppend ==
  ASSUME NEW s \in Seq(Lines), NEW y \in Lines, NEW x
  PROVE  In(x, Append(s, y)) <=> In(x, s) \/ x = y
BY DEF In

(* The runner's last word is still in the pipe, or was acted on; nothing     *)
(* follows the end of the pipe.                                              *)
Unstopped == why = "none" /\ pc # "ended"
Heard ==
  /\ runner = "none" => said = "nothing" /\ pipe = <<>> /\ ~stdoutOpen
  /\ doneSeen \/ In("done", pipe) => said = "done"
  /\ Unstopped /\ said = "done" => doneSeen \/ In("done", pipe)
  /\ Unstopped /\ said = "error" => In("error", pipe)
  /\ Unstopped /\ pc \in {"wait", "sweep", "drop", "report"} =>
       pipe = <<>> /\ ~stdoutOpen

LEMMA HeardInit == Init => Heard
BY DEF Init, Heard, Unstopped, In

LEMMA HeardStep == TypeOK /\ Course /\ Heard /\ [Next]_vars => Heard'
  <1> SUFFICES ASSUME TypeOK, Course, Heard, [Next]_vars
               PROVE  Heard'
    OBVIOUS
  <1> USE DEF TypeOK, Course, Setup, Teardown, Guessed, Heard, Unstopped,
        verdict, words, heard, proc, tree, clocks
  <1>1. CASE EnsurePayload
    BY <1>1 DEF EnsurePayload, Step, Fail
  <1>2. CASE EnsureBrowser
    BY <1>2 DEF EnsureBrowser, Step, Fail
  <1>3. CASE CreateWorkdir
    BY <1>3 DEF CreateWorkdir, Step, Fail
  <1>4. CASE Spawn
    BY <1>4 DEF Spawn, Step, Fail
  <1>5. CASE WriteStdin
    BY <1>5 DEF WriteStdin
  <1>6. CASE DeadlineArm
    BY <1>6 DEF DeadlineArm, Arm, Terminate
  <1>7. CASE SampleArm
    BY <1>7 DEF SampleArm, Arm, Terminate, Loop
  <1>8. CASE CancelArm
    BY <1>8 DEF CancelArm, Arm, Terminate
  <1>9. CASE SilenceArm
    BY <1>9 DEF SilenceArm, Arm, Terminate
  <1>10. CASE ReadLine
    <2>1. pipe \in Seq(Lines) /\ pipe # <<>> /\ pipe' = Tail(pipe)
      BY <1>10 DEF ReadLine
    <2>2. /\ In("done", pipe') => In("done", pipe)
          /\ In("done", pipe) => Head(pipe) = "done" \/ In("done", pipe')
          /\ In("error", pipe) => Head(pipe) = "error" \/ In("error", pipe')
      BY <2>1, InTail
    <2>3. Head(pipe) = "done" => In("done", pipe)
      BY <2>1 DEF In
    <2>4. CASE Head(pipe) \in DOMAIN BadLine /\ Terminate(BadLine[Head(pipe)])
      <3>1. why' # "none" /\ UNCHANGED <<doneSeen, said, stdoutOpen, runner>>
        BY <1>10, <2>4 DEF ReadLine, Terminate, BadLine
      <3> QED BY <2>1, <2>2, <3>1
    <2>5. CASE Head(pipe) \in {"line", "done"} /\ Loop
      <3>1. doneSeen' <=> doneSeen \/ Head(pipe) = "done"
        BY <1>10, <2>5, Zenon DEF ReadLine, BadLine
      <3>2. UNCHANGED <<said, stdoutOpen, runner, why>> /\ pc = "select" /\ pc' = "select"
        BY <1>10, <2>5 DEF ReadLine, Loop, Arm, BadLine
      <3> QED BY <2>1, <2>2, <2>3, <2>5, <3>1, <3>2
    <2> QED BY <1>10, <2>4, <2>5 DEF ReadLine
  <1>11. CASE ReadEof
    BY <1>11 DEF ReadEof, Arm, EofPhase
  <1>12. CASE AwaitExit
    BY <1>12 DEF AwaitExit
  <1>13. CASE EndsInGrace
    BY <1>13 DEF EndsInGrace
  <1>14. CASE Kill
    BY <1>14 DEF Kill, AfterKill
  <1>15. CASE Reap
    BY <1>15 DEF Reap
  <1>16. CASE Sweep
    BY <1>16 DEF Sweep, Killed, kill_recorded_browsers, Recorded, Trusted
  <1>17. CASE DropWorkdir
    BY <1>17 DEF DropWorkdir
  <1>18. CASE Report
    BY <1>18 DEF Report, Verdict
  <1>19. ASSUME NEW line \in Lines, RunnerSays(line) PROVE Heard'
    <2>1. pipe' = Append(pipe, line) /\ said = "nothing" /\ runner = "alive" /\ stdoutOpen
      BY <1>19 DEF RunnerSays, Writes
    <2>2. \A x \in Lines : In(x, pipe') <=> In(x, pipe) \/ x = line
      BY <2>1, InAppend
    <2>3. /\ said' = IF line \in {"done", "error"} THEN line ELSE said
          /\ UNCHANGED <<pc, why, runner, stdoutOpen, doneSeen>>
      BY <1>19 DEF RunnerSays
    <2>4. ~doneSeen
      BY <2>1
    <2> QED BY <2>1, <2>2, <2>3, <2>4 DEF Lines
  <1>20. CASE RunnerExits
    BY <1>20 DEF RunnerExits
  <1>21. CASE RunnerCloses
    BY <1>21 DEF RunnerCloses
  <1>22. CASE FillDisk
    BY <1>22 DEF FillDisk
  <1>23. ASSUME NEW p \in Helpers, HelperStarts(p) PROVE Heard'
    BY <1>23 DEF HelperStarts
  <1>24. ASSUME NEW p \in Helpers, HelperEnds(p) PROVE Heard'
    BY <1>24 DEF HelperEnds
  <1>25. ASSUME NEW b \in Browsers, BrowserStarts(b) PROVE Heard'
    BY <1>25 DEF BrowserStarts
  <1>26. ASSUME NEW b \in Browsers, WrapperExecs(b) PROVE Heard'
    BY <1>26 DEF WrapperExecs
  <1>27. ASSUME NEW b \in Browsers, BrowserEnds(b) PROVE Heard'
    BY <1>27 DEF BrowserEnds
  <1>28. ASSUME NEW b \in Browsers, PidRecycled(b) PROVE Heard'
    BY <1>28 DEF PidRecycled
  <1>29. CASE SendCancel
    BY <1>29 DEF SendCancel
  <1>30. CASE Tick
    BY <1>30 DEF Tick, Upto
  <1>31. CASE UNCHANGED vars
    BY <1>31 DEF vars
  <1> QED
    BY <1>1, <1>2, <1>3, <1>4, <1>5, <1>6, <1>7, <1>8, <1>9, <1>10, <1>11,
       <1>12, <1>13, <1>14, <1>15, <1>16, <1>17, <1>18, <1>19, <1>20, <1>21,
       <1>22, <1>23, <1>24, <1>25, <1>26, <1>27, <1>28, <1>29, <1>30, <1>31
       DEF Next, Supervise, Loops, RunnerActs

(* Success is claimed only for a runner that said done and exited well, and  *)
(* what the runner said is never replaced by a reason it caused.             *)
Verdicts == VerdictIsTrue /\ OwnWordCounts

LEMMA VerdictStep ==
  TypeOK /\ Course /\ Heard /\ Verdicts /\ [Next]_vars => Verdicts'
  <1> SUFFICES ASSUME TypeOK, Course, Heard, Verdicts, [Next]_vars
               PROVE  Verdicts'
    OBVIOUS
  <1> USE DEF TypeOK, Course, Setup, Teardown, Guessed, Verdicts,
        VerdictIsTrue, OwnWordCounts,
        verdict, words, heard, proc, tree, clocks
  <1>1. CASE EnsurePayload
    BY <1>1 DEF EnsurePayload, Step, Fail
  <1>2. CASE EnsureBrowser
    BY <1>2 DEF EnsureBrowser, Step, Fail
  <1>3. CASE CreateWorkdir
    BY <1>3 DEF CreateWorkdir, Step, Fail
  <1>4. CASE Spawn
    BY <1>4 DEF Spawn, Step, Fail
  <1>5. CASE WriteStdin
    BY <1>5 DEF WriteStdin
  <1>6. CASE DeadlineArm
    BY <1>6 DEF DeadlineArm, Arm, Terminate
  <1>7. CASE SampleArm
    BY <1>7 DEF SampleArm, Arm, Terminate, Loop
  <1>8. CASE CancelArm
    BY <1>8 DEF CancelArm, Arm, Terminate
  <1>9. CASE SilenceArm
    BY <1>9 DEF SilenceArm, Arm, Terminate
  <1>10. CASE ReadLine
    BY <1>10 DEF ReadLine, Arm, Terminate, Loop, BadLine
  <1>11. CASE ReadEof
    BY <1>11 DEF ReadEof, Arm, EofPhase
  <1>12. CASE AwaitExit
    BY <1>12 DEF AwaitExit
  <1>13. CASE EndsInGrace
    BY <1>13 DEF EndsInGrace
  <1>14. CASE Kill
    BY <1>14 DEF Kill, AfterKill
  <1>15. CASE Reap
    BY <1>15 DEF Reap
  <1>16. CASE Sweep
    BY <1>16 DEF Sweep, Killed, kill_recorded_browsers, Recorded, Trusted
  <1>17. CASE DropWorkdir
    BY <1>17 DEF DropWorkdir
  <1>18. CASE Report
    BY <1>18 DEF Report, Verdict, Heard, Unstopped, In
  <1>19. ASSUME NEW line \in Lines, RunnerSays(line) PROVE Verdicts'
    BY <1>19 DEF RunnerSays, Writes
  <1>20. CASE RunnerExits
    BY <1>20 DEF RunnerExits
  <1>21. CASE RunnerCloses
    BY <1>21 DEF RunnerCloses
  <1>22. CASE FillDisk
    BY <1>22 DEF FillDisk
  <1>23. ASSUME NEW p \in Helpers, HelperStarts(p) PROVE Verdicts'
    BY <1>23 DEF HelperStarts
  <1>24. ASSUME NEW p \in Helpers, HelperEnds(p) PROVE Verdicts'
    BY <1>24 DEF HelperEnds
  <1>25. ASSUME NEW b \in Browsers, BrowserStarts(b) PROVE Verdicts'
    BY <1>25 DEF BrowserStarts
  <1>26. ASSUME NEW b \in Browsers, WrapperExecs(b) PROVE Verdicts'
    BY <1>26 DEF WrapperExecs
  <1>27. ASSUME NEW b \in Browsers, BrowserEnds(b) PROVE Verdicts'
    BY <1>27 DEF BrowserEnds
  <1>28. ASSUME NEW b \in Browsers, PidRecycled(b) PROVE Verdicts'
    BY <1>28 DEF PidRecycled
  <1>29. CASE SendCancel
    BY <1>29 DEF SendCancel
  <1>30. CASE Tick
    BY <1>30 DEF Tick, Upto
  <1>31. CASE UNCHANGED vars
    BY <1>31 DEF vars
  <1> QED
    BY <1>1, <1>2, <1>3, <1>4, <1>5, <1>6, <1>7, <1>8, <1>9, <1>10, <1>11,
       <1>12, <1>13, <1>14, <1>15, <1>16, <1>17, <1>18, <1>19, <1>20, <1>21,
       <1>22, <1>23, <1>24, <1>25, <1>26, <1>27, <1>28, <1>29, <1>30, <1>31
       DEF Next, Supervise, Loops, RunnerActs

LEMMA JobVerdicts == Spec => [](Heard /\ Verdicts)
<1>1. Init => Verdicts
  BY DEF Init, Verdicts, VerdictIsTrue, OwnWordCounts
<1> QED
  BY <1>1, HeardInit, HeardStep, VerdictStep, JobTypeCorrect, JobCourse, PTL DEF Spec

(* jobComplete is sent only for a runner that said done and was reaped with  *)
(* a successful exit status.                                                 *)
THEOREM CompletionIsTrue == Spec => []VerdictIsTrue
BY JobVerdicts, PTL DEF Verdicts

(* A done with a clean exit, or an error the runner wrote, is never reported *)
(* as a broken pipe, a bare exit status or a missing done.                   *)
THEOREM RunnerIsHeard == Spec => []OwnWordCounts
BY JobVerdicts, PTL DEF Verdicts

-----------------------------------------------------------------------------
(* Browsers: none before the runner; a wrapped one that runs while the       *)
(* workdir exists has its line there; a recycled pid is that of a dead one.  *)
Pids ==
  /\ runner = "none" => \A b \in Browsers : browser[b] = "none"
  /\ wrapped /\ workdir = "present" =>
       \A b \in Browsers : browser[b] = "alive" => record[b] # "no"
  /\ \A b \in recycled : browser[b] = "dead"
  /\ ForeignSpared
  /\ ContainedUnlessRacing

LEMMA PidsStep == TypeOK /\ Course /\ Pids /\ [Next]_vars => Pids'
  <1> SUFFICES ASSUME TypeOK, Course, Pids, [Next]_vars
               PROVE  Pids'
    OBVIOUS
  <1> USE DEF TypeOK, Course, Setup, Teardown, Pids, ForeignSpared,
        ContainedUnlessRacing,
        verdict, words, heard, proc, tree, clocks
  <1>1. CASE EnsurePayload
    BY <1>1 DEF EnsurePayload, Step, Fail
  <1>2. CASE EnsureBrowser
    BY <1>2 DEF EnsureBrowser, Step, Fail
  <1>3. CASE CreateWorkdir
    BY <1>3 DEF CreateWorkdir, Step, Fail
  <1>4. CASE Spawn
    BY <1>4 DEF Spawn, Step, Fail
  <1>5. CASE WriteStdin
    BY <1>5 DEF WriteStdin
  <1>6. CASE DeadlineArm
    BY <1>6 DEF DeadlineArm, Arm, Terminate
  <1>7. CASE SampleArm
    BY <1>7 DEF SampleArm, Arm, Terminate, Loop
  <1>8. CASE CancelArm
    BY <1>8 DEF CancelArm, Arm, Terminate
  <1>9. CASE SilenceArm
    BY <1>9 DEF SilenceArm, Arm, Terminate
  <1>10. CASE ReadLine
    BY <1>10 DEF ReadLine, Arm, Terminate, Loop, BadLine
  <1>11. CASE ReadEof
    BY <1>11 DEF ReadEof, Arm, EofPhase
  <1>12. CASE AwaitExit
    BY <1>12 DEF AwaitExit
  <1>13. CASE EndsInGrace
    BY <1>13 DEF EndsInGrace
  <1>14. CASE Kill
    BY <1>14 DEF Kill, AfterKill
  <1>15. CASE Reap
    BY <1>15 DEF Reap
  <1>16. CASE Sweep
    BY <1>16 DEF Sweep, Killed, kill_recorded_browsers, Recorded, Trusted
  <1>17. CASE DropWorkdir
    BY <1>17 DEF DropWorkdir
  <1>18. CASE Report
    BY <1>18 DEF Report, Verdict
  <1>19. ASSUME NEW line \in Lines, RunnerSays(line) PROVE Pids'
    BY <1>19 DEF RunnerSays, Writes
  <1>20. CASE RunnerExits
    BY <1>20 DEF RunnerExits
  <1>21. CASE RunnerCloses
    BY <1>21 DEF RunnerCloses
  <1>22. CASE FillDisk
    BY <1>22 DEF FillDisk
  <1>23. ASSUME NEW p \in Helpers, HelperStarts(p) PROVE Pids'
    BY <1>23 DEF HelperStarts
  <1>24. ASSUME NEW p \in Helpers, HelperEnds(p) PROVE Pids'
    BY <1>24 DEF HelperEnds
  <1>25. ASSUME NEW b \in Browsers, BrowserStarts(b) PROVE Pids'
    BY <1>25 DEF BrowserStarts
  <1>26. ASSUME NEW b \in Browsers, WrapperExecs(b) PROVE Pids'
    BY <1>26 DEF WrapperExecs
  <1>27. ASSUME NEW b \in Browsers, BrowserEnds(b) PROVE Pids'
    BY <1>27 DEF BrowserEnds
  <1>28. ASSUME NEW b \in Browsers, PidRecycled(b) PROVE Pids'
    BY <1>28 DEF PidRecycled
  <1>29. CASE SendCancel
    BY <1>29 DEF SendCancel
  <1>30. CASE Tick
    BY <1>30 DEF Tick, Upto
  <1>31. CASE UNCHANGED vars
    BY <1>31 DEF vars
  <1> QED
    BY <1>1, <1>2, <1>3, <1>4, <1>5, <1>6, <1>7, <1>8, <1>9, <1>10, <1>11,
       <1>12, <1>13, <1>14, <1>15, <1>16, <1>17, <1>18, <1>19, <1>20, <1>21,
       <1>22, <1>23, <1>24, <1>25, <1>26, <1>27, <1>28, <1>29, <1>30, <1>31
       DEF Next, Supervise, Loops, RunnerActs

LEMMA JobPids == Spec => []Pids
<1>1. Init => Pids
  BY DEF Init, Pids, ForeignSpared, ContainedUnlessRacing
<1> QED
  BY <1>1, PidsStep, JobTypeCorrect, JobCourse, PTL DEF Spec

(* A pid that was recycled since it was dated is never killed.               *)
THEOREM NoForeignKill == Spec => []ForeignSpared
BY JobPids, PTL DEF Pids

(* On every exit path a wrapped browser that outlives the sweep is one whose *)
(* wrapper had not written its line when the file was read.                  *)
THEOREM BrowsersAreContained == Spec => []ContainedUnlessRacing
BY JobPids, PTL DEF Pids

-----------------------------------------------------------------------------
LEMMA ContractStep ==
  TypeOK /\ Course /\ [Next]_vars => [Contract!ContractNext]_(Contract!contractVars)
  <1> SUFFICES ASSUME TypeOK, Course, [Next]_vars
               PROVE  [Contract!ContractNext]_(Contract!contractVars)
    OBVIOUS
  <1> USE DEF TypeOK, Course, Setup, Teardown,
        verdict, words, heard, proc, tree, clocks,
        Contract!ContractNext, Contract!contractVars, Contract!Live
  <1>1. CASE EnsurePayload
    BY <1>1 DEF EnsurePayload, Step, Fail
  <1>2. CASE EnsureBrowser
    BY <1>2 DEF EnsureBrowser, Step, Fail
  <1>3. CASE CreateWorkdir
    BY <1>3 DEF CreateWorkdir, Step, Fail, Contract!Unpack
  <1>4. CASE Spawn
    BY <1>4 DEF Spawn, Step, Fail, Contract!Start
  <1>5. CASE WriteStdin
    BY <1>5 DEF WriteStdin
  <1>6. CASE DeadlineArm
    BY <1>6 DEF DeadlineArm, Arm, Terminate
  <1>7. CASE SampleArm
    BY <1>7 DEF SampleArm, Arm, Terminate, Loop
  <1>8. CASE CancelArm
    BY <1>8 DEF CancelArm, Arm, Terminate
  <1>9. CASE SilenceArm
    BY <1>9 DEF SilenceArm, Arm, Terminate
  <1>10. CASE ReadLine
    BY <1>10 DEF ReadLine, Arm, Terminate, Loop, BadLine
  <1>11. CASE ReadEof
    BY <1>11 DEF ReadEof, Arm, EofPhase
  <1>12. CASE AwaitExit
    BY <1>12 DEF AwaitExit
  <1>13. CASE EndsInGrace
    BY <1>13 DEF EndsInGrace
  <1>14. CASE Kill
    BY <1>14 DEF Kill, AfterKill, Contract!Die
  <1>15. CASE Reap
    BY <1>15 DEF Reap
  <1>16. CASE Sweep
    BY <1>16 DEF Sweep, Killed, kill_recorded_browsers, Recorded, Trusted
  <1>17. CASE DropWorkdir
    BY <1>17 DEF DropWorkdir, Contract!Purge
  <1>18. CASE Report
    BY <1>18 DEF Report, Verdict, Contract!End
  <1>19. ASSUME NEW line \in Lines, RunnerSays(line) PROVE [Contract!ContractNext]_(Contract!contractVars)
    BY <1>19 DEF RunnerSays, Writes
  <1>20. CASE RunnerExits
    BY <1>20 DEF RunnerExits, Contract!Die
  <1>21. CASE RunnerCloses
    BY <1>21 DEF RunnerCloses
  <1>22. CASE FillDisk
    BY <1>22 DEF FillDisk
  <1>23. ASSUME NEW p \in Helpers, HelperStarts(p) PROVE [Contract!ContractNext]_(Contract!contractVars)
    BY <1>23 DEF HelperStarts
  <1>24. ASSUME NEW p \in Helpers, HelperEnds(p) PROVE [Contract!ContractNext]_(Contract!contractVars)
    BY <1>24 DEF HelperEnds
  <1>25. ASSUME NEW b \in Browsers, BrowserStarts(b) PROVE [Contract!ContractNext]_(Contract!contractVars)
    BY <1>25 DEF BrowserStarts
  <1>26. ASSUME NEW b \in Browsers, WrapperExecs(b) PROVE [Contract!ContractNext]_(Contract!contractVars)
    BY <1>26 DEF WrapperExecs
  <1>27. ASSUME NEW b \in Browsers, BrowserEnds(b) PROVE [Contract!ContractNext]_(Contract!contractVars)
    BY <1>27 DEF BrowserEnds
  <1>28. ASSUME NEW b \in Browsers, PidRecycled(b) PROVE [Contract!ContractNext]_(Contract!contractVars)
    BY <1>28 DEF PidRecycled
  <1>29. CASE SendCancel
    BY <1>29 DEF SendCancel, Contract!ToldToStop
  <1>30. CASE Tick
    BY <1>30 DEF Tick, Upto
  <1>31. CASE UNCHANGED vars
    BY <1>31 DEF vars
  <1> QED
    BY <1>1, <1>2, <1>3, <1>4, <1>5, <1>6, <1>7, <1>8, <1>9, <1>10, <1>11,
       <1>12, <1>13, <1>14, <1>15, <1>16, <1>17, <1>18, <1>19, <1>20, <1>21,
       <1>22, <1>23, <1>24, <1>25, <1>26, <1>27, <1>28, <1>29, <1>30, <1>31
       DEF Next, Supervise, Loops, RunnerActs

(* The job implements JobContract: content is purged after the runner's      *)
(* death, the outcome is told last, and success needs a runner that ended.   *)
THEOREM JobKeepsContract == Spec => KeepsJobContract
<1>1. Init => Contract!ContractInit
  BY DEF Init, Contract!ContractInit
<1> QED
  BY <1>1, ContractStep, JobTypeCorrect, JobCourse, PTL
     DEF Spec, KeepsJobContract, Contract!ContractSpec
=============================================================================
