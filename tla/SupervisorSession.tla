-------------------------- MODULE SupervisorSession --------------------------
(***************************************************************************)
(* The connection loop of the supervisor: run_session and run_until_exit   *)
(* of crates/supervisor-core/src/connection.rs.  One process owns the      *)
(* socket to dispatch and the JoinHandle of every job task it spawned; the *)
(* tasks (run_job) run beside it and talk to it through an unbounded       *)
(* channel.                                                                *)
(*                                                                         *)
(* One action is one arm of the `select!` loop, run to its end, or one     *)
(* step of a job task, of the socket or of the operator.  A lease is the   *)
(* (job id, attempt) pair dispatch assigns; dispatch never reuses a pair   *)
(* (a requeue is attempt + 1 of the same job), so a lease also names the   *)
(* task that runs it, and `draining` and `pending_cancel_acks`, which the  *)
(* code only searches and empties, are sets of leases.                     *)
(*                                                                         *)
(* A definition marked "Slip" is no part of the specification: it is how   *)
(* the operator below it would read after a plausible mistake, kept to show*)
(* which property notices.                                                 *)
(***************************************************************************)
EXTENDS Naturals, Sequences, FiniteSets

CONSTANTS
  Jobs,               \* job ids
  Leases,             \* the leases dispatch may assign
  NoLease,            \* Option::None where a lease may stand
  MaxDraining,        \* MAX_DRAINING_TEARDOWNS
  MaxPendingAcks,     \* MAX_PENDING_CANCEL_ACKS
  Reconnect,          \* config.reconnect
  HasHeartbeatLimit,  \* config.heartbeat_limit is set
  HasUpgradePolicy,   \* config.auto_upgrade is set
  OverlappingCancels  \* dispatch may cancel a job while the previous
                      \* cancel's terminal frame is still to come

ASSUME SessionAssumption ==
  /\ Leases \subseteq [job : Jobs, attempt : Nat]
  /\ NoLease \notin Leases
  /\ MaxDraining \in Nat
  /\ MaxPendingAcks \in Nat
  /\ Reconnect \in BOOLEAN
  /\ HasHeartbeatLimit \in BOOLEAN
  /\ HasUpgradePolicy \in BOOLEAN
  /\ OverlappingCancels \in BOOLEAN

VARIABLES
  pc,            \* where the connection loop is
  sock,          \* the socket: "none", "up", or "dead" and not yet noticed
  ending,        \* the Disconnect being returned, then the ConnectionExit
  shutdown,      \* the operator's shutdown signal has been sent
  inFlight,      \* in_flight
  draining,      \* draining: canceled jobs whose handle is still owned
  inline,        \* the handle the over-cap cancel path awaits in place
  canceledJob,   \* canceled_job, the one slot of the suppression guard
  cancelTime,    \* leases whose record has cancel_received_at set
  pendingAcks,   \* pending_cancel_acks
  chan,          \* worker_tx -> worker_rx
  task,          \* the job tasks
  pane,          \* status.current_job
  tally,         \* status.jobs_completed / jobs_failed / jobs_canceled
  gate,          \* AutoUpgradeGate: a target is known, idle_since is set
  offered,       \* leases dispatch has assigned
  sent           \* history: frames handed to a socket, other than heartbeats

connVars == <<pc, sock, ending, shutdown>>
ownVars  == <<inFlight, draining, inline, canceledJob, cancelTime>>
viewVars == <<pane, tally>>
vars == <<connVars, ownVars, pendingAcks, chan, task, viewVars, gate, offered,
          sent>>

-----------------------------------------------------------------------------
Endings == {"none", "lost", "shutdown", "heartbeat_limit", "upgrade_required",
            "auto_upgrade", "disconnected", "error"}

TaskStates == {"none", "running", "stopping", "complete", "failed", "panicked"}

Phases == {"downloading", "rendering", "canceled"}

NoPane == [job |-> NoLease, phase |-> "none"]

(* Frames the job tasks and the assign arm put on the channel.  JobProgress *)
(* takes the path of "rejected" (forward, or drain if the send fails) and   *)
(* is left out: it changes only the pane's percentage.                      *)
Terminals == {"complete", "failed"}
Frames == [kind : Terminals \cup {"rejected"}, lease : Leases]
Wire == [kind : Terminals \cup {"rejected", "accepted", "ack"}, lease : Leases]

Frame(k, l) == [kind |-> k, lease |-> l]

Live(l)  == task[l] \in {"running", "stopping"}
Ended(l) == task[l] \in {"complete", "failed", "panicked"}

\* A job record with its JoinHandle is held somewhere in the run.
Owned(l) == inFlight = l \/ l \in draining \/ inline = l

(* `select!` is biased.  Shutdown is polled first, so every other arm found *)
(* it silent; the stream is polled last, so it found worker_rx empty.  A    *)
(* signal or frame that comes between the poll and the arm cannot be told   *)
(* from one that comes after the arm.  The timers may fire in any order.    *)
Serving == pc = "serving" /\ ~shutdown
StreamReady == Serving /\ chan = <<>>

\* A send on a socket the peer has left may still succeed locally.
SendResults == IF sock = "up" THEN {TRUE} ELSE BOOLEAN

\* Slip: the count before it included draining.
InFlightCount == IF inFlight # NoLease THEN 1 ELSE 0
\* current_job_count, what a heartbeat reports.
CurrentJobCount == (IF inFlight # NoLease THEN 1 ELSE 0) + Cardinality(draining)

\* Slip: the attempt is not compared.
frame_is_for_job_id(held, l) == held # NoLease /\ held.job = l.job
\* frame_is_for: job id and attempt must both match (audit item C-4).
frame_is_for(held, l) == held = l

\* Slip: any terminal outcome is acked.
ack_any_terminal(outcome) == outcome \in {"complete", "failed"}
\* Only a failure witnesses a stopped render.
cancel_ack_predicate(outcome) == outcome = "failed"

\* Slip: one pending ack instead of a queue.
pending_slot(l) == {l}
\* Over the cap the ack is dropped.
queue_pending_cancel_ack(l) ==
  IF Cardinality(pendingAcks) >= MaxPendingAcks
    THEN pendingAcks ELSE pendingAcks \cup {l}

\* Slip: the drain forgets which of its jobs dispatch had canceled.
forget_drained_ack(l) == pendingAcks
\* drained_ack_context and queue_drained_cancel_ack.
queue_drained_cancel_ack(l) ==
  IF l \in cancelTime /\ cancel_ack_predicate(task[l])
    THEN queue_pending_cancel_ack(l) ELSE pendingAcks

NewGate == [target |-> FALSE, quiet |-> FALSE]

\* The oneshot cancel reaches the task of lease l if it still runs.
Signal(l) ==
  IF l # NoLease /\ task[l] = "running"
    THEN [task EXCEPT ![l] = "stopping"] ELSE task

\* Enter drain_in_flight_jobs with `held` in flight, then return `why`.
BeginDrain(why, held) ==
  /\ pc' = "draining"
  /\ ending' = why
  /\ task' = Signal(held)
  /\ UNCHANGED <<sock, shutdown>>

\* if let Some(job) = &mut s.current_job { job.phase = Canceled }
PhaseCanceled == IF pane = NoPane THEN pane ELSE [pane EXCEPT !.phase = "canceled"]

-----------------------------------------------------------------------------
Init ==
  /\ pc = "connecting" /\ sock = "none" /\ ending = "none" /\ shutdown = FALSE
  /\ inFlight = NoLease /\ draining = {} /\ inline = NoLease
  /\ canceledJob = NoLease /\ cancelTime = {}
  /\ pendingAcks = {} /\ chan = <<>>
  /\ task = [l \in Leases |-> "none"]
  /\ pane = NoPane /\ tally = [completed |-> 0, failed |-> 0, canceled |-> 0]
  /\ gate = NewGate
  /\ offered = {} /\ sent = {}

-----------------------------------------------------------------------------
(* Connecting, registering and the post-register flush.                    *)

Connect ==
  /\ pc = "connecting" /\ ~shutdown
  /\ pc' = "registering" /\ sock' = "up"
  /\ UNCHANGED <<ending, shutdown, ownVars, pendingAcks, chan, task,
                 viewVars, gate, offered, sent>>

\* Rejected credentials, or max_connect_attempts spent: the run ends.
ConnectFails ==
  /\ pc = "connecting" /\ ~shutdown
  /\ pc' = "exited" /\ ending' = "error" /\ pendingAcks' = {}
  /\ UNCHANGED <<sock, shutdown, ownVars, chan, task, viewVars, gate,
                 offered, sent>>

Register ==
  /\ pc = "registering"
  /\ \E ok \in SendResults :
       IF ok THEN pc' = "flushing" /\ UNCHANGED <<sock, ending, shutdown, task>>
             ELSE BeginDrain("lost", NoLease)
  /\ UNCHANGED <<ownVars, pendingAcks, chan, viewVars, gate, offered, sent>>

\* An ack leaves the queue only after its send succeeded; a failed send
\* stops the flush and the loop starts on the dead socket.
FlushAck(l) ==
  /\ pc = "flushing" /\ l \in pendingAcks
  /\ \E ok \in SendResults :
       IF ok THEN /\ pendingAcks' = pendingAcks \ {l}
                  /\ sent' = sent \cup {Frame("ack", l)}
                  /\ pc' = pc
             ELSE pc' = "serving" /\ UNCHANGED <<pendingAcks, sent>>
  /\ UNCHANGED <<sock, ending, shutdown, ownVars, chan, task, viewVars,
                 gate, offered>>

FlushDone ==
  /\ pc = "flushing" /\ pendingAcks = {}
  /\ pc' = "serving"
  /\ UNCHANGED <<sock, ending, shutdown, ownVars, pendingAcks, chan,
                 task, viewVars, gate, offered, sent>>

-----------------------------------------------------------------------------
(* The arms of the loop.                                                   *)

ShutdownArm ==
  /\ pc = "serving" /\ shutdown
  /\ pane' = IF inFlight # NoLease THEN PhaseCanceled ELSE pane
  /\ BeginDrain("shutdown", inFlight)
  /\ UNCHANGED <<ownVars, pendingAcks, chan, tally, gate, offered, sent>>

\* Slip: teardowns in progress are not looked at.
InFlightIdle == inFlight = NoLease
UpgradeIdle == inFlight = NoLease /\ \A l \in draining : Ended(l)

\* `enabled` is the operator's flag on and the target not suppressed;
\* `elapsed` that the (positive) quiet period has passed since idle_since.
AutoUpgradeTick ==
  /\ HasUpgradePolicy /\ Serving
  /\ \E enabled, elapsed \in BOOLEAN :
       LET quiet == gate.target /\ enabled /\ UpgradeIdle
       IN /\ gate' = [gate EXCEPT !.quiet = quiet]
          /\ elapsed => gate.quiet
          /\ IF quiet /\ elapsed
               THEN BeginDrain("auto_upgrade", inFlight)
               ELSE UNCHANGED <<connVars, task>>
  /\ UNCHANGED <<ownVars, pendingAcks, chan, viewVars, offered, sent>>

HeartbeatArm ==
  /\ Serving
  /\ \E ok \in SendResults, last \in BOOLEAN :
       /\ last => HasHeartbeatLimit
       /\ IF ~ok THEN BeginDrain("lost", inFlight)
          ELSE IF last THEN BeginDrain("heartbeat_limit", inFlight)
          ELSE UNCHANGED <<connVars, task>>
  /\ UNCHANGED <<ownVars, pendingAcks, chan, viewVars, gate, offered, sent>>

\* Slip: the acked entry stays.
keep_entry(l) == draining
\* draining.remove(index), after which the entry's handle is awaited; the
\* frame was the task's last act, so that await does not block.
remove_entry(l) == draining \ {l}

\* A terminal frame of the lease in the canceled_job slot: not reported, and
\* if the job failed, acked once its task is joined.
SuppressFrame(f) ==
  /\ tally' = [tally EXCEPT !.canceled = @ + 1]
  /\ pane' = IF inFlight' = NoLease /\ pane.job = f.lease.job THEN NoPane ELSE pane
  /\ IF cancel_ack_predicate(f.kind)
       THEN \E ok \in SendResults :
              /\ draining' = remove_entry(f.lease)
              /\ sent' = IF ok THEN sent \cup {Frame("ack", f.lease)} ELSE sent
              /\ pendingAcks' = IF ok THEN pendingAcks
                                ELSE queue_pending_cancel_ack(f.lease)
       ELSE UNCHANGED <<draining, sent, pendingAcks>>
  /\ UNCHANGED <<connVars, task>>

\* The `emit` closure: it never compares the frame's lease with in_flight.
Emit(f) ==
  \/ /\ f.kind = "complete"
     /\ tally' = [tally EXCEPT !.completed = @ + 1]
     /\ pane' = NoPane
  \/ /\ f.kind = "failed"
     /\ tally' = IF pane.job # f.lease.job THEN tally
                 ELSE IF pane.phase = "canceled"
                   THEN [tally EXCEPT !.canceled = @ + 1]
                   ELSE [tally EXCEPT !.failed = @ + 1]
     /\ pane' = NoPane
  \/ f.kind = "rejected" /\ UNCHANGED viewVars

ForwardFrame(f) ==
  /\ Emit(f)
  /\ \E ok \in SendResults :
       IF ok THEN sent' = sent \cup {f} /\ UNCHANGED <<connVars, task>>
             ELSE BeginDrain("lost", inFlight') /\ UNCHANGED sent
  /\ UNCHANGED <<draining, pendingAcks>>

\* Slip: the completion that races in after a cancel is let through.
OfCanceledFailure(f) == f.kind = "failed" /\ frame_is_for(canceledJob, f.lease)
OfCanceled(f) == f.kind \in Terminals /\ frame_is_for(canceledJob, f.lease)

\* Slip: only a completion frees the slot.
CompletesInFlight(f) == f.kind = "complete" /\ frame_is_for(inFlight, f.lease)
EndsInFlight(f) == f.kind \in Terminals /\ frame_is_for(inFlight, f.lease)

WorkerArm ==
  /\ Serving /\ chan # <<>>
  /\ LET f == Head(chan)
     IN /\ inFlight' = IF EndsInFlight(f) THEN NoLease ELSE inFlight
        /\ canceledJob' = IF OfCanceled(f) THEN NoLease ELSE canceledJob
        /\ IF OfCanceled(f) THEN SuppressFrame(f) ELSE ForwardFrame(f)
  /\ chan' = Tail(chan)
  /\ UNCHANGED <<inline, cancelTime, gate, offered>>

\* Dispatch assigns the attempts of a job in order, each once.
MayAssign(l) ==
  /\ l \notin offered
  /\ \A m \in Leases : m.job = l.job /\ m.attempt < l.attempt => m \in offered

\* Slip: no busy gate.
RefusesWhenOff(allowed) == ~allowed
Refuses(allowed) == ~allowed \/ inFlight # NoLease

RefuseAssign(l) ==
  /\ chan' = Append(chan, Frame("rejected", l))
  /\ UNCHANGED <<connVars, inFlight, task, pane, gate, sent>>

AcceptAssign(l) ==
  /\ gate' = [gate EXCEPT !.quiet = FALSE]
  /\ \E ok \in SendResults :
       IF ok
         THEN /\ sent' = sent \cup {Frame("accepted", l)}
              /\ pane' = [job |-> l.job, phase |-> "rendering"]
              /\ task' = [task EXCEPT ![l] = "running"]
              /\ inFlight' = l
              /\ UNCHANGED connVars
         ELSE /\ pane' = [job |-> l.job, phase |-> "downloading"]
              /\ BeginDrain("lost", inFlight)
              /\ UNCHANGED <<sent, inFlight>>
  /\ UNCHANGED chan

JobAssign(l) ==
  /\ StreamReady /\ MayAssign(l)
  /\ offered' = offered \cup {l}
  /\ \E allowed \in BOOLEAN :
       IF Refuses(allowed) THEN RefuseAssign(l) ELSE AcceptAssign(l)
  /\ UNCHANGED <<draining, inline, canceledJob, cancelTime, pendingAcks, tally>>

\* Slip: no cap on teardowns.
NeverFull == FALSE
DrainingFull == Cardinality(draining) >= MaxDraining

\* Cancel carries a job id and no attempt.  One that matches nothing in
\* flight is ignored by the code and is a stuttering step here.
Cancel(j) ==
  /\ StreamReady /\ inFlight # NoLease /\ inFlight.job = j
  /\ OverlappingCancels \/ canceledJob = NoLease
  /\ canceledJob' = inFlight
  /\ cancelTime' = cancelTime \cup {inFlight}
  /\ pane' = PhaseCanceled
  /\ task' = Signal(inFlight)
  /\ inFlight' = NoLease
  /\ IF DrainingFull
       THEN pc' = "inline" /\ inline' = inFlight /\ UNCHANGED draining
       ELSE draining' = draining \cup {inFlight} /\ UNCHANGED <<pc, inline>>
  /\ UNCHANGED <<sock, ending, shutdown, pendingAcks, chan, tally, gate, offered, sent>>

\* A notice of a new version; a repeated one changes nothing.
UpdateAvailable ==
  /\ StreamReady
  /\ gate' = [target |-> TRUE, quiet |-> FALSE]
  /\ UNCHANGED <<connVars, ownVars, pendingAcks, chan, task, viewVars, offered, sent>>

\* A Close frame, with the upgrade-required reason or any other.
SocketClosed(why) ==
  /\ StreamReady
  /\ BeginDrain(why, inFlight)
  /\ UNCHANGED <<ownVars, pendingAcks, chan, viewVars, gate, offered, sent>>

\* Slip: a dead socket is noticed only when nothing is in flight.
StreamLostWhenFree ==
  /\ StreamReady /\ sock = "dead" /\ inFlight = NoLease
  /\ BeginDrain("lost", inFlight)
  /\ UNCHANGED <<ownVars, pendingAcks, chan, viewVars, gate, offered, sent>>

\* A read error or the end of the stream on a socket that died.
StreamLost ==
  /\ StreamReady /\ sock = "dead"
  /\ BeginDrain("lost", inFlight)
  /\ UNCHANGED <<ownVars, pendingAcks, chan, viewVars, gate, offered, sent>>

\* The over-cap cancel awaits the handle in its arm and drops the outcome.
InlineJoin ==
  /\ pc = "inline" /\ Ended(inline)
  /\ pc' = "serving" /\ inline' = NoLease
  /\ UNCHANGED <<sock, ending, shutdown, inFlight, draining, canceledJob,
                 cancelTime, pendingAcks, chan, task, viewVars, gate, offered, sent>>

-----------------------------------------------------------------------------
(* drain_in_flight_jobs and the reconnect loop around the session.         *)

JoinInFlight ==
  /\ pc = "draining" /\ inFlight # NoLease /\ Ended(inFlight)
  /\ pendingAcks' = queue_drained_cancel_ack(inFlight)
  /\ inFlight' = NoLease
  /\ UNCHANGED <<connVars, draining, inline, canceledJob, cancelTime, chan, task, viewVars, gate, offered, sent>>

JoinDraining(l) ==
  /\ pc = "draining" /\ inFlight = NoLease /\ l \in draining /\ Ended(l)
  /\ pendingAcks' = queue_drained_cancel_ack(l)
  /\ draining' = draining \ {l}
  /\ UNCHANGED <<connVars, inFlight, inline, canceledJob, cancelTime, chan, task, viewVars, gate, offered, sent>>

AllJoined == inFlight = NoLease /\ draining = {}

\* The session returns: its channel, slot and gate go with it.  A lost
\* socket is retried; every other ending ends the run and its ack queue.
SessionOver ==
  /\ pc = "draining" /\ AllJoined
  /\ IF ending = "lost" /\ Reconnect
       THEN pc' = "backoff" /\ ending' = "none" /\ UNCHANGED pendingAcks
       ELSE /\ pc' = "exited" /\ pendingAcks' = {}
            /\ ending' = IF ending = "lost" THEN "disconnected" ELSE ending
  /\ sock' = "none" /\ chan' = <<>>
  /\ canceledJob' = NoLease /\ gate' = NewGate
  /\ UNCHANGED <<shutdown, inFlight, draining, inline, cancelTime, task,
                 viewVars, offered, sent>>

BackoffElapsed ==
  /\ pc = "backoff" /\ ~shutdown
  /\ pc' = "connecting"
  /\ UNCHANGED <<sock, ending, shutdown, ownVars, pendingAcks, chan,
                 task, viewVars, gate, offered, sent>>

\* Slip: the backoff sleep ignores the signal.
OnlyConnecting == pc = "connecting"
\* Shutdown is also honoured while connecting and during the backoff sleep.
AwaySelecting == pc \in {"connecting", "backoff"}
ShutdownWhileAway ==
  /\ AwaySelecting /\ shutdown
  /\ pc' = "exited" /\ ending' = "shutdown" /\ pendingAcks' = {}
  /\ UNCHANGED <<sock, shutdown, ownVars, chan, task, viewVars, gate,
                 offered, sent>>

-----------------------------------------------------------------------------
(* The job tasks, the network and the operator.                            *)

\* run_job's last act is its terminal frame; nobody reads the channel once
\* the session drains.
TaskEnds(l, outcome) ==
  /\ Live(l)
  /\ task' = [task EXCEPT ![l] = outcome]
  /\ chan' = IF outcome = "panicked" \/ pc = "draining" THEN chan
             ELSE Append(chan, Frame(outcome, l))
  /\ UNCHANGED <<connVars, ownVars, pendingAcks, viewVars, gate,
                 offered, sent>>

SocketDies ==
  /\ sock = "up"
  /\ sock' = "dead"
  /\ UNCHANGED <<pc, ending, shutdown, ownVars, pendingAcks, chan, task,
                 viewVars, gate, offered, sent>>

RequestShutdown ==
  /\ ~shutdown /\ pc # "exited"
  /\ shutdown' = TRUE
  /\ UNCHANGED <<pc, sock, ending, ownVars, pendingAcks, chan, task,
                 viewVars, gate, offered, sent>>

\* The run has returned its ConnectionExit.
Exited == pc = "exited" /\ UNCHANGED vars

StartUp == Connect \/ ConnectFails \/ Register \/ FlushDone
           \/ \E l \in Leases : FlushAck(l)
Arms == \/ ShutdownArm \/ AutoUpgradeTick \/ HeartbeatArm \/ WorkerArm
        \/ UpdateAvailable \/ StreamLost \/ InlineJoin
        \/ \E l \in Leases : JobAssign(l)
        \/ \E j \in Jobs : Cancel(j)
        \/ \E why \in {"upgrade_required", "lost"} : SocketClosed(why)
WindDown == \/ JoinInFlight \/ SessionOver \/ BackoffElapsed \/ ShutdownWhileAway
            \/ \E l \in Leases : JoinDraining(l)
Tasks == \E l \in Leases, outcome \in {"complete", "failed", "panicked"} :
           TaskEnds(l, outcome)
Environment == SocketDies \/ RequestShutdown

Next == StartUp \/ Arms \/ WindDown \/ Tasks \/ Environment \/ Exited

Spec == Init /\ [][Next]_vars

(* The loop takes an arm that stays ready, drain_in_flight_jobs awaits      *)
(* handles one after the other, connect attempts and backoff sleeps end,    *)
(* and a job task ends (run_job's wall-clock deadline and bounded teardown).*)
(* Nothing is assumed of dispatch, the network or the operator.             *)
Fairness ==
  /\ WF_vars(ShutdownArm) /\ WF_vars(WorkerArm)
  /\ WF_vars(StreamLost) /\ WF_vars(InlineJoin)
  /\ WF_vars(StartUp) /\ WF_vars(WindDown)
  /\ WF_vars(ShutdownWhileAway)
  /\ \A l \in Leases : WF_vars(TaskEnds(l, "complete") \/ TaskEnds(l, "failed")
                               \/ TaskEnds(l, "panicked"))

FairSpec == Spec /\ Fairness

-----------------------------------------------------------------------------
(* Properties.                                                             *)

TypeOK ==
  /\ pc \in {"connecting", "registering", "flushing", "serving", "inline",
             "draining", "backoff", "exited"}
  /\ sock \in {"none", "up", "dead"}
  /\ ending \in Endings
  /\ shutdown \in BOOLEAN
  /\ inFlight \in Leases \cup {NoLease}
  /\ draining \subseteq Leases
  /\ inline \in Leases \cup {NoLease}
  /\ canceledJob \in Leases \cup {NoLease}
  /\ cancelTime \subseteq Leases
  /\ pendingAcks \subseteq Leases
  /\ chan \in Seq(Frames)
  /\ task \in [Leases -> TaskStates]
  /\ pane \in [job : Jobs, phase : Phases] \cup {NoPane}
  /\ tally \in [completed : Nat, failed : Nat, canceled : Nat]
  /\ gate \in [target : BOOLEAN, quiet : BOOLEAN]
  /\ offered \subseteq Leases
  /\ sent \subseteq Wire

(* Every job task that still runs has its JoinHandle held by the loop, so   *)
(* every exit path can await it: no cancel, late frame of an earlier        *)
(* attempt, or lost socket detaches a live render tree.                     *)
NoStrandedTask == \A l \in Leases : Live(l) => Owned(l)

(* run_session returns, and the run exits or reconnects, only when every    *)
(* task it ever spawned is over: nothing renders while the node is away.    *)
AwayMeansIdle ==
  pc \in {"connecting", "registering", "flushing", "backoff", "exited"} =>
    \A l \in Leases : ~Live(l)

(* A cancel-ack, sent or queued, witnesses a stop: dispatch canceled that   *)
(* lease and its task was joined as a failure.  Neither a completed nor a   *)
(* panicked task, nor a job killed by a shutdown or a lost socket, is acked.*)
WitnessedAck ==
  \A l \in Leases : Frame("ack", l) \in sent \/ l \in pendingAcks =>
    task[l] = "failed" /\ l \in cancelTime

(* An ack is owed in one place: one that went out is not queued again, and  *)
(* one that is queued or went out has left draining, where the next         *)
(* disconnect would queue it a second time.                                 *)
AckOwedOnce ==
  \A l \in Leases :
    /\ Frame("ack", l) \in sent => l \notin pendingAcks
    /\ l \in draining => Frame("ack", l) \notin sent /\ l \notin pendingAcks

(* in_flight is never stuck on a finished job: as long as it names a lease  *)
(* whose task reported an outcome, that report is still to be read.         *)
BusyIsReal ==
  pc \in {"serving", "inline"} /\ inFlight # NoLease
    /\ task[inFlight] \in Terminals =>
    \E i \in 1..Len(chan) : chan[i] = Frame(task[inFlight], inFlight)

(* At most one task is rendering that was not told to stop, whatever mix of *)
(* cancels, requeues and reconnects led here (max_concurrent_jobs is 1).    *)
OneRender ==
  \A l, m \in Leases : task[l] = "running" /\ task[m] = "running" => l = m

(* Teardowns cannot pile up: with the one in flight, at most MaxDraining + 1*)
(* tasks are alive, because an over-cap cancel blocks the loop.             *)
LiveTasksBounded == Cardinality({l \in Leases : Live(l)}) <= MaxDraining + 1

(* A heartbeat that reports zero jobs is true: no teardown is still running *)
(* behind it that a new assignment would have to share the machine with.    *)
IdleCountIsTrue ==
  pc = "serving" /\ CurrentJobCount = 0 => \A l \in Leases : ~Live(l)

(* The auto-upgrade handoff closes the socket without harming a job: no     *)
(* task is alive, and none lost its terminal report to the close.           *)
UpgradeHarmsNoJob ==
  pc = "draining" /\ ending = "auto_upgrade" =>
    /\ inFlight = NoLease
    /\ \A l \in Leases : ~Live(l)

(* A canceled job's terminal frame stays off the wire, unless a second      *)
(* cancel had taken over the one canceled_job slot.                         *)
LoneCancelIsSilent ==
  \A l \in cancelTime :
    (\E k \in Terminals : Frame(k, l) \in sent) => cancelTime # {l}

(* Below the caps an ack that is due cannot get lost while the run lasts:   *)
(* it was sent, or is queued, or its lease is still in draining, where the  *)
(* drain of a lost socket finds it.                                         *)
AckStillOwed ==
  Cardinality(Leases) <= MaxDraining /\ Cardinality(Leases) <= MaxPendingAcks =>
    \A l \in cancelTime : task[l] = "failed" /\ pc # "exited" =>
      Frame("ack", l) \in sent \/ l \in pendingAcks \/ l \in draining

\* How the loop and the leases look to dispatch.  A lease whose assignment
\* was read but never ran counts as refused.
NodeState ==
  CASE pc \in {"connecting", "backoff"} -> "away"
    [] pc = "draining" -> "leaving"
    [] pc = "exited" -> "gone"
    [] OTHER -> "present"
LeaseState ==
  [l \in Leases |->
     CASE task[l] = "none" -> IF l \in offered THEN "refused" ELSE "fresh"
       [] task[l] = "running" -> "held"
       [] OTHER -> task[l]]

Contract == INSTANCE LeaseContract WITH
  node <- NodeState, lease <- LeaseState, asked <- cancelTime, word <- sent

(* The loop implements the contract dispatch relies on.                     *)
KeepsContract == Contract!ContractSpec

-----------------------------------------------------------------------------
(* Liveness.                                                               *)

(* At-least-once cancel-acks: on a network that stops killing sockets, every*)
(* cancel that stopped a render is acked, on this socket or a later one,    *)
(* unless the run itself ends.                                              *)
CancelIsAcked ==
  <>[](sock # "dead") =>
    \A l \in Leases : (l \in cancelTime /\ task[l] = "failed") ~>
                        (Frame("ack", l) \in sent \/ pc = "exited")

(* A shutdown request ends the run, from any point of any session, however  *)
(* many teardowns are pending.                                              *)
ShutdownEnds == shutdown ~> pc = "exited"

(* The node frees up: an in-flight job leaves in_flight again, unless its   *)
(* task panicked (no frame is ever sent then).                              *)
NodeFreesUp ==
  \A l \in Leases : inFlight = l ~> (inFlight # l \/ task[l] = "panicked")

(* A dead socket does not hold the session: it is noticed and wound down.   *)
DeadSocketIsLeft == sock = "dead" ~> sock # "dead"
=============================================================================
