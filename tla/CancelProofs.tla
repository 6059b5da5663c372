----------------------------- MODULE CancelProofs -----------------------------
(* Further theorems about SupervisorSession: what becomes of a canceled job, *)
(* of its teardown, its terminal frame and its ack, and, in the second half, *)
(* that SupervisorSession implements LeaseContract, for every set of leases  *)
(* and every value of the caps and switches.  They rest on the ownership     *)
(* invariant of SessionProofs.                                               *)
EXTENDS SessionProofs

(* The three places a handle can be in never hold more than the cap and one. *)
BoundInv ==
  /\ Cardinality(draining) <= MaxDraining
  /\ inline # NoLease => inFlight = NoLease

\* The caps cannot be reached.
SmallCaps ==
  /\ IsFiniteSet(Leases)
  /\ Cardinality(Leases) <= MaxDraining /\ Cardinality(Leases) <= MaxPendingAcks

\* A canceled task that may still need an ack: alive, or over as a failure.
Due(l) == Live(l) \/ task[l] = "failed"

\* Where an ack that is owed may be.
Kept(l) == Frame("ack", l) \in sent \/ l \in pendingAcks \/ l \in draining

(* Below the caps no cancel is awaited in place, and every ack that may      *)
(* become due has a keeper: AckStillOwed starts too late, with the failure.  *)
OwedInv ==
  SmallCaps =>
    /\ inline = NoLease
    /\ pc # "exited" => \A l \in cancelTime : Due(l) => Kept(l)

\* A terminal frame of the lease was handed to a socket, or is still unread.
Reported(l) == \E k \in Terminals : Frame(k, l) \in sent
Queued(l) ==
  \E i \in 1..Len(chan) : chan[i].kind \in Terminals /\ chan[i].lease = l

(* A lease speaks once: its one terminal frame is unread or reported, and it *)
(* was out of in_flight when it was reported.                                *)
QueuedOnce ==
  \A i, j \in 1..Len(chan) :
    chan[i].kind \in Terminals /\ chan[j].kind \in Terminals
      /\ chan[i].lease = chan[j].lease => i = j
SpeaksOnce ==
  \A l \in Leases : Reported(l) => Ended(l) /\ inFlight # l /\ ~Queued(l)
EmptyWhenAway == pc \notin {"serving", "inline", "draining"} => chan = <<>>

(* The only lease ever canceled still has the slot when its frame is read.   *)
LoneSlot ==
  \A l \in Leases : cancelTime = {l} =>
    /\ ~Reported(l)
    /\ pc \in {"serving", "inline"} /\ (Live(l) \/ Queued(l)) => canceledJob = l

SpeakInv == QueuedOnce /\ SpeaksOnce /\ EmptyWhenAway /\ LoneSlot

-----------------------------------------------------------------------------
(* What a step may do to a task and to the handles.                          *)

(* A task starts under a fresh lease, is told to stop, and ends once.        *)
LEMMA TaskMoves ==
  ASSUME TypeOK, OwnInv, [Next]_vars, NEW l \in Leases, task'[l] # task[l]
  PROVE  \/ task[l] = "running" /\ task'[l] = "stopping"
         \/ task[l] = "none" /\ l \notin offered /\ task'[l] = "running"
         \/ Live(l) /\ task'[l] \in {"complete", "failed", "panicked"}
<1> DEFINE Goal == \/ task[l] = "running" /\ task'[l] = "stopping"
                   \/ task[l] = "none" /\ l \notin offered /\ task'[l] = "running"
                   \/ Live(l) /\ task'[l] \in {"complete", "failed", "panicked"}
<1>1. ASSUME NEW m \in Leases \cup {NoLease}, task' = Signal(m)
      PROVE  Goal
  BY <1>1, SignalEffect
<1>2. ASSUME NEW m \in Leases, JobAssign(m) PROVE Goal
  <2>1. task[m] = "none" /\ m \notin offered
    BY <1>2 DEF JobAssign, MayAssign, OwnInv, Bookkeeping
  <2>2. \/ UNCHANGED task
        \/ task' = [task EXCEPT ![m] = "running"]
        \/ task' = Signal(inFlight)
    BY <1>2 DEF JobAssign, RefuseAssign, AcceptAssign, BeginDrain
  <2> QED BY <1>1, <2>1, <2>2 DEF TypeOK
<1>3. ASSUME NEW m \in Leases, NEW o \in {"complete", "failed", "panicked"}, TaskEnds(m, o)
      PROVE  Goal
  BY <1>3 DEF TaskEnds, Live, TypeOK
<1>4. CASE StartUp \/ WindDown \/ Environment \/ Exited \/ UNCHANGED vars
  <2>1. task' = Signal(NoLease)
    BY <1>4 DEF StartUp, WindDown, Environment, Exited, vars, Connect, ConnectFails,
       Register, FlushDone, FlushAck, BeginDrain, JoinInFlight, JoinDraining, SessionOver,
       BackoffElapsed, ShutdownWhileAway, SocketDies, RequestShutdown
  <2> QED BY <1>1, <2>1
<1>5. CASE ShutdownArm \/ AutoUpgradeTick \/ UpdateAvailable \/ StreamLost \/ InlineJoin
           \/ (\E why \in {"upgrade_required", "lost"} : SocketClosed(why))
           \/ (\E j \in Jobs : Cancel(j))
  <2>1. task' = Signal(inFlight)
    BY <1>5 DEF ShutdownArm, AutoUpgradeTick, UpdateAvailable, StreamLost,
       InlineJoin, SocketClosed, Cancel, BeginDrain
  <2> QED BY <1>1, <2>1 DEF TypeOK
<1>6. CASE HeartbeatArm
  <2>1. task' = Signal(inFlight)
    BY <1>6 DEF HeartbeatArm, BeginDrain
  <2> QED BY <1>1, <2>1 DEF TypeOK
<1>7. CASE WorkerArm
  <2>1. task' = Signal(inFlight')
    BY <1>7 DEF WorkerArm, SuppressFrame, ForwardFrame, BeginDrain
  <2>2. inFlight' \in Leases \cup {NoLease}
    BY <1>7 DEF WorkerArm, TypeOK
  <2> QED BY <1>1, <2>1, <2>2
<1> QED
  BY <1>2, <1>3, <1>4, <1>5, <1>6, <1>7 DEF Next, Arms, Tasks

(* Only a cancel adds a handle to draining or to the inline await.           *)
LEMMA HandleMoves ==
  ASSUME TypeOK, OwnInv, [Next]_vars, \A j \in Jobs : ~Cancel(j)
  PROVE  /\ draining' \subseteq draining
         /\ inline' \in {inline, NoLease}
         /\ inFlight' \in {inFlight, NoLease} \/ pc = "serving"
         /\ UNCHANGED cancelTime
<1>1. CASE StartUp \/ WindDown \/ Tasks \/ Environment \/ Exited \/ UNCHANGED vars
  BY <1>1 DEF StartUp, WindDown, Tasks, Environment, Exited, vars, ownVars, Connect,
     ConnectFails, Register, FlushDone, FlushAck, JoinInFlight, JoinDraining, SessionOver,
     BackoffElapsed, ShutdownWhileAway, TaskEnds, SocketDies, RequestShutdown
<1>2. CASE ShutdownArm \/ AutoUpgradeTick \/ HeartbeatArm \/ UpdateAvailable
           \/ StreamLost \/ InlineJoin
           \/ (\E why \in {"upgrade_required", "lost"} : SocketClosed(why))
  BY <1>2 DEF ShutdownArm, AutoUpgradeTick, HeartbeatArm, UpdateAvailable, StreamLost,
     InlineJoin, SocketClosed, ownVars
<1>3. CASE WorkerArm
  <2>1. /\ inFlight' \in {inFlight, NoLease} /\ UNCHANGED <<inline, cancelTime>>
        /\ SuppressFrame(Head(chan)) \/ ForwardFrame(Head(chan))
    BY <1>3 DEF WorkerArm
  <2>2. draining' \subseteq draining
    BY <2>1 DEF SuppressFrame, ForwardFrame, remove_entry
  <2> QED BY <2>1, <2>2
<1>4. ASSUME NEW l \in Leases, JobAssign(l)
      PROVE  UNCHANGED <<draining, inline, cancelTime>> /\ pc = "serving"
  BY <1>4 DEF JobAssign, StreamReady, Serving
<1> QED
  BY <1>1, <1>2, <1>3, <1>4 DEF Next, Arms

-----------------------------------------------------------------------------
(* Teardowns do not pile up.                                                 *)

LEMMA BoundStep ==
  ASSUME TypeOK, OwnInv, BoundInv, [Next]_vars
  PROVE  BoundInv'
<1>1. ASSUME NEW j \in Jobs, Cancel(j) PROVE BoundInv'
  <2>1. inFlight' = NoLease /\ IsFiniteSet(draining) /\ Cardinality(draining) \in Nat
    BY <1>1, FS_CardinalityType DEF Cancel, OwnInv, Placement
  <2>2. CASE DrainingFull
    BY <1>1, <2>1, <2>2 DEF Cancel, BoundInv
  <2>3. CASE ~DrainingFull
    <3>1. draining' = draining \cup {inFlight}
      BY <1>1, <2>3 DEF Cancel
    <3>2. Cardinality(draining') <= Cardinality(draining) + 1
      <4>1. Cardinality(draining \cup {inFlight})
              = IF inFlight \in draining THEN Cardinality(draining) ELSE Cardinality(draining) + 1
        BY <2>1, FS_AddElement
      <4> QED BY <2>1, <3>1, <4>1
    <3>3. IsFiniteSet(draining') /\ Cardinality(draining') \in Nat
      BY <2>1, <3>1, FS_AddElement, FS_CardinalityType
    <3> QED BY <2>1, <2>3, <3>2, <3>3, SessionAssumption DEF BoundInv, DrainingFull
  <2> QED BY <2>2, <2>3
<1>2. CASE \A j \in Jobs : ~Cancel(j)
  <2>1. /\ draining' \subseteq draining /\ inline' \in {inline, NoLease}
        /\ inFlight' \in {inFlight, NoLease} \/ pc = "serving"
    BY <1>2, HandleMoves
  <2>2. IsFiniteSet(draining) /\ Cardinality(draining) \in Nat
    BY FS_CardinalityType DEF OwnInv, Placement
  <2>3. Cardinality(draining') <= Cardinality(draining) /\ Cardinality(draining') \in Nat
    BY <2>1, <2>2, FS_Subset, FS_CardinalityType
  <2>4. pc = "serving" => inline = NoLease
    BY DEF OwnInv, Placement
  <2> QED BY <2>1, <2>2, <2>3, <2>4, SessionAssumption DEF BoundInv
<1> QED BY <1>1, <1>2

(* However cancels, outcomes and reconnects interleave, at most MaxDraining  *)
(* + 1 render trees are alive: the cap and the await in place see to it.     *)
THEOREM TeardownsAreBounded == Spec => []LiveTasksBounded
<1>1. Init => BoundInv
  BY FS_EmptySet, SessionAssumption DEF Init, BoundInv
<1>2. TypeOK /\ OwnInv /\ BoundInv /\ [Next]_vars => BoundInv'
  BY BoundStep
<1>3. TypeOK /\ OwnInv /\ BoundInv => LiveTasksBounded
  <2> SUFFICES ASSUME TypeOK, OwnInv, BoundInv
               PROVE  LiveTasksBounded
    OBVIOUS
  <2> DEFINE Alive == {l \in Leases : Live(l)}
             one == IF inline # NoLease THEN inline ELSE inFlight
  <2>1. Alive \subseteq draining \cup {one}
    BY SessionAssumption DEF BoundInv, OwnInv, NoStrandedTask, Owned
  <2>2. IsFiniteSet(draining) /\ Cardinality(draining) \in Nat
    BY FS_CardinalityType DEF OwnInv, Placement
  <2> HIDE DEF Alive, one
  <2>3. /\ IsFiniteSet(draining \cup {one})
        /\ Cardinality(draining \cup {one}) <= Cardinality(draining) + 1
        /\ Cardinality(draining \cup {one}) \in Nat
    BY <2>2, FS_AddElement, FS_CardinalityType
  <2>4. Cardinality(Alive) <= Cardinality(draining \cup {one}) /\ Cardinality(Alive) \in Nat
    BY <2>1, <2>3, FS_Subset, FS_CardinalityType
  <2>5. Cardinality(Alive) <= MaxDraining + 1
    BY <2>2, <2>3, <2>4, SessionAssumption DEF BoundInv
  <2> QED BY <2>5 DEF Alive, LiveTasksBounded
<1> QED BY <1>1, <1>2, <1>3, Ownership, PTL DEF Spec

-----------------------------------------------------------------------------
(* An ack that is due is kept.                                               *)

(* A full queue below the caps is the queue of every lease.                  *)
LEMMA QueueTakes ==
  ASSUME TypeOK, SmallCaps, NEW l \in Leases
  PROVE  queue_pending_cancel_ack(l) = pendingAcks \cup {l}
<1>1. /\ IsFiniteSet(pendingAcks) /\ Cardinality(pendingAcks) <= Cardinality(Leases)
      /\ Cardinality(Leases) = Cardinality(pendingAcks) => Leases = pendingAcks
  BY FS_Subset DEF TypeOK, SmallCaps
<1>2. Cardinality(pendingAcks) \in Nat /\ Cardinality(Leases) \in Nat
  BY <1>1, FS_CardinalityType DEF SmallCaps
<1>3. CASE Cardinality(pendingAcks) >= MaxPendingAcks
  <2>1. Cardinality(Leases) = Cardinality(pendingAcks)
    BY <1>1, <1>2, <1>3, SessionAssumption DEF SmallCaps
  <2> QED BY <1>1, <1>3, <2>1 DEF queue_pending_cancel_ack
<1>4. CASE ~(Cardinality(pendingAcks) >= MaxPendingAcks)
  BY <1>4 DEF queue_pending_cancel_ack
<1> QED BY <1>3, <1>4

(* Nor can draining be full while an uncanceled lease is in flight.          *)
LEMMA DrainingTakes ==
  ASSUME TypeOK, OwnInv, SmallCaps, inFlight # NoLease
  PROVE  ~DrainingFull
<1>1. inFlight \in Leases /\ inFlight \notin draining
  BY DEF TypeOK, OwnInv, Bookkeeping
<1>2. /\ Cardinality(draining) <= Cardinality(Leases)
      /\ Cardinality(Leases) = Cardinality(draining) => Leases = draining
  BY FS_Subset DEF TypeOK, SmallCaps
<1>3. Cardinality(draining) \in Nat /\ Cardinality(Leases) \in Nat
  BY FS_CardinalityType DEF OwnInv, Placement, SmallCaps
<1> QED BY <1>1, <1>2, <1>3, SessionAssumption DEF DrainingFull, SmallCaps

(* A canceled lease becomes due at its cancel and at no later step.          *)
LEMMA DueBefore ==
  ASSUME TypeOK, OwnInv, [Next]_vars, NEW l \in cancelTime, Due(l)'
  PROVE  Due(l)
<1>1. l \in Leases /\ l \in offered
  BY DEF TypeOK, OwnInv, Bookkeeping
<1> QED BY <1>1, TaskMoves DEF Due, Live

(* A step that takes no keeper away keeps the invariant.                     *)
LEMMA KeepersStay ==
  ASSUME TypeOK, OwnInv, OwedInv, [Next]_vars, UNCHANGED cancelTime,
         inline' \in {inline, NoLease}, pc' # "exited" => pc # "exited",
         \A l \in Leases : Due(l)' /\ Kept(l) /\ pc' # "exited" => Kept(l)'
  PROVE  OwedInv'
<1> SUFFICES ASSUME SmallCaps
             PROVE  /\ inline' = NoLease
                    /\ pc' # "exited" => \A l \in cancelTime' : Due(l)' => Kept(l)'
  BY DEF OwedInv, SmallCaps
<1>1. inline' = NoLease
  BY DEF OwedInv
<1>2. ASSUME pc' # "exited", NEW l \in cancelTime, Due(l)'
      PROVE  Kept(l)'
  <2>1. Due(l) /\ l \in Leases
    BY <1>2, DueBefore DEF TypeOK
  <2>2. Kept(l)
    BY <1>2, <2>1 DEF OwedInv
  <2> QED BY <1>2, <2>1, <2>2
<1> QED BY <1>1, <1>2

LEMMA OwedStep ==
  ASSUME TypeOK, OwnInv, OwedInv, [Next]_vars
  PROVE  OwedInv'
<1> SUFFICES ASSUME SmallCaps PROVE OwedInv'
  BY DEF OwedInv, SmallCaps
<1>1. ASSUME NEW j \in Jobs, Cancel(j) PROVE OwedInv'
  <2>1. /\ inFlight # NoLease /\ ~DrainingFull
    BY <1>1, DrainingTakes DEF Cancel
  <2>2. /\ pc = "serving" /\ cancelTime' = cancelTime \cup {inFlight}
        /\ draining' = draining \cup {inFlight}
        /\ UNCHANGED <<pc, inline, sent, pendingAcks>>
    BY <1>1, <2>1 DEF Cancel, StreamReady, Serving
  <2>3. ASSUME NEW l \in cancelTime', Due(l)' PROVE Kept(l)'
    <3>1. CASE l = inFlight
      BY <2>2, <3>1 DEF Kept
    <3>2. CASE l \in cancelTime
      <4>1. Due(l)
        BY <2>3, <3>2, DueBefore
      <4> QED BY <2>2, <3>2, <4>1 DEF OwedInv, Kept
    <3> QED BY <2>2, <3>1, <3>2
  <2>4. inline' = NoLease
    BY <2>2 DEF OwedInv
  <2> QED BY <2>3, <2>4 DEF OwedInv
<1>2. ASSUME NEW l \in Leases, FlushAck(l) PROVE OwedInv'
  <2>1. /\ pc # "exited" /\ UNCHANGED <<cancelTime, inline, draining>>
        /\ sent \subseteq sent'
        /\ pendingAcks \ {l} \subseteq pendingAcks'
        /\ l \in pendingAcks' \/ Frame("ack", l) \in sent'
    BY <1>2 DEF FlushAck, ownVars
  <2> QED BY <2>1, KeepersStay DEF Kept
<1>3. CASE \/ Connect \/ Register \/ FlushDone \/ BackoffElapsed \/ ShutdownWhileAway
           \/ ConnectFails \/ SessionOver
           \/ ShutdownArm \/ AutoUpgradeTick \/ HeartbeatArm \/ UpdateAvailable
           \/ StreamLost \/ InlineJoin \/ Tasks \/ Environment
           \/ (\E why \in {"upgrade_required", "lost"} : SocketClosed(why))
           \/ Exited \/ UNCHANGED vars
  <2>1. /\ UNCHANGED <<cancelTime, draining, sent>> /\ inline' \in {inline, NoLease}
        /\ pc' = "exited" \/ UNCHANGED pendingAcks
    BY <1>3 DEF Connect, Register, FlushDone, BackoffElapsed, ShutdownWhileAway,
       ConnectFails, SessionOver, ShutdownArm, AutoUpgradeTick, HeartbeatArm,
       UpdateAvailable, StreamLost, InlineJoin, SocketClosed, Tasks, TaskEnds,
       Environment, SocketDies, RequestShutdown, Exited, vars, ownVars
  <2>2. pc' # "exited" => pc # "exited"
    BY <1>3 DEF Connect, Register, FlushDone, BackoffElapsed, ShutdownWhileAway,
       ConnectFails, SessionOver, ShutdownArm, AutoUpgradeTick, HeartbeatArm,
       UpdateAvailable, StreamLost, InlineJoin, SocketClosed, Tasks, TaskEnds,
       Environment, SocketDies, RequestShutdown, Exited, vars, connVars,
       StreamReady, Serving
  <2> QED BY <2>1, <2>2, KeepersStay DEF Kept
<1>4. ASSUME NEW l \in Leases, JobAssign(l) PROVE OwedInv'
  <2>1. /\ pc # "exited" /\ UNCHANGED <<cancelTime, inline, draining, pendingAcks>>
        /\ sent \subseteq sent'
    BY <1>4 DEF JobAssign, RefuseAssign, AcceptAssign, StreamReady, Serving
  <2> QED BY <2>1, KeepersStay DEF Kept
<1>5. CASE WorkerArm
  <2> DEFINE f == Head(chan)
  <2>1. /\ pc # "exited" /\ UNCHANGED <<cancelTime, inline>> /\ chan # <<>>
        /\ SuppressFrame(f) \/ ForwardFrame(f)
    BY <1>5 DEF WorkerArm, Serving
  <2>2. f.lease \in Leases
    <3>1. f \in Frames
      BY <2>1, HeadTailProperties DEF TypeOK
    <3> QED BY <3>1 DEF Frames
  <2>3. CASE UNCHANGED <<draining, pendingAcks>> /\ sent \subseteq sent'
    BY <2>1, <2>3, KeepersStay DEF Kept
  <2>4. CASE /\ draining' = draining \ {f.lease}
             /\ \/ sent' = sent \cup {Frame("ack", f.lease)} /\ UNCHANGED pendingAcks
                \/ UNCHANGED sent /\ pendingAcks' = queue_pending_cancel_ack(f.lease)
    BY <2>1, <2>2, <2>4, KeepersStay, QueueTakes DEF Kept
  <2> QED
    BY <2>1, <2>3, <2>4 DEF SuppressFrame, ForwardFrame, remove_entry
<1>6. CASE JoinInFlight
  <2>1. /\ pc # "exited" /\ UNCHANGED <<cancelTime, inline, draining, sent>>
        /\ inFlight \in Leases /\ pendingAcks' = queue_drained_cancel_ack(inFlight)
    BY <1>6 DEF JoinInFlight, TypeOK
  <2>2. pendingAcks \subseteq pendingAcks'
    BY <2>1, QueueTakes DEF queue_drained_cancel_ack
  <2> QED BY <2>1, <2>2, KeepersStay DEF Kept
<1>7. ASSUME NEW l \in Leases, JoinDraining(l) PROVE OwedInv'
  <2>1. /\ pc # "exited" /\ UNCHANGED <<cancelTime, inline, sent, task>>
        /\ Ended(l) /\ l \in cancelTime /\ draining' = draining \ {l}
        /\ pendingAcks' = queue_drained_cancel_ack(l)
    BY <1>7 DEF JoinDraining, OwnInv, Bookkeeping
  <2>2. /\ pendingAcks \subseteq pendingAcks'
        /\ task[l] = "failed" => l \in pendingAcks'
    BY <2>1, QueueTakes DEF queue_drained_cancel_ack, cancel_ack_predicate
  <2>3. Due(l)' => task[l] = "failed"
    BY <2>1 DEF Due, Live, Ended
  <2> QED BY <2>1, <2>2, <2>3, KeepersStay DEF Kept
<1> QED
  BY <1>1, <1>2, <1>3, <1>4, <1>5, <1>6, <1>7 DEF Next, StartUp, Arms, WindDown

(* With caps that the leases cannot reach, a due ack is sent, queued, or     *)
(* with its lease in draining, until the run exits.                          *)
THEOREM DueAcksAreKept == Spec => [](IsFiniteSet(Leases) => AckStillOwed)
<1>1. Init => OwedInv
  BY DEF Init, OwedInv
<1>2. TypeOK /\ OwnInv /\ OwedInv /\ [Next]_vars => OwedInv'
  BY OwedStep
<1>3. OwedInv => (IsFiniteSet(Leases) => AckStillOwed)
  BY DEF OwedInv, SmallCaps, AckStillOwed, Due, Kept
<1> QED BY <1>1, <1>2, <1>3, Ownership, PTL DEF Spec

-----------------------------------------------------------------------------
(* A canceled job keeps silent.                                              *)

(* Nothing is alive, and nothing is unread, while the loop is elsewhere.     *)
LEMMA AwayIsQuiet ==
  ASSUME TypeOK, OwnInv, SpeakInv, pc \notin {"serving", "inline", "draining"},
         NEW l \in Leases
  PROVE  ~Live(l) /\ ~Queued(l)
<1>1. ~Live(l)
  BY SessionAssumption DEF OwnInv, Placement, NoStrandedTask, Owned
<1>2. Len(chan) = 0
  BY EmptySeq DEF SpeakInv, EmptyWhenAway
<1> QED BY <1>1, <1>2 DEF Queued

(* An outcome is final, and a canceled task is not started again.            *)
LEMMA TasksSettle ==
  ASSUME TypeOK, OwnInv, [Next]_vars, NEW l \in Leases
  PROVE  /\ Ended(l) => Ended(l)'
         /\ l \in cancelTime /\ Live(l)' => Live(l)
<1>1. l \in cancelTime => l \in offered
  BY DEF OwnInv, Bookkeeping
<1> QED BY <1>1, TaskMoves DEF Ended, Live

(* A step by which nothing more is said or queued keeps the invariant.       *)
LEMMA SilentStep ==
  ASSUME TypeOK, OwnInv, SpeakInv, [Next]_vars, UNCHANGED cancelTime,
         QueuedOnce', EmptyWhenAway',
         \A l \in Leases : Queued(l)' => Queued(l),
         \A l \in Leases : Reported(l)' => Reported(l) /\ inFlight' # l,
         pc' \in {"serving", "inline"} => UNCHANGED canceledJob /\ pc # "draining"
  PROVE  SpeakInv'
<1>1. SpeaksOnce'
  <2> SUFFICES ASSUME NEW l \in Leases, Reported(l)'
               PROVE  Ended(l)' /\ inFlight' # l /\ ~Queued(l)'
    BY DEF SpeaksOnce
  <2>1. Reported(l) /\ Ended(l) /\ ~Queued(l)
    BY DEF SpeakInv, SpeaksOnce
  <2> QED BY <2>1, TasksSettle
<1>2. LoneSlot'
  <2> SUFFICES ASSUME NEW l \in Leases, cancelTime = {l}
               PROVE  /\ ~Reported(l)'
                      /\ pc' \in {"serving", "inline"} /\ (Live(l)' \/ Queued(l)') =>
                           canceledJob' = l
    BY DEF LoneSlot
  <2>1. ~Reported(l)'
    BY DEF SpeakInv, LoneSlot
  <2>2. ASSUME pc' \in {"serving", "inline"}, Live(l)' \/ Queued(l)'
        PROVE  canceledJob' = l
    <3>1. Live(l) \/ Queued(l)
      BY <2>2, TasksSettle
    <3>2. pc \in {"serving", "inline"}
      BY <2>2, <3>1, AwayIsQuiet
    <3> QED BY <2>2, <3>1, <3>2 DEF SpeakInv, LoneSlot
  <2> QED BY <2>1, <2>2
<1> QED BY <1>1, <1>2 DEF SpeakInv

(* The channel as it was, or gone with its session.                          *)
LEMMA ChanKept ==
  ASSUME SpeakInv, UNCHANGED chan \/ chan' = <<>>
  PROVE  QueuedOnce' /\ \A l \in Leases : Queued(l)' => Queued(l)
<1>1. CASE UNCHANGED chan
  BY <1>1 DEF SpeakInv, QueuedOnce, Queued
<1>2. CASE chan' = <<>>
  <2>1. Len(chan') = 0
    BY <1>2, EmptySeq
  <2> QED BY <2>1 DEF QueuedOnce, Queued
<1> QED BY <1>1, <1>2

(* A frame at the end of the channel, of a lease that has none there.        *)
LEMMA ChanLonger ==
  ASSUME TypeOK, SpeakInv, NEW g \in Frames, chan' = Append(chan, g),
         g.kind \in Terminals => ~Queued(g.lease)
  PROVE  /\ QueuedOnce'
         /\ \A l \in Leases : Queued(l)' => Queued(l) \/ (g.kind \in Terminals /\ l = g.lease)
<1>1. /\ Len(chan') = Len(chan) + 1 /\ chan'[Len(chan) + 1] = g
      /\ \A i \in 1..Len(chan) : chan'[i] = chan[i]
      /\ Len(chan) \in Nat
  BY AppendProperties, LenProperties DEF TypeOK
<1>2. \A i \in 1..Len(chan') : i \in 1..Len(chan) \/ i = Len(chan) + 1
  BY <1>1
<1>3. QueuedOnce'
  <2> SUFFICES ASSUME NEW i \in 1..Len(chan'), NEW j \in 1..Len(chan'),
                      chan'[i].kind \in Terminals, chan'[j].kind \in Terminals,
                      chan'[i].lease = chan'[j].lease
               PROVE  i = j
    BY DEF QueuedOnce
  <2>1. CASE i \in 1..Len(chan) /\ j \in 1..Len(chan)
    BY <1>1, <2>1 DEF SpeakInv, QueuedOnce
  <2>2. CASE i = Len(chan) + 1 /\ j \in 1..Len(chan)
    BY <1>1, <2>2 DEF Queued
  <2>3. CASE i \in 1..Len(chan) /\ j = Len(chan) + 1
    BY <1>1, <2>3 DEF Queued
  <2> QED BY <1>2, <2>1, <2>2, <2>3
<1>4. ASSUME NEW l \in Leases, Queued(l)'
      PROVE  Queued(l) \/ (g.kind \in Terminals /\ l = g.lease)
  <2>1. PICK i \in 1..Len(chan') : chan'[i].kind \in Terminals /\ chan'[i].lease = l
    BY <1>4 DEF Queued
  <2> QED BY <1>1, <1>2, <2>1 DEF Queued
<1> QED BY <1>3, <1>4

(* Without its head the channel is silent about the head's lease.            *)
LEMMA ChanShorter ==
  ASSUME TypeOK, SpeakInv, chan # <<>>, chan' = Tail(chan)
  PROVE  /\ Head(chan) \in Frames
         /\ \A l \in Leases : Head(chan).kind \in Terminals /\ l = Head(chan).lease =>
              Queued(l) /\ ~Queued(l)'
         /\ QueuedOnce'
         /\ \A l \in Leases : Queued(l)' => Queued(l)
<1>1. /\ Len(chan') = Len(chan) - 1
      /\ \A i \in 1..Len(chan') : chan'[i] = chan[i + 1]
      /\ Len(chan) \in Nat \ {0} /\ Head(chan) = chan[1] /\ Head(chan) \in Frames
  BY HeadTailProperties, EmptySeq DEF TypeOK
<1>2. \A i \in 1..Len(chan') : i + 1 \in 1..Len(chan)
  BY <1>1
<1>3. QueuedOnce'
  <2> SUFFICES ASSUME NEW i \in 1..Len(chan'), NEW j \in 1..Len(chan'),
                      chan'[i].kind \in Terminals, chan'[j].kind \in Terminals,
                      chan'[i].lease = chan'[j].lease
               PROVE  i = j
    BY DEF QueuedOnce
  <2>1. i + 1 = j + 1
    BY <1>1, <1>2 DEF SpeakInv, QueuedOnce
  <2> QED BY <2>1
<1>4. \A l \in Leases : Queued(l)' => Queued(l)
  BY <1>1, <1>2 DEF Queued
<1>5. ASSUME NEW l \in Leases, Head(chan).kind \in Terminals, l = Head(chan).lease
      PROVE  Queued(l) /\ ~Queued(l)'
  <2>1. 1 \in 1..Len(chan)
    BY <1>1
  <2>2. Queued(l)
    BY <1>1, <1>5, <2>1 DEF Queued
  <2>3. ASSUME NEW i \in 1..Len(chan'), chan'[i].kind \in Terminals, chan'[i].lease = l
        PROVE  FALSE
    <3>1. i + 1 = 1
      BY <1>1, <1>2, <1>5, <2>1, <2>3 DEF SpeakInv, QueuedOnce
    <3> QED BY <3>1
  <2> QED BY <2>2, <2>3 DEF Queued
<1> QED BY <1>1, <1>3, <1>4, <1>5

(* The frame at the head is suppressed, or reported and its lease done with. *)
LEMMA WorkerSpeaks ==
  ASSUME TypeOK, OwnInv, SpeakInv, [Next]_vars, WorkerArm
  PROVE  SpeakInv'
<1> DEFINE f == Head(chan)
<1>1. /\ pc = "serving" /\ chan # <<>> /\ chan' = Tail(chan) /\ UNCHANGED cancelTime
      /\ inFlight' = IF EndsInFlight(f) THEN NoLease ELSE inFlight
      /\ canceledJob' = IF OfCanceled(f) THEN NoLease ELSE canceledJob
      /\ IF OfCanceled(f) THEN SuppressFrame(f) ELSE ForwardFrame(f)
  BY DEF WorkerArm, Serving
<1>2. /\ f \in Frames /\ QueuedOnce' /\ \A l \in Leases : Queued(l)' => Queued(l)
      /\ \A l \in Leases : f.kind \in Terminals /\ l = f.lease => Queued(l) /\ ~Queued(l)'
  BY <1>1, ChanShorter
<1>3. f.lease \in Leases /\ (f.kind \in Terminals => task[f.lease] = f.kind)
  <2>1. f = chan[1] /\ 1 \in 1..Len(chan)
    BY <1>1, EmptySeq DEF TypeOK
  <2> QED BY <1>2, <2>1 DEF Frames, OwnInv, TruthfulChan
<1>4. pc' \in {"serving", "draining"}
  BY <1>1 DEF SuppressFrame, ForwardFrame, BeginDrain, connVars
<1>5. CASE OfCanceled(f)
  <2>1. \A l \in Leases : Reported(l)' => Reported(l)
    BY <1>1, <1>5 DEF SuppressFrame, Reported, Frame, Terminals
  <2>2. SpeaksOnce'
    BY <1>1, <1>2, <2>1, TasksSettle, SessionAssumption DEF SpeakInv, SpeaksOnce
  <2>3. LoneSlot'
    <3> SUFFICES ASSUME NEW l \in Leases, cancelTime = {l}
                 PROVE  ~Reported(l)' /\ ~Live(l)' /\ ~Queued(l)'
      BY <1>1 DEF LoneSlot
    <3>1. f.lease = l /\ f.kind \in Terminals
      BY <1>3, <1>5, SessionAssumption DEF OfCanceled, frame_is_for, OwnInv, Bookkeeping
    <3>2. ~Queued(l)' /\ ~Live(l)
      BY <1>2, <1>3, <3>1 DEF Live, Terminals
    <3> QED BY <2>1, <3>2, TasksSettle DEF SpeakInv, LoneSlot
  <2> QED BY <1>2, <1>4, <2>2, <2>3 DEF SpeakInv, EmptyWhenAway
<1>6. CASE ~OfCanceled(f)
  <2>1. \A l \in Leases : Reported(l)' => Reported(l) \/ (f.kind \in Terminals /\ f.lease = l)
    BY <1>1, <1>6 DEF ForwardFrame, Reported, Frame, Terminals
  <2>2. SpeaksOnce'
    <3> SUFFICES ASSUME NEW l \in Leases, Reported(l)'
                 PROVE  Ended(l)' /\ inFlight' # l /\ ~Queued(l)'
      BY DEF SpeaksOnce
    <3>1. CASE Reported(l)
      BY <1>1, <1>2, <3>1, TasksSettle, SessionAssumption DEF SpeakInv, SpeaksOnce
    <3>2. CASE f.kind \in Terminals /\ f.lease = l
      <4>1. Ended(l) /\ ~Queued(l)'
        BY <1>2, <1>3, <3>2 DEF Ended, Terminals
      <4>2. inFlight' # l
        BY <1>1, <3>2, SessionAssumption DEF EndsInFlight, frame_is_for
      <4> QED BY <4>1, <4>2, TasksSettle
    <3> QED BY <2>1, <3>1, <3>2
  <2>3. LoneSlot'
    <3> SUFFICES ASSUME NEW l \in Leases, cancelTime = {l}
                 PROVE  /\ ~Reported(l)'
                        /\ Live(l)' \/ Queued(l)' => canceledJob' = l
      BY <1>1 DEF LoneSlot
    <3>1. Live(l) \/ Queued(l) => canceledJob = l
      BY <1>1 DEF SpeakInv, LoneSlot
    <3>2. Live(l)' \/ Queued(l)' => canceledJob' = l
      BY <1>1, <1>2, <1>6, <3>1, TasksSettle
    <3>3. ~(f.kind \in Terminals /\ f.lease = l)
      BY <1>2, <1>6, <3>1 DEF OfCanceled, frame_is_for
    <3> QED BY <2>1, <3>2, <3>3 DEF SpeakInv, LoneSlot
  <2> QED BY <1>2, <1>4, <2>2, <2>3 DEF SpeakInv, EmptyWhenAway
<1> QED BY <1>5, <1>6

(* Only a live task adds its terminal frame.                                 *)
LEMMA EndSpeaks ==
  ASSUME TypeOK, OwnInv, SpeakInv, [Next]_vars, NEW l \in Leases,
         NEW outcome \in {"complete", "failed", "panicked"}, TaskEnds(l, outcome)
  PROVE  SpeakInv'
<1>1. /\ Live(l) /\ UNCHANGED <<pc, inFlight, canceledJob, cancelTime, sent>>
      /\ \/ UNCHANGED chan
         \/ outcome \in Terminals /\ chan' = Append(chan, Frame(outcome, l))
  BY DEF TaskEnds, connVars, ownVars, Terminals
<1>2. ~Queued(l)
  BY <1>1, ChanFrame DEF OwnInv, TruthfulChan, Queued, Live, Terminals
<1>3. QueuedOnce' /\ \A m \in Leases : Queued(m)' => Queued(m) \/ m = l
  <2>1. CASE UNCHANGED chan
    BY <2>1, ChanKept
  <2>2. CASE outcome \in Terminals /\ chan' = Append(chan, Frame(outcome, l))
    <3>1. Frame(outcome, l) \in Frames /\ Frame(outcome, l).lease = l
      BY <2>2 DEF Frames, Frame
    <3> QED BY <1>2, <2>2, <3>1, ChanLonger
  <2> QED BY <1>1, <2>1, <2>2
<1>4. pc \in {"serving", "inline", "draining"}
  BY <1>1, AwayIsQuiet
<1>5. \A m \in Leases : Reported(m)' <=> Reported(m)
  BY <1>1 DEF Reported
<1>6. SpeaksOnce'
  <2>1. ~Reported(l)
    BY <1>1 DEF SpeakInv, SpeaksOnce, Live, Ended
  <2> QED BY <1>1, <1>3, <1>5, <2>1, TasksSettle DEF SpeakInv, SpeaksOnce
<1>7. LoneSlot'
  BY <1>1, <1>3, <1>5, TasksSettle DEF SpeakInv, LoneSlot
<1> QED BY <1>1, <1>3, <1>4, <1>6, <1>7 DEF SpeakInv, EmptyWhenAway

LEMMA SpeakStep ==
  ASSUME TypeOK, OwnInv, SpeakInv, [Next]_vars
  PROVE  SpeakInv'
<1>1. ASSUME NEW j \in Jobs, Cancel(j) PROVE SpeakInv'
  <2>1. /\ pc = "serving" /\ pc' \in {"serving", "inline"} /\ inFlight \in Leases
        /\ inFlight' = NoLease /\ canceledJob' = inFlight
        /\ cancelTime' = cancelTime \cup {inFlight} /\ UNCHANGED <<chan, sent>>
    BY <1>1 DEF Cancel, StreamReady, Serving, TypeOK
  <2>2. QueuedOnce' /\ \A l \in Leases : Queued(l)' => Queued(l)
    BY <2>1, ChanKept
  <2>3. \A l \in Leases : Reported(l)' <=> Reported(l)
    BY <2>1 DEF Reported
  <2>4. SpeaksOnce'
    BY <2>1, <2>2, <2>3, TasksSettle, SessionAssumption DEF SpeakInv, SpeaksOnce
  <2>5. LoneSlot'
    BY <2>1, <2>3 DEF SpeakInv, SpeaksOnce, LoneSlot
  <2> QED BY <2>1, <2>2, <2>4, <2>5 DEF SpeakInv, EmptyWhenAway
<1>2. ASSUME NEW l \in Leases, JobAssign(l) PROVE SpeakInv'
  <2>1. /\ pc = "serving" /\ pc' \in {"serving", "draining"} /\ task[l] = "none"
        /\ UNCHANGED <<canceledJob, cancelTime>> /\ inFlight' \in {inFlight, l}
        /\ sent' \subseteq sent \cup {Frame("accepted", l)}
        /\ UNCHANGED chan \/ chan' = Append(chan, Frame("rejected", l))
    BY <1>2 DEF JobAssign, MayAssign, StreamReady, Serving, RefuseAssign, AcceptAssign,
       BeginDrain, connVars, OwnInv, Bookkeeping
  <2>2. QueuedOnce' /\ \A m \in Leases : Queued(m)' => Queued(m)
    <3>1. Frame("rejected", l) \in Frames /\ Frame("rejected", l).kind \notin Terminals
      BY DEF Frames, Frame, Terminals
    <3> QED BY <2>1, <3>1, ChanKept, ChanLonger
  <2>3. \A m \in Leases : Reported(m)' => Reported(m)
    BY <2>1 DEF Reported, Frame, Terminals
  <2>4. \A m \in Leases : Reported(m) => inFlight' # m
    BY <2>1 DEF SpeakInv, SpeaksOnce, Ended
  <2> QED BY <2>1, <2>2, <2>3, <2>4, SilentStep DEF EmptyWhenAway
<1>3. CASE WorkerArm BY <1>3, WorkerSpeaks
<1>4. ASSUME NEW l \in Leases, NEW outcome \in {"complete", "failed", "panicked"},
             TaskEnds(l, outcome)
      PROVE  SpeakInv'
  BY <1>4, EndSpeaks
<1>5. ASSUME UNCHANGED <<cancelTime, chan>>, UNCHANGED inFlight \/ inFlight' = NoLease,
             \A k \in Terminals, l \in Leases : Frame(k, l) \in sent' => Frame(k, l) \in sent,
             pc' \in {"serving", "inline"} => UNCHANGED canceledJob /\ pc # "draining",
             pc' \in {"serving", "inline", "draining"} \/ chan = <<>>
      PROVE  SpeakInv'
  <2>1. QueuedOnce' /\ \A l \in Leases : Queued(l)' => Queued(l)
    BY <1>5, ChanKept
  <2>2. \A l \in Leases : Reported(l)' => Reported(l)
    BY <1>5 DEF Reported
  <2>3. \A l \in Leases : Reported(l) => inFlight' # l
    BY <1>5, SessionAssumption DEF SpeakInv, SpeaksOnce
  <2> QED BY <1>5, <2>1, <2>2, <2>3, SilentStep DEF EmptyWhenAway
<1>6. CASE SessionOver
  <2>1. /\ chan' = <<>> /\ pc' \notin {"serving", "inline"}
        /\ UNCHANGED <<cancelTime, inFlight, sent>>
    BY <1>6 DEF SessionOver
  <2>2. QueuedOnce' /\ \A l \in Leases : Queued(l)' => Queued(l)
    BY <2>1, ChanKept
  <2>3. \A l \in Leases : Reported(l)' => Reported(l) /\ inFlight' # l
    BY <2>1 DEF Reported, SpeakInv, SpeaksOnce
  <2> QED BY <2>1, <2>2, <2>3, SilentStep DEF EmptyWhenAway
<1>7. CASE \/ Connect \/ Register \/ FlushDone \/ BackoffElapsed \/ ShutdownWhileAway
           \/ ConnectFails \/ \E l \in Leases : FlushAck(l)
  <2>1. /\ UNCHANGED <<ownVars, chan>> /\ chan = <<>> /\ pc # "draining"
        /\ \A k \in Terminals, l \in Leases : Frame(k, l) \in sent' => Frame(k, l) \in sent
    BY <1>7 DEF Connect, Register, FlushDone, BackoffElapsed, ShutdownWhileAway,
       AwaySelecting, ConnectFails, FlushAck, SpeakInv, EmptyWhenAway, Frame, Terminals
  <2> QED BY <1>5, <2>1 DEF ownVars
<1>8. CASE \/ JoinInFlight \/ (\E l \in Leases : JoinDraining(l))
           \/ ShutdownArm \/ AutoUpgradeTick \/ UpdateAvailable \/ StreamLost \/ InlineJoin
           \/ (\E why \in {"upgrade_required", "lost"} : SocketClosed(why))
  <2>1. /\ UNCHANGED <<cancelTime, canceledJob, chan, sent>>
        /\ UNCHANGED inFlight \/ inFlight' = NoLease
        /\ pc' = "draining" \/ (pc \in {"serving", "inline"} /\ pc' = "serving")
    BY <1>8 DEF JoinInFlight, JoinDraining, ShutdownArm, AutoUpgradeTick, UpdateAvailable,
       StreamLost, InlineJoin, SocketClosed, BeginDrain, StreamReady, Serving, ownVars, connVars
  <2> QED BY <1>5, <2>1
<1>9. CASE HeartbeatArm
  <2>1. /\ UNCHANGED <<ownVars, chan, sent>> /\ pc = "serving"
        /\ pc' \in {"draining", "serving"}
    BY <1>9 DEF HeartbeatArm, BeginDrain, Serving, connVars
  <2> QED BY <1>5, <2>1 DEF ownVars
<1>10. CASE Environment \/ Exited \/ UNCHANGED vars
  <2>1. UNCHANGED <<pc, ownVars, chan, sent>>
    BY <1>10 DEF Environment, SocketDies, RequestShutdown, Exited, vars, connVars
  <2>2. pc' \in {"serving", "inline", "draining"} \/ chan = <<>>
    BY <2>1 DEF SpeakInv, EmptyWhenAway
  <2> QED BY <1>5, <2>1, <2>2 DEF ownVars
<1> QED
  BY <1>1, <1>2, <1>3, <1>4, <1>6, <1>7, <1>8, <1>9, <1>10
     DEF Next, StartUp, Arms, WindDown, Tasks

(* Whatever races with it, the terminal frame of the only canceled job stays *)
(* off the wire: the slot still names the lease when the frame is read.      *)
THEOREM LoneCancelKeepsSilent == Spec => []LoneCancelIsSilent
<1>1. Init => SpeakInv
  <2> SUFFICES ASSUME Init PROVE SpeakInv
    OBVIOUS
  <2>1. Len(chan) = 0
    BY EmptySeq DEF Init
  <2> QED BY <2>1 DEF Init, SpeakInv, QueuedOnce, SpeaksOnce, EmptyWhenAway, LoneSlot, Reported
<1>2. TypeOK /\ OwnInv /\ SpeakInv /\ [Next]_vars => SpeakInv'
  BY SpeakStep
<1>3. TypeOK /\ SpeakInv => LoneCancelIsSilent
  BY DEF TypeOK, SpeakInv, LoneSlot, Reported, LoneCancelIsSilent
<1> QED BY <1>1, <1>2, <1>3, Ownership, PTL DEF Spec

-----------------------------------------------------------------------------
(* SupervisorSession implements LeaseContract.                               *)

(* A refusal on the channel is of a lease that was offered and never ran.    *)
RefusalsTrue ==
  \A i \in 1..Len(chan) : chan[i].kind = "rejected" =>
    task[chan[i].lease] = "none" /\ chan[i].lease \in offered

(* The job in flight was started, and the loop has not told it to stop: only *)
(* a cancel, which takes it out of in_flight, or a drain does.               *)
HeldRuns ==
  inFlight # NoLease =>
    /\ task[inFlight] # "none"
    /\ pc \in {"serving", "inline"} => task[inFlight] # "stopping"

ViewInv == RefusalsTrue /\ HeldRuns

-----------------------------------------------------------------------------
(* The view of the loop that the contract is about.                          *)

LEMMA ViewOfLoop ==
  /\ pc \in {"connecting", "backoff"} => NodeState = "away"
  /\ pc = "draining" => NodeState = "leaving"
  /\ pc = "exited" => NodeState = "gone"
  /\ pc \in {"registering", "flushing", "serving", "inline"} => NodeState = "present"
BY DEF NodeState

LEMMA ViewOfLoopNext ==
  /\ pc' \in {"connecting", "backoff"} => NodeState' = "away"
  /\ pc' = "draining" => NodeState' = "leaving"
  /\ pc' = "exited" => NodeState' = "gone"
  /\ pc' \in {"registering", "flushing", "serving", "inline"} => NodeState' = "present"
BY DEF NodeState

View(st, off) == IF st = "none" THEN IF off THEN "refused" ELSE "fresh"
                 ELSE IF st = "running" THEN "held" ELSE st

LEMMA ViewOfLeases ==
  /\ LeaseState = [l \in Leases |-> View(task[l], l \in offered)]
  /\ LeaseState' = [l \in Leases |-> View(task'[l], l \in offered')]
BY DEF LeaseState, View

(* The loop leaves for the drain: what still runs is told to stop.           *)
LEMMA LeaveStep ==
  ASSUME TypeOK, pc \in {"registering", "serving"}, pc' = "draining",
         \A l \in Leases : task'[l] = IF task[l] = "running" THEN "stopping" ELSE task[l],
         UNCHANGED <<cancelTime, sent, offered>>
  PROVE  Contract!Leave
<1>1. NodeState = "present" /\ NodeState' = "leaving"
  BY ViewOfLoop, ViewOfLoopNext
<1>2. LeaseState' = [l \in Leases |-> IF LeaseState[l] = "held" THEN "stopping" ELSE LeaseState[l]]
  BY ViewOfLeases DEF View, TypeOK, TaskStates
<1> QED BY <1>1, <1>2 DEF Contract!Leave

(* BeginDrain is such a step, because only the job in flight runs.           *)
LEMMA DrainLeaves ==
  ASSUME TypeOK, OwnInv, pc \in {"registering", "serving"}, NEW why,
         NEW held \in Leases \cup {NoLease}, BeginDrain(why, held),
         held = inFlight \/ \A l \in Leases : task[l] # "running",
         UNCHANGED <<cancelTime, sent, offered>>
  PROVE  Contract!Leave
<1>1. pc' = "draining"
  BY DEF BeginDrain
<1>2. \A l \in Leases : task'[l] = IF task[l] = "running" THEN "stopping" ELSE task[l]
  BY SignalEffect DEF BeginDrain, OwnInv, RunningHeld
<1> QED BY <1>1, <1>2, LeaveStep

(* What the contract does not see.                                           *)
LEMMA Unseen ==
  ASSUME UNCHANGED <<task, offered, cancelTime, sent>>, NodeState' = NodeState
  PROVE  UNCHANGED Contract!contractVars
<1>1. LeaseState' = LeaseState
  BY ViewOfLeases
<1> QED BY <1>1 DEF Contract!contractVars

(* Away, gone, or with every handle joined: nothing runs.                    *)
LEMMA DepartStep ==
  ASSUME TypeOK, OwnInv, UNCHANGED <<task, offered, cancelTime, sent>>,
         (pc = "draining" /\ AllJoined) \/ pc \in {"connecting", "backoff"},
         pc' \in {"backoff", "exited"}
  PROVE  Contract!Depart
<1>1. \A l \in Leases : ~Live(l)
  BY SessionAssumption DEF OwnInv, Placement, NoStrandedTask, Owned, AllJoined
<1>2. \A l \in Leases : ~Contract!Runs(l)
  BY <1>1, ViewOfLeases DEF View, Live, Contract!Runs, TypeOK, TaskStates
<1>3. LeaseState' = LeaseState
  BY ViewOfLeases
<1> QED BY <1>2, <1>3, ViewOfLoop, ViewOfLoopNext DEF Contract!Depart

-----------------------------------------------------------------------------
(* The invariant of the view.                                                *)

LEMMA RefusalsStep ==
  ASSUME TypeOK, OwnInv, RefusalsTrue, [Next]_vars
  PROVE  RefusalsTrue'
<1>1. offered \subseteq offered'
  BY DEF Next, StartUp, Arms, WindDown, Tasks, Environment, Exited, vars, Connect,
     ConnectFails, Register, FlushDone, FlushAck, ShutdownArm, AutoUpgradeTick, HeartbeatArm,
     WorkerArm, UpdateAvailable, StreamLost, InlineJoin, JobAssign, Cancel, SocketClosed,
     JoinInFlight, SessionOver, BackoffElapsed, ShutdownWhileAway, JoinDraining, TaskEnds,
     SocketDies, RequestShutdown
<1>2. \A l \in Leases : task[l] = "none" /\ l \in offered => task'[l] = "none" /\ l \in offered'
  BY <1>1, TaskMoves DEF Live
<1>3. ASSUME NEW g \in Frames, chan' = Append(chan, g),
             g.kind = "rejected" => task'[g.lease] = "none" /\ g.lease \in offered'
      PROVE  RefusalsTrue'
  <2>1. /\ Len(chan') = Len(chan) + 1 /\ chan'[Len(chan) + 1] = g
        /\ \A i \in 1..Len(chan) : chan'[i] = chan[i]
        /\ Len(chan) \in Nat
    BY <1>3, AppendProperties, LenProperties DEF TypeOK
  <2>2. \A i \in 1..Len(chan') : i \in 1..Len(chan) \/ i = Len(chan) + 1
    BY <2>1
  <2> QED BY <1>2, <1>3, <2>1, <2>2, ChanFrame DEF RefusalsTrue
<1>4. CASE UNCHANGED chan
  BY <1>2, <1>4, ChanFrame DEF RefusalsTrue
<1>5. CASE chan' = <<>>
  <2>1. Len(chan') = 0
    BY <1>5, EmptySeq
  <2> QED BY <2>1 DEF RefusalsTrue
<1>6. CASE chan # <<>> /\ chan' = Tail(chan)
  <2>1. /\ Len(chan') = Len(chan) - 1 /\ Len(chan) \in Nat
        /\ \A i \in 1..Len(chan') : chan'[i] = chan[i + 1]
    BY <1>6, HeadTailProperties, EmptySeq DEF TypeOK
  <2>2. \A i \in 1..Len(chan') : i + 1 \in 1..Len(chan)
    BY <2>1
  <2> QED BY <1>2, <2>1, <2>2, ChanFrame DEF RefusalsTrue
<1>7. ASSUME NEW l \in Leases, JobAssign(l) PROVE RefusalsTrue'
  <2>1. CASE RefuseAssign(l)
    <3>1. /\ Frame("rejected", l) \in Frames /\ Frame("rejected", l).lease = l
      BY DEF Frames, Frame
    <3>2. /\ chan' = Append(chan, Frame("rejected", l)) /\ task'[l] = "none" /\ l \in offered'
      BY <1>7, <2>1 DEF JobAssign, MayAssign, RefuseAssign, OwnInv, Bookkeeping
    <3> QED BY <1>3, <3>1, <3>2
  <2>2. CASE AcceptAssign(l)
    BY <1>4, <2>2 DEF AcceptAssign
  <2> QED BY <1>7, <2>1, <2>2 DEF JobAssign
<1>8. ASSUME NEW l \in Leases, NEW o \in {"complete", "failed", "panicked"}, TaskEnds(l, o)
      PROVE  RefusalsTrue'
  <2>1. CASE UNCHANGED chan
    BY <1>4, <2>1
  <2>2. CASE o # "panicked" /\ chan' = Append(chan, Frame(o, l))
    <3>1. Frame(o, l) \in Frames /\ Frame(o, l).kind # "rejected"
      BY <2>2 DEF Frames, Frame, Terminals
    <3> QED BY <1>3, <2>2, <3>1
  <2> QED BY <1>8, <2>1, <2>2 DEF TaskEnds
<1>9. \/ UNCHANGED chan \/ chan' = <<>> \/ (chan # <<>> /\ chan' = Tail(chan))
      \/ (\E l \in Leases : JobAssign(l)) \/ Tasks
  <2>1. StartUp \/ Environment \/ Exited \/ UNCHANGED vars => UNCHANGED chan
    BY DEF StartUp, Environment, Exited, vars, Connect, ConnectFails, Register, FlushDone,
       FlushAck, SocketDies, RequestShutdown
  <2>2. WindDown => UNCHANGED chan \/ chan' = <<>>
    BY DEF WindDown, JoinInFlight, SessionOver, BackoffElapsed, ShutdownWhileAway, JoinDraining
  <2>3. Arms => \/ UNCHANGED chan \/ (chan # <<>> /\ chan' = Tail(chan))
                \/ \E l \in Leases : JobAssign(l)
    <3>1. WorkerArm => chan # <<>> /\ chan' = Tail(chan)
      BY DEF WorkerArm
    <3>2. HeartbeatArm \/ AutoUpgradeTick => UNCHANGED chan
      BY DEF HeartbeatArm, AutoUpgradeTick
    <3>3. ShutdownArm \/ UpdateAvailable \/ StreamLost \/ InlineJoin => UNCHANGED chan
      BY DEF ShutdownArm, UpdateAvailable, StreamLost, InlineJoin
    <3>4. ASSUME NEW j \in Jobs, Cancel(j) PROVE UNCHANGED chan
      BY <3>4 DEF Cancel
    <3>5. ASSUME NEW why \in {"upgrade_required", "lost"}, SocketClosed(why)
          PROVE  UNCHANGED chan
      BY <3>5 DEF SocketClosed
    <3> QED BY <3>1, <3>2, <3>3, <3>4, <3>5 DEF Arms
  <2> QED BY <2>1, <2>2, <2>3 DEF Next
<1> QED BY <1>4, <1>5, <1>6, <1>7, <1>8, <1>9 DEF Tasks

LEMMA HeldStep ==
  ASSUME TypeOK, OwnInv, HeldRuns, [Next]_vars
  PROVE  HeldRuns'
<1> SUFFICES ASSUME inFlight' # NoLease
             PROVE  /\ task'[inFlight'] # "none"
                    /\ pc' \in {"serving", "inline"} => task'[inFlight'] # "stopping"
  BY DEF HeldRuns
<1>1. CASE inFlight' = inFlight /\ pc' \notin {"serving", "inline"}
  BY <1>1, TaskMoves DEF HeldRuns, TypeOK, Live
<1>2. CASE inFlight' = inFlight /\ pc \in {"serving", "inline"} /\ UNCHANGED task
  BY <1>2 DEF HeldRuns
<1>3. CASE StartUp \/ WindDown
  <2>1. inFlight' = inFlight
    BY <1>3 DEF StartUp, WindDown, Connect, ConnectFails, Register, FlushDone, FlushAck,
       JoinInFlight, JoinDraining, SessionOver, BackoffElapsed, ShutdownWhileAway, ownVars
  <2>2. pc \in {"serving", "inline", "draining"}
    BY <2>1 DEF OwnInv, Placement
  <2>3. pc' \notin {"serving", "inline"}
    BY <1>3, <2>2 DEF StartUp, WindDown, Connect, ConnectFails, Register, FlushDone, FlushAck,
       JoinInFlight, JoinDraining, SessionOver, BackoffElapsed, ShutdownWhileAway,
       AwaySelecting, connVars
  <2> QED BY <1>1, <2>1, <2>3
<1>4. CASE ShutdownArm \/ AutoUpgradeTick \/ UpdateAvailable \/ StreamLost \/ InlineJoin
           \/ (\E why \in {"upgrade_required", "lost"} : SocketClosed(why))
           \/ Environment \/ Exited \/ UNCHANGED vars
  <2>1. /\ inFlight' = inFlight
        /\ pc' \in {"serving", "inline"} => pc \in {"serving", "inline"} /\ UNCHANGED task
    BY <1>4 DEF ShutdownArm, AutoUpgradeTick, UpdateAvailable, StreamLost, InlineJoin,
       SocketClosed, BeginDrain, Environment, SocketDies, RequestShutdown, Exited,
       StreamReady, Serving, ownVars, connVars, vars
  <2> QED BY <1>1, <1>2, <2>1
<1>5. CASE HeartbeatArm
  <2>1. /\ inFlight' = inFlight /\ pc = "serving"
        /\ pc' = "draining" \/ UNCHANGED task
    BY <1>5 DEF HeartbeatArm, BeginDrain, Serving, ownVars
  <2> QED BY <1>1, <1>2, <2>1
<1>6. CASE WorkerArm
  <2>1. /\ inFlight' = inFlight /\ pc = "serving"
        /\ pc' = "draining" \/ UNCHANGED task
    BY <1>6 DEF WorkerArm, SuppressFrame, ForwardFrame, BeginDrain, Serving
  <2> QED BY <1>1, <1>2, <2>1
<1>7. ASSUME NEW l \in Leases, JobAssign(l)
      PROVE  /\ task'[inFlight'] # "none"
             /\ pc' \in {"serving", "inline"} => task'[inFlight'] # "stopping"
  <2>1. CASE task' = [task EXCEPT ![l] = "running"] /\ inFlight' = l
    BY <2>1 DEF TypeOK
  <2>2. CASE inFlight' = inFlight /\ pc' = "draining"
    BY <1>1, <2>2
  <2>3. CASE inFlight' = inFlight /\ pc = "serving" /\ UNCHANGED task
    BY <1>2, <2>3
  <2> QED
    BY <1>7, <2>1, <2>2, <2>3 DEF JobAssign, RefuseAssign, AcceptAssign, BeginDrain,
       StreamReady, Serving
<1>8. ASSUME NEW j \in Jobs, Cancel(j) PROVE FALSE
  BY <1>8 DEF Cancel
<1>9. ASSUME NEW l \in Leases, NEW o \in {"complete", "failed", "panicked"}, TaskEnds(l, o)
      PROVE  /\ task'[inFlight'] # "none"
             /\ pc' \in {"serving", "inline"} => task'[inFlight'] # "stopping"
  BY <1>9 DEF TaskEnds, HeldRuns, TypeOK, connVars, ownVars
<1> QED
  BY <1>3, <1>4, <1>5, <1>6, <1>7, <1>8, <1>9 DEF Next, Arms, Tasks

LEMMA Views == Spec => []ViewInv
<1>1. Init => ViewInv
  <2> SUFFICES ASSUME Init PROVE ViewInv
    OBVIOUS
  <2>1. Len(chan) = 0
    BY EmptySeq DEF Init
  <2> QED BY <2>1 DEF Init, ViewInv, RefusalsTrue, HeldRuns
<1>2. TypeOK /\ OwnInv /\ ViewInv /\ [Next]_vars => ViewInv'
  BY RefusalsStep, HeldStep DEF ViewInv
<1> QED BY <1>1, <1>2, Ownership, PTL DEF Spec

-----------------------------------------------------------------------------
(* Each step is a step of the contract, or one it does not see.              *)

LEMMA WorkerReports ==
  ASSUME TypeOK, OwnInv, AckInv, ViewInv, WorkerArm
  PROVE  [Contract!ContractNext]_(Contract!contractVars)
<1> DEFINE f == Head(chan)
<1>1. /\ pc = "serving" /\ chan # <<>> /\ UNCHANGED <<cancelTime, offered>>
      /\ inFlight' = IF EndsInFlight(f) THEN NoLease ELSE inFlight
      /\ IF OfCanceled(f) THEN SuppressFrame(f) ELSE ForwardFrame(f)
  BY DEF WorkerArm, Serving
<1>2. f \in Frames /\ f = chan[1] /\ 1 \in 1..Len(chan)
  <2>1. Len(chan) \in Nat \ {0} /\ f = chan[1] /\ f \in Frames
    BY <1>1, HeadTailProperties, EmptySeq DEF TypeOK
  <2> QED BY <2>1
<1>3. /\ f.lease \in Leases /\ f = Frame(f.kind, f.lease)
      /\ f.kind \in {"complete", "failed", "rejected"}
      /\ f.kind \in Terminals => task[f.lease] = f.kind
      /\ f.kind = "rejected" => task[f.lease] = "none" /\ f.lease \in offered
  BY <1>2 DEF Frames, Frame, Terminals, OwnInv, TruthfulChan, ViewInv, RefusalsTrue
<1>4. LeaseState[f.lease] = IF f.kind = "rejected" THEN "refused" ELSE f.kind
  BY <1>3, ViewOfLeases DEF View, Terminals
<1>5. CASE UNCHANGED <<connVars, task>>
  <2>1. /\ NodeState = "present" /\ UNCHANGED <<NodeState, LeaseState, cancelTime>>
    BY <1>1, <1>5, ViewOfLoop, ViewOfLoopNext, ViewOfLeases DEF connVars
  <2>2. CASE UNCHANGED sent
    BY <2>1, <2>2 DEF Contract!contractVars
  <2>3. CASE ~OfCanceled(f) /\ sent' = sent \cup {f}
    <3>1. Contract!Report(f.kind, f.lease)
      BY <1>3, <1>4, <2>1, <2>3 DEF Contract!Report, Contract!Says, Frame
    <3> QED BY <1>3, <3>1 DEF Contract!ContractNext
  <2>4. CASE OfCanceled(f) /\ f.kind = "failed" /\ sent' = sent \cup {Frame("ack", f.lease)}
    <3>1. canceledJob = f.lease /\ canceledJob # NoLease
      BY <1>3, <2>4, SessionAssumption DEF OfCanceled, frame_is_for
    <3>2. f.lease \in cancelTime /\ Frame("ack", f.lease) \notin sent
      BY <1>1, <3>1 DEF OwnInv, Bookkeeping, AckInv, SlotUnspent
    <3>3. Contract!Ack(f.lease)
      BY <1>4, <2>1, <2>4, <3>2 DEF Contract!Ack, Contract!Says, Frame
    <3> QED BY <1>3, <3>3 DEF Contract!ContractNext
  <2> QED
    BY <1>1, <2>2, <2>3, <2>4 DEF SuppressFrame, ForwardFrame, cancel_ack_predicate
<1>6. CASE ~OfCanceled(f) /\ BeginDrain("lost", inFlight') /\ UNCHANGED sent
  <2>1. inFlight' \in Leases \cup {NoLease}
    BY <1>1 DEF TypeOK
  <2>2. \A l \in Leases : task[l] = "running" => l = inFlight'
    BY <1>1, <1>3 DEF OwnInv, RunningHeld, EndsInFlight, frame_is_for, Terminals
  <2>3. \A l \in Leases : task'[l] = IF task[l] = "running" THEN "stopping" ELSE task[l]
    BY <1>6, <2>1, <2>2, SignalEffect DEF BeginDrain
  <2>4. Contract!Leave
    BY <1>1, <1>6, <2>3, LeaveStep DEF BeginDrain
  <2> QED BY <2>4 DEF Contract!ContractNext
<1> QED BY <1>1, <1>5, <1>6 DEF SuppressFrame, ForwardFrame

LEMMA AssignAnswers ==
  ASSUME TypeOK, OwnInv, NEW l \in Leases, JobAssign(l)
  PROVE  Contract!ContractNext
<1>1. /\ pc = "serving" /\ l \notin offered /\ offered' = offered \cup {l}
      /\ UNCHANGED cancelTime /\ task[l] = "none"
  BY DEF JobAssign, MayAssign, StreamReady, Serving, OwnInv, Bookkeeping
<1>2. NodeState = "present" /\ LeaseState[l] = "fresh"
  BY <1>1, ViewOfLoop, ViewOfLeases DEF View
<1>3. CASE UNCHANGED <<task, sent>> /\ pc' \in {"serving", "draining"}
  <2>1. LeaseState' = [LeaseState EXCEPT ![l] = "refused"]
    BY <1>1, <1>3, ViewOfLeases DEF View
  <2>2. NodeState' \in {"present", "leaving"}
    BY <1>3, ViewOfLoopNext
  <2> QED
    BY <1>1, <1>2, <1>3, <2>1, <2>2 DEF Contract!TurnDown, Contract!ContractNext
<1>4. CASE /\ ~Refuses(TRUE) /\ task' = [task EXCEPT ![l] = "running"]
           /\ sent' = sent \cup {Frame("accepted", l)} /\ UNCHANGED connVars
  <2>1. \A m \in Leases : LeaseState[m] # "held"
    BY <1>4, SessionAssumption, ViewOfLeases
       DEF View, Refuses, OwnInv, RunningHeld, TypeOK, TaskStates
  <2>2. LeaseState' = [LeaseState EXCEPT ![l] = "held"]
    BY <1>1, <1>4, ViewOfLeases DEF View, TypeOK
  <2>3. NodeState' = "present"
    BY <1>1, <1>4, ViewOfLoopNext DEF connVars
  <2> QED
    BY <1>1, <1>2, <1>4, <2>1, <2>2, <2>3
       DEF Contract!Take, Contract!Says, Contract!ContractNext, Frame
<1>5. CASE RefuseAssign(l)
  BY <1>1, <1>3, <1>5 DEF RefuseAssign, connVars
<1>6. CASE AcceptAssign(l) /\ ~Refuses(TRUE)
  <2>1. CASE UNCHANGED sent /\ BeginDrain("lost", inFlight)
    BY <1>3, <1>6, <2>1 DEF BeginDrain, Signal, Refuses
  <2> QED BY <1>4, <1>6, <2>1 DEF AcceptAssign
<1> QED BY <1>5, <1>6 DEF JobAssign, Refuses

LEMMA CancelAsks ==
  ASSUME TypeOK, OwnInv, ViewInv, NEW j \in Jobs, Cancel(j)
  PROVE  Contract!ContractNext
<1>1. /\ pc = "serving" /\ pc' \in {"serving", "inline"} /\ inFlight \in Leases
      /\ cancelTime' = cancelTime \cup {inFlight} /\ task' = Signal(inFlight)
      /\ inFlight \notin cancelTime /\ UNCHANGED <<sent, offered>>
      /\ task[inFlight] \notin {"none", "stopping"}
  BY DEF Cancel, StreamReady, Serving, TypeOK, OwnInv, Bookkeeping, ViewInv, HeldRuns
<1>2. NodeState = "present" /\ NodeState' = "present"
  BY <1>1, ViewOfLoop, ViewOfLoopNext
<1>3. LeaseState[inFlight] \notin {"fresh", "refused", "stopping"}
  BY <1>1, ViewOfLeases DEF View, TypeOK, TaskStates
<1>4. LeaseState' = IF LeaseState[inFlight] = "held"
                      THEN [LeaseState EXCEPT ![inFlight] = "stopping"] ELSE LeaseState
  BY <1>1, SignalEffect, ViewOfLeases DEF View, TypeOK, TaskStates
<1>5. Contract!AskToStop(inFlight)
  BY <1>1, <1>2, <1>3, <1>4 DEF Contract!AskToStop
<1> QED BY <1>1, <1>5 DEF Contract!ContractNext

LEMMA ContractStep ==
  ASSUME TypeOK, OwnInv, AckInv, ViewInv, [Next]_vars
  PROVE  [Contract!ContractNext]_(Contract!contractVars)
<1> DEFINE Goal == [Contract!ContractNext]_(Contract!contractVars)
<1>1. CASE Connect
  <2>1. Contract!Arrive
    BY <1>1, ViewOfLoop, ViewOfLoopNext, ViewOfLeases DEF Connect, ownVars, Contract!Arrive
  <2> QED BY <2>1 DEF Contract!ContractNext
<1>2. CASE ConnectFails \/ ShutdownWhileAway \/ SessionOver
  <2>1. /\ (pc = "draining" /\ AllJoined) \/ pc \in {"connecting", "backoff"}
        /\ pc' \in {"backoff", "exited"} /\ UNCHANGED <<task, offered, cancelTime, sent>>
    BY <1>2 DEF ConnectFails, ShutdownWhileAway, AwaySelecting, SessionOver, ownVars
  <2> QED BY <2>1, DepartStep DEF Contract!ContractNext
<1>3. CASE Register
  <2>1. CASE pc' = "flushing" /\ UNCHANGED task
    BY <1>3, <2>1, Unseen, ViewOfLoop, ViewOfLoopNext DEF Register, ownVars
  <2>2. CASE BeginDrain("lost", NoLease)
    <3>1. pc = "registering" /\ \A l \in Leases : task[l] # "running"
      BY <1>3, SessionAssumption DEF Register, OwnInv, Placement, RunningHeld
    <3> QED
      BY <1>3, <2>2, <3>1, DrainLeaves DEF Register, ownVars, Contract!ContractNext
  <2> QED BY <1>3, <2>1, <2>2 DEF Register
<1>4. ASSUME NEW l \in Leases, FlushAck(l) PROVE Goal
  <2>1. /\ l \in pendingAcks /\ pc = "flushing" /\ UNCHANGED <<task, offered, cancelTime>>
        /\ \/ sent' = sent \cup {Frame("ack", l)} /\ pc' = pc
           \/ UNCHANGED sent /\ pc' = "serving"
    BY <1>4 DEF FlushAck, ownVars
  <2>2. CASE UNCHANGED sent /\ pc' = "serving"
    BY <2>1, <2>2, Unseen, ViewOfLoop, ViewOfLoopNext
  <2>3. CASE sent' = sent \cup {Frame("ack", l)} /\ pc' = pc
    <3>1. task[l] = "failed" /\ l \in cancelTime /\ Frame("ack", l) \notin sent
      BY <2>1 DEF AckInv, WitnessedAck, AckOwedOnce
    <3>2. LeaseState[l] = "failed" /\ LeaseState' = LeaseState
      BY <2>1, <3>1, ViewOfLeases DEF View
    <3>3. NodeState = "present" /\ NodeState' = "present"
      BY <2>1, <2>3, ViewOfLoop, ViewOfLoopNext
    <3>4. Contract!Ack(l)
      BY <2>1, <2>3, <3>1, <3>2, <3>3 DEF Contract!Ack, Contract!Says, Frame
    <3> QED BY <3>4 DEF Contract!ContractNext
  <2> QED BY <2>1, <2>2, <2>3
<1>5. CASE ShutdownArm \/ StreamLost
           \/ (\E why \in {"upgrade_required", "lost"} : SocketClosed(why))
  <2>1. /\ pc = "serving" /\ UNCHANGED <<cancelTime, sent, offered>>
        /\ \E why \in Endings : BeginDrain(why, inFlight)
    BY <1>5 DEF ShutdownArm, StreamLost, SocketClosed, StreamReady, Serving, ownVars, Endings
  <2> QED BY <2>1, DrainLeaves DEF Contract!ContractNext, TypeOK
<1>6. CASE AutoUpgradeTick
  <2>1. /\ pc = "serving" /\ UNCHANGED <<cancelTime, sent, offered>>
        /\ BeginDrain("auto_upgrade", inFlight) \/ UNCHANGED <<connVars, task>>
    BY <1>6 DEF AutoUpgradeTick, Serving, ownVars
  <2>2. CASE UNCHANGED <<connVars, task>>
    BY <2>1, <2>2, Unseen, ViewOfLoop, ViewOfLoopNext DEF connVars
  <2> QED BY <2>1, <2>2, DrainLeaves DEF Contract!ContractNext, TypeOK
<1>7. CASE HeartbeatArm
  <2>1. /\ pc = "serving" /\ UNCHANGED <<cancelTime, sent, offered>>
        /\ BeginDrain("lost", inFlight) \/ BeginDrain("heartbeat_limit", inFlight)
             \/ UNCHANGED <<connVars, task>>
    BY <1>7 DEF HeartbeatArm, Serving, ownVars
  <2>2. CASE UNCHANGED <<connVars, task>>
    BY <2>1, <2>2, Unseen, ViewOfLoop, ViewOfLoopNext DEF connVars
  <2> QED BY <2>1, <2>2, DrainLeaves DEF Contract!ContractNext, TypeOK
<1>8. CASE WorkerArm
  BY <1>8, WorkerReports
<1>9. ASSUME NEW l \in Leases, JobAssign(l) PROVE Goal
  BY <1>9, AssignAnswers
<1>10. ASSUME NEW j \in Jobs, Cancel(j) PROVE Goal
  BY <1>10, CancelAsks
<1>11. CASE FlushDone \/ InlineJoin \/ BackoffElapsed \/ UpdateAvailable
            \/ JoinInFlight \/ (\E l \in Leases : JoinDraining(l))
            \/ Environment \/ Exited \/ UNCHANGED vars
  <2>1. UNCHANGED <<task, offered, cancelTime, sent>>
    BY <1>11 DEF FlushDone, InlineJoin, BackoffElapsed, UpdateAvailable, JoinInFlight,
       JoinDraining, Environment, SocketDies, RequestShutdown, Exited, vars, ownVars
  <2>2. \/ pc' = pc
        \/ pc \in {"flushing", "inline"} /\ pc' = "serving"
        \/ pc = "backoff" /\ pc' = "connecting"
    BY <1>11 DEF FlushDone, InlineJoin, BackoffElapsed, UpdateAvailable, JoinInFlight,
       JoinDraining, Environment, SocketDies, RequestShutdown, Exited, vars, connVars
  <2>3. NodeState' = NodeState
    BY <2>2, ViewOfLoop, ViewOfLoopNext DEF NodeState
  <2> QED BY <2>1, <2>3, Unseen
<1>12. ASSUME NEW l \in Leases, NEW o \in {"complete", "failed", "panicked"}, TaskEnds(l, o)
       PROVE  Goal
  <2>1. /\ Live(l) /\ task' = [task EXCEPT ![l] = o]
        /\ UNCHANGED <<pc, offered, cancelTime, sent>>
    BY <1>12 DEF TaskEnds, connVars, ownVars
  <2>2. Contract!Runs(l) /\ LeaseState' = [LeaseState EXCEPT ![l] = o]
    BY <2>1, ViewOfLeases DEF View, Live, Contract!Runs, TypeOK
  <2>3. NodeState' = NodeState
    BY <2>1 DEF NodeState
  <2> QED
    BY <2>1, <2>2, <2>3 DEF Contract!End, Contract!Outcomes, Contract!ContractNext
<1> QED
  BY <1>1, <1>2, <1>3, <1>4, <1>5, <1>6, <1>7, <1>8, <1>9, <1>10, <1>11, <1>12
     DEF Next, StartUp, Arms, WindDown, Tasks

(* The loop implements LeaseContract: one lease at a time, reports that are  *)
(* true, acks with a witness, and no departure while anything runs.          *)
THEOREM SessionKeepsContract == Spec => KeepsContract
<1>1. Init => Contract!ContractInit
  <2> SUFFICES ASSUME Init PROVE Contract!ContractInit
    OBVIOUS
  <2>1. LeaseState = [l \in Leases |-> "fresh"]
    BY ViewOfLeases DEF Init, View
  <2>2. NodeState = "away"
    BY ViewOfLoop DEF Init
  <2> QED BY <2>1, <2>2 DEF Init, Contract!ContractInit
<1>2. TypeOK /\ OwnInv /\ AckInv /\ ViewInv /\ [Next]_vars
        => [Contract!ContractNext]_(Contract!contractVars)
  BY ContractStep
<1> QED
  BY <1>1, <1>2, Ownership, Acks, Views, PTL DEF Spec, KeepsContract, Contract!ContractSpec
=============================================================================
