---------------------------- MODULE SessionProofs ----------------------------
(* Theorems about SupervisorSession, for every set of jobs and leases and    *)
(* every value of the caps and switches.                                     *)
EXTENDS SupervisorSession, FiniteSetTheorems, SequenceTheorems, TLAPS

(* The loop and the tasks keep the type invariant, whatever dispatch sends.  *)
THEOREM TypeCorrect == Spec => []TypeOK
<1>1. Init => TypeOK
  <2>1. <<>> \in Seq(Frames)
    BY EmptySeq
  <2>2. [completed |-> 0, failed |-> 0, canceled |-> 0]
          \in [completed : Nat, failed : Nat, canceled : Nat]
    OBVIOUS
  <2>3. NewGate \in [target : BOOLEAN, quiet : BOOLEAN]
    BY DEF NewGate
  <2>4. [l \in Leases |-> "none"] \in [Leases -> TaskStates]
    BY DEF TaskStates
  <2> QED
    BY <2>1, <2>2, <2>3, <2>4 DEF Init, TypeOK, Endings
<1>2. TypeOK /\ [Next]_vars => TypeOK'
  <2> SUFFICES ASSUME TypeOK, [Next]_vars
               PROVE  TypeOK'
    OBVIOUS
  <2> USE SessionAssumption DEF TypeOK, connVars, ownVars, viewVars, Endings,
        TaskStates, Phases, Terminals, Serving, StreamReady
  <2>1. CASE Connect BY <2>1 DEF Connect
  <2>2. CASE ConnectFails BY <2>2 DEF ConnectFails
  <2>3. CASE Register
    BY <2>3 DEF Register, SendResults, BeginDrain, Signal
  <2>4. ASSUME NEW l \in Leases, FlushAck(l) PROVE TypeOK'
    BY <2>4 DEF FlushAck, SendResults, Wire, Frame
  <2>5. CASE FlushDone BY <2>5 DEF FlushDone
  <2>6. CASE ShutdownArm
    BY <2>6 DEF ShutdownArm, BeginDrain, Signal, PhaseCanceled, NoPane
  <2>7. CASE AutoUpgradeTick
    BY <2>7 DEF AutoUpgradeTick, BeginDrain, Signal, UpgradeIdle
  <2>8. CASE HeartbeatArm
    <3>1. BeginDrain("lost", inFlight) \/ BeginDrain("heartbeat_limit", inFlight)
            \/ UNCHANGED <<connVars, task>>
      BY <2>8 DEF HeartbeatArm
    <3>2. UNCHANGED <<ownVars, pendingAcks, chan, viewVars, gate, offered, sent>>
      BY <2>8 DEF HeartbeatArm
    <3>3. pc' \in {pc, "draining"} /\ ending' \in Endings /\ UNCHANGED <<sock, shutdown>>
      BY <3>1 DEF BeginDrain
    <3>4. task' \in [Leases -> TaskStates]
      BY <3>1 DEF BeginDrain, Signal
    <3> QED BY <3>2, <3>3, <3>4
  <2>9. CASE WorkerArm
    <3> DEFINE f == Head(chan)
    <3>1. f \in Frames /\ chan' \in Seq(Frames)
      BY <2>9, HeadTailProperties DEF WorkerArm
    <3>2. /\ inFlight' \in Leases \cup {NoLease}
          /\ canceledJob' \in Leases \cup {NoLease}
      BY <2>9, <3>1 DEF WorkerArm, EndsInFlight, OfCanceled, Frames
    <3>3. CASE OfCanceled(f) /\ SuppressFrame(f)
      <4>1. pane' \in [job : Jobs, phase : Phases] \cup {NoPane}
        BY <3>3 DEF SuppressFrame
      <4>2. tally' \in [completed : Nat, failed : Nat, canceled : Nat]
        BY <3>3 DEF SuppressFrame
      <4>3. Frame("ack", f.lease) \in Wire /\ f.lease \in Leases
        BY <3>1 DEF Frames, Wire, Frame
      <4>4. /\ draining' \subseteq Leases
            /\ sent' \subseteq Wire
            /\ pendingAcks' \subseteq Leases
            /\ UNCHANGED <<connVars, task>>
        BY <3>3, <4>3 DEF SuppressFrame, remove_entry, queue_pending_cancel_ack
      <4>5. UNCHANGED <<inline, cancelTime, gate, offered>>
        BY <2>9 DEF WorkerArm
      <4> QED BY <3>1, <3>2, <4>1, <4>2, <4>4, <4>5
    <3>4. CASE ~OfCanceled(f) /\ ForwardFrame(f)
      <4>1. pane' \in [job : Jobs, phase : Phases] \cup {NoPane}
        BY <3>4 DEF ForwardFrame, Emit
      <4>2. tally' \in [completed : Nat, failed : Nat, canceled : Nat]
        BY <3>4 DEF ForwardFrame, Emit
      <4>3. /\ sent' \subseteq Wire
            /\ task' \in [Leases -> TaskStates]
            /\ pc' \in {"serving", "draining"}
            /\ ending' \in Endings
            /\ UNCHANGED <<draining, pendingAcks, sock, shutdown>>
        BY <2>9, <3>1, <3>2, <3>4 DEF WorkerArm, ForwardFrame, BeginDrain, Signal,
             Frames, Wire
      <4>4. UNCHANGED <<inline, cancelTime, gate, offered>>
        BY <2>9 DEF WorkerArm
      <4> QED BY <3>1, <3>2, <4>1, <4>2, <4>3, <4>4
    <3> QED BY <2>9, <3>3, <3>4 DEF WorkerArm
  <2>10. CASE UpdateAvailable BY <2>10 DEF UpdateAvailable
  <2>11. CASE StreamLost BY <2>11 DEF StreamLost, BeginDrain, Signal
  <2>12. CASE InlineJoin BY <2>12 DEF InlineJoin
  <2>13. ASSUME NEW l \in Leases, JobAssign(l) PROVE TypeOK'
    <3>1. CASE RefuseAssign(l)
      <4>1. Frame("rejected", l) \in Frames
        BY DEF Frames, Frame
      <4>2. chan' \in Seq(Frames)
        BY <3>1, <4>1, AppendProperties DEF RefuseAssign
      <4> QED BY <2>13, <3>1, <4>2 DEF JobAssign, RefuseAssign
    <3>2. CASE AcceptAssign(l)
      <4>1. l.job \in Jobs /\ Frame("accepted", l) \in Wire
        BY DEF Wire, Frame
      <4>2. /\ pane' \in [job : Jobs, phase : Phases]
            /\ sent' \subseteq Wire
            /\ inFlight' \in Leases \cup {NoLease}
            /\ UNCHANGED chan
        BY <3>2, <4>1 DEF AcceptAssign
      <4>3. gate' \in [target : BOOLEAN, quiet : BOOLEAN]
        BY <3>2 DEF AcceptAssign
      <4>4. /\ task' \in [Leases -> TaskStates]
            /\ pc' \in {"serving", "draining"}
            /\ ending' \in Endings
            /\ UNCHANGED <<sock, shutdown>>
        BY <2>13, <3>2 DEF JobAssign, AcceptAssign, BeginDrain, Signal
      <4> QED BY <2>13, <4>2, <4>3, <4>4 DEF JobAssign
    <3> QED BY <2>13, <3>1, <3>2 DEF JobAssign
  <2>14. ASSUME NEW j \in Jobs, Cancel(j) PROVE TypeOK'
    BY <2>14 DEF Cancel, PhaseCanceled, Signal, NoPane
  <2>15. ASSUME NEW why \in {"upgrade_required", "lost"}, SocketClosed(why)
         PROVE TypeOK'
    BY <2>15 DEF SocketClosed, BeginDrain, Signal
  <2>16. CASE JoinInFlight
    BY <2>16 DEF JoinInFlight, queue_drained_cancel_ack, queue_pending_cancel_ack
  <2>17. CASE SessionOver BY <2>17 DEF SessionOver, NewGate
  <2>18. CASE BackoffElapsed BY <2>18 DEF BackoffElapsed
  <2>19. CASE ShutdownWhileAway BY <2>19 DEF ShutdownWhileAway
  <2>20. ASSUME NEW l \in Leases, JoinDraining(l) PROVE TypeOK'
    BY <2>20 DEF JoinDraining, queue_drained_cancel_ack, queue_pending_cancel_ack
  <2>21. ASSUME NEW l \in Leases, NEW outcome \in {"complete", "failed", "panicked"},
                TaskEnds(l, outcome)
         PROVE TypeOK'
    <3>1. outcome # "panicked" => Frame(outcome, l) \in Frames
      BY DEF Frames, Frame
    <3>2. chan' \in Seq(Frames)
      BY <2>21, <3>1, AppendProperties DEF TaskEnds
    <3> QED BY <2>21, <3>2 DEF TaskEnds
  <2>22. CASE SocketDies BY <2>22 DEF SocketDies
  <2>23. CASE RequestShutdown BY <2>23 DEF RequestShutdown
  <2>24. CASE UNCHANGED vars BY <2>24 DEF vars
  <2> QED
    BY <2>1, <2>2, <2>3, <2>4, <2>5, <2>6, <2>7, <2>8, <2>9, <2>10, <2>11, <2>12,
       <2>13, <2>14, <2>15, <2>16, <2>17, <2>18, <2>19, <2>20, <2>21, <2>22, <2>23,
       <2>24 DEF Next, StartUp, Arms, WindDown, Tasks, Environment, Exited
<1> QED BY <1>1, <1>2, PTL DEF Spec
-----------------------------------------------------------------------------
(* The inductive invariant behind the safety theorems.  A task is owned in   *)
(* exactly the phases of the loop that can await it; the frames on the       *)
(* channel tell the truth, which is what lets an arm clear in_flight or an   *)
(* entry of draining on a frame; and a lease nobody was offered is blank,    *)
(* which is what lets an assignment start a task under its name.             *)

Placement ==
  /\ pc \notin {"serving", "inline", "draining"} =>
       inFlight = NoLease /\ draining = {} /\ canceledJob = NoLease
  /\ pc = "inline" <=> inline # NoLease
  /\ IsFiniteSet(draining)

TruthfulChan ==
  \A i \in 1..Len(chan) :
    chan[i].kind \in Terminals => task[chan[i].lease] = chan[i].kind

RunningHeld == \A l \in Leases : task[l] = "running" => inFlight = l

Bookkeeping ==
  /\ \A l \in Leases : l \notin offered => task[l] = "none"
  /\ cancelTime \subseteq offered
  /\ inFlight # NoLease => inFlight \in offered /\ inFlight \notin cancelTime
  /\ draining \subseteq cancelTime
  /\ inline # NoLease => inline \in cancelTime
  /\ canceledJob # NoLease => canceledJob \in cancelTime

OwnInv == Placement /\ TruthfulChan /\ RunningHeld /\ Bookkeeping /\ NoStrandedTask

\* The record in the slot has not been acked: the slot is what an ack spends.
SlotUnspent ==
  pc \in {"serving", "inline"} /\ canceledJob # NoLease =>
    Frame("ack", canceledJob) \notin sent /\ canceledJob \notin pendingAcks

AckInv == WitnessedAck /\ AckOwedOnce /\ SlotUnspent

-----------------------------------------------------------------------------
(* Steps shared by several actions.                                          *)

(* Signalling touches only the named task, and only if it runs.              *)
LEMMA SignalEffect ==
  ASSUME TypeOK, NEW l \in Leases \cup {NoLease}, task' = Signal(l)
  PROVE  \A m \in Leases :
           task'[m] = IF m = l /\ task[m] = "running" THEN "stopping" ELSE task[m]
BY SessionAssumption DEF TypeOK, Signal

(* A frame on the channel is a frame of a lease.                             *)
LEMMA ChanFrame ==
  ASSUME TypeOK, NEW i \in 1..Len(chan)
  PROVE  chan[i] \in Frames /\ chan[i].lease \in Leases
<1>1. chan[i] \in Frames
  BY ElementOfSeq DEF TypeOK
<1> QED BY <1>1 DEF Frames

(* A step that moves only the loop itself keeps the ownership invariant.     *)
LEMMA QuietStep ==
  ASSUME OwnInv, Placement', UNCHANGED <<ownVars, chan, task, offered>>
  PROVE  OwnInv'
BY DEF OwnInv, ownVars, TruthfulChan, RunningHeld, Bookkeeping, NoStrandedTask,
       Live, Owned

(* Leaving the loop for drain_in_flight_jobs keeps it: the task in flight is *)
(* told to stop, and its handle is still in in_flight.                       *)
LEMMA DrainStep ==
  ASSUME TypeOK, OwnInv, pc = "serving", NEW why, BeginDrain(why, inFlight),
         UNCHANGED <<ownVars, chan, offered>>
  PROVE  OwnInv'
<1>1. \A m \in Leases :
        task'[m] = IF m = inFlight /\ task[m] = "running" THEN "stopping" ELSE task[m]
  BY SignalEffect DEF BeginDrain, TypeOK
<1>2. Placement'
  BY DEF OwnInv, Placement, BeginDrain, ownVars
<1>3. TruthfulChan'
  BY <1>1, ChanFrame DEF OwnInv, TruthfulChan, Terminals
<1>4. RunningHeld' /\ Bookkeeping' /\ NoStrandedTask'
  BY <1>1 DEF OwnInv, RunningHeld, Bookkeeping, NoStrandedTask, Live, Owned, ownVars
<1> QED BY <1>2, <1>3, <1>4 DEF OwnInv

(* Taking a finished task's handle out of in_flight, draining or the inline  *)
(* await keeps it: nothing live was held there.                              *)
LEMMA ReleaseStep ==
  ASSUME TypeOK, OwnInv, NEW l \in Leases, ~Live(l),
         inFlight' \in {inFlight, NoLease}, inFlight' # inFlight => inFlight = l,
         draining' \in {draining, draining \ {l}},
         inline' \in {inline, NoLease}, inline' # inline => inline = l,
         canceledJob' \in {canceledJob, NoLease},
         Placement', TruthfulChan', UNCHANGED <<cancelTime, task, offered>>
  PROVE  OwnInv'
<1>1. RunningHeld' /\ NoStrandedTask'
  BY SessionAssumption DEF OwnInv, RunningHeld, NoStrandedTask, Live, Owned
<1>2. Bookkeeping'
  BY DEF OwnInv, Bookkeeping
<1> QED BY <1>1, <1>2 DEF OwnInv

(* A step of the loop on the frame at the head of the channel.               *)
LEMMA WorkerKeepsOwnership ==
  ASSUME TypeOK, OwnInv, WorkerArm
  PROVE  OwnInv'
<1> DEFINE f == Head(chan)
<1>1. /\ pc = "serving" /\ chan # <<>> /\ chan' = Tail(chan)
      /\ UNCHANGED <<inline, cancelTime, offered>>
      /\ inFlight' = IF EndsInFlight(f) THEN NoLease ELSE inFlight
      /\ canceledJob' = IF OfCanceled(f) THEN NoLease ELSE canceledJob
      /\ IF OfCanceled(f) THEN SuppressFrame(f) ELSE ForwardFrame(f)
  BY DEF WorkerArm, Serving
<1>2. /\ f \in Frames /\ f.lease \in Leases /\ f = chan[1]
      /\ chan' \in Seq(Frames) /\ Len(chan') = Len(chan) - 1
      /\ \A i \in 1..Len(chan') : chan'[i] = chan[i + 1] /\ i + 1 \in 1..Len(chan)
      /\ 1 \in 1..Len(chan)
  <2>1. chan \in Seq(Frames) /\ chan # <<>>
    BY <1>1 DEF TypeOK
  <2>2. /\ f \in Frames /\ Tail(chan) \in Seq(Frames)
        /\ Len(Tail(chan)) = Len(chan) - 1
        /\ \A i \in 1..Len(Tail(chan)) : Tail(chan)[i] = chan[i + 1]
    BY <2>1, HeadTailProperties
  <2>3. Len(chan) \in Nat \ {0}
    BY <2>1, EmptySeq
  <2>4. f.lease \in Leases
    BY <2>2 DEF Frames
  <2>5. f = chan[1]
    BY <2>1
  <2>6. \A i \in 1..Len(Tail(chan)) : i + 1 \in 1..Len(chan)
    BY <2>2, <2>3
  <2> QED BY <1>1, <2>2, <2>3, <2>4, <2>5, <2>6
<1>3. f.kind \in Terminals => task[f.lease] = f.kind
  BY <1>2 DEF OwnInv, TruthfulChan
<1>4. f.kind \in Terminals => ~Live(f.lease)
  BY <1>3 DEF Live, Terminals
<1>5. CASE OfCanceled(f)
  <2>1. /\ draining' \in {draining, draining \ {f.lease}}
        /\ UNCHANGED <<connVars, task>>
    BY <1>1, <1>5 DEF SuppressFrame, remove_entry
  <2>2. TruthfulChan'
    BY <1>2, <2>1 DEF OwnInv, TruthfulChan
  <2>3. Placement'
    BY <1>1, <2>1, FS_RemoveElement DEF OwnInv, Placement, connVars
  <2>4. inFlight' # inFlight => inFlight = f.lease
    BY <1>1 DEF EndsInFlight, frame_is_for
  <2> QED
    BY <1>1, <1>2, <1>4, <1>5, <2>1, <2>2, <2>3, <2>4, ReleaseStep DEF OfCanceled
<1>6. CASE ~OfCanceled(f)
  <2>1. UNCHANGED draining
    BY <1>1, <1>6 DEF ForwardFrame
  <2>2. CASE UNCHANGED <<connVars, task>>
    <3>1. TruthfulChan'
      BY <1>2, <2>2 DEF OwnInv, TruthfulChan
    <3>2. Placement'
      BY <1>1, <2>1, <2>2 DEF OwnInv, Placement, connVars
    <3>3. CASE EndsInFlight(f)
      BY <1>1, <1>2, <1>4, <1>6, <2>1, <2>2, <3>1, <3>2, <3>3, ReleaseStep
         DEF EndsInFlight, frame_is_for
    <3>4. CASE ~EndsInFlight(f)
      BY <1>1, <1>6, <2>1, <2>2, <3>1, <3>2, <3>4
         DEF OwnInv, RunningHeld, Bookkeeping, NoStrandedTask, Live, Owned
    <3> QED BY <3>3, <3>4
  <2>3. CASE BeginDrain("lost", inFlight')
    <3>1. inFlight' \in Leases \cup {NoLease}
      BY <1>1 DEF TypeOK
    <3>2. \A m \in Leases :
            task'[m] = IF m = inFlight' /\ task[m] = "running" THEN "stopping" ELSE task[m]
      BY <2>3, <3>1, SignalEffect DEF BeginDrain
    <3>3. TruthfulChan'
      BY <1>2, <3>2, ChanFrame DEF OwnInv, TruthfulChan, Terminals
    <3>4. Placement'
      BY <1>1, <2>1, <2>3 DEF OwnInv, Placement, BeginDrain
    <3>5. EndsInFlight(f) => ~Live(inFlight)
      BY <1>4 DEF EndsInFlight, frame_is_for
    <3>6. RunningHeld' /\ NoStrandedTask'
      BY <1>1, <2>1, <3>2, <3>5 DEF OwnInv, RunningHeld, NoStrandedTask, Live, Owned
    <3>7. Bookkeeping'
      BY <1>1, <1>6, <2>1, <3>2 DEF OwnInv, Bookkeeping
    <3> QED BY <3>3, <3>4, <3>6, <3>7 DEF OwnInv
  <2> QED BY <1>1, <1>6, <2>2, <2>3 DEF ForwardFrame
<1> QED BY <1>5, <1>6

(* An assignment starts a task only under a blank lease, and only when       *)
(* nothing else is in flight.                                                *)
LEMMA AssignKeepsOwnership ==
  ASSUME TypeOK, OwnInv, NEW l \in Leases, JobAssign(l)
  PROVE  OwnInv'
<1>1. /\ pc = "serving" /\ l \notin offered /\ offered' = offered \cup {l}
      /\ UNCHANGED <<draining, inline, canceledJob, cancelTime>>
      /\ task[l] = "none"
  BY DEF JobAssign, StreamReady, Serving, MayAssign, OwnInv, Bookkeeping
<1>2. CASE RefuseAssign(l)
  <2>1. Frame("rejected", l) \in Frames /\ Frame("rejected", l).kind \notin Terminals
    BY DEF Frames, Frame, Terminals
  <2>2. /\ chan \in Seq(Frames) /\ chan' = Append(chan, Frame("rejected", l))
        /\ UNCHANGED <<connVars, inFlight, task>>
    BY <1>2 DEF RefuseAssign, TypeOK
  <2>3. /\ Len(chan') = Len(chan) + 1 /\ chan'[Len(chan) + 1] = Frame("rejected", l)
        /\ \A i \in 1..Len(chan) : chan'[i] = chan[i]
        /\ Len(chan) \in Nat
    BY <2>1, <2>2, AppendProperties, LenProperties
  <2>4. TruthfulChan'
    BY <2>1, <2>2, <2>3 DEF OwnInv, TruthfulChan
  <2> QED
    BY <1>1, <2>2, <2>4 DEF OwnInv, Placement, RunningHeld, Bookkeeping,
       NoStrandedTask, Live, Owned, connVars
<1>3. CASE AcceptAssign(l) /\ ~Refuses(TRUE)
  <2>1. inFlight = NoLease /\ UNCHANGED chan
    BY <1>3 DEF AcceptAssign, Refuses
  <2>2. CASE task' = [task EXCEPT ![l] = "running"] /\ inFlight' = l /\ UNCHANGED connVars
    <3>1. \A m \in Leases : task'[m] = IF m = l THEN "running" ELSE task[m]
      BY <2>2 DEF TypeOK
    <3>2. TruthfulChan'
      BY <1>1, <2>1, <3>1, ChanFrame DEF OwnInv, TruthfulChan, Terminals
    <3>3. Placement'
      BY <1>1, <2>2 DEF OwnInv, Placement, connVars
    <3>4. RunningHeld' /\ NoStrandedTask'
      BY <1>1, <2>1, <2>2, <3>1, SessionAssumption
         DEF OwnInv, RunningHeld, NoStrandedTask, Live, Owned
    <3>5. Bookkeeping'
      BY <1>1, <2>2, <3>1 DEF OwnInv, Bookkeeping
    <3> QED BY <3>2, <3>3, <3>4, <3>5 DEF OwnInv
  <2>3. CASE BeginDrain("lost", inFlight) /\ UNCHANGED inFlight
    <3>1. UNCHANGED task
      BY <2>1, <2>3 DEF BeginDrain, Signal
    <3>2. Placement'
      BY <1>1, <2>3 DEF OwnInv, Placement, BeginDrain
    <3> QED
      BY <1>1, <2>1, <2>3, <3>1, <3>2 DEF OwnInv, TruthfulChan, RunningHeld, Bookkeeping,
         NoStrandedTask, Live, Owned
  <2> QED BY <1>3, <2>2, <2>3 DEF AcceptAssign
<1> QED BY <1>2, <1>3 DEF JobAssign, Refuses

(* A cancel moves the handle from in_flight into draining or, over the cap,  *)
(* into the await of its own arm: at no point is it dropped.                 *)
LEMMA CancelKeepsOwnership ==
  ASSUME TypeOK, OwnInv, NEW j \in Jobs, Cancel(j)
  PROVE  OwnInv'
<1>1. /\ pc = "serving" /\ inFlight \in Leases /\ inFlight' = NoLease
      /\ canceledJob' = inFlight /\ cancelTime' = cancelTime \cup {inFlight}
      /\ task' = Signal(inFlight) /\ UNCHANGED <<chan, offered>>
      /\ inline = NoLease
  BY DEF Cancel, StreamReady, Serving, TypeOK, OwnInv, Placement
<1>2. \/ pc' = "inline" /\ inline' = inFlight /\ UNCHANGED draining
      \/ draining' = draining \cup {inFlight} /\ UNCHANGED <<pc, inline>>
  BY DEF Cancel
<1>3. \A m \in Leases :
        task'[m] = IF m = inFlight /\ task[m] = "running" THEN "stopping" ELSE task[m]
  BY <1>1, SignalEffect
<1>4. Placement'
  BY <1>1, <1>2, FS_AddElement, SessionAssumption DEF OwnInv, Placement
<1>5. TruthfulChan'
  BY <1>1, <1>3, ChanFrame DEF OwnInv, TruthfulChan, Terminals
<1>6. RunningHeld' /\ NoStrandedTask'
  BY <1>1, <1>2, <1>3 DEF OwnInv, RunningHeld, NoStrandedTask, Live, Owned
<1>7. Bookkeeping'
  BY <1>1, <1>2, <1>3, SessionAssumption DEF OwnInv, Bookkeeping
<1> QED BY <1>4, <1>5, <1>6, <1>7 DEF OwnInv

(* A task ends, and unless the session drains its frame joins the channel.   *)
LEMMA EndKeepsOwnership ==
  ASSUME TypeOK, OwnInv, NEW l \in Leases,
         NEW outcome \in {"complete", "failed", "panicked"}, TaskEnds(l, outcome)
  PROVE  OwnInv'
<1>1. /\ Live(l) /\ UNCHANGED <<connVars, ownVars, offered>>
      /\ \A m \in Leases : task'[m] = IF m = l THEN outcome ELSE task[m]
  BY DEF TaskEnds, TypeOK
<1>2. TruthfulChan'
  <2>1. \A i \in 1..Len(chan) :
          chan[i].kind \in Terminals => task'[chan[i].lease] = chan[i].kind
    BY <1>1, ChanFrame DEF OwnInv, TruthfulChan, Terminals, Live
  <2>2. CASE UNCHANGED chan
    BY <2>1, <2>2 DEF TruthfulChan
  <2>3. CASE outcome # "panicked" /\ chan' = Append(chan, Frame(outcome, l))
    <3>1. Frame(outcome, l) \in Frames /\ chan \in Seq(Frames)
      BY <2>3 DEF TypeOK, Frames, Frame, Terminals
    <3>2. /\ Len(chan') = Len(chan) + 1 /\ chan'[Len(chan) + 1] = Frame(outcome, l)
          /\ \A i \in 1..Len(chan) : chan'[i] = chan[i]
          /\ Len(chan) \in Nat
      BY <2>3, <3>1, AppendProperties, LenProperties
    <3>3. \A i \in 1..Len(chan') : i \in 1..Len(chan) \/ i = Len(chan) + 1
      BY <3>2
    <3>4. Frame(outcome, l).lease = l /\ Frame(outcome, l).kind = outcome
      BY DEF Frame
    <3> QED BY <1>1, <2>1, <3>2, <3>3, <3>4 DEF TruthfulChan
  <2> QED BY <2>2, <2>3 DEF TaskEnds
<1>3. Placement'
  BY <1>1 DEF OwnInv, Placement, connVars, ownVars
<1>4. RunningHeld' /\ Bookkeeping' /\ NoStrandedTask'
  BY <1>1 DEF OwnInv, RunningHeld, Bookkeeping, NoStrandedTask, Live, Owned, ownVars
<1> QED BY <1>2, <1>3, <1>4 DEF OwnInv

(* Every step of the loop, the tasks, the socket and the operator keeps the  *)
(* ownership invariant.                                                      *)
LEMMA OwnershipStep ==
  ASSUME TypeOK, OwnInv, [Next]_vars
  PROVE  OwnInv'
<1>1. CASE Connect \/ ConnectFails \/ FlushDone \/ BackoffElapsed \/ ShutdownWhileAway
           \/ (\E l \in Leases : FlushAck(l))
  <2>1. UNCHANGED <<ownVars, chan, task, offered>>
    BY <1>1 DEF Connect, ConnectFails, FlushDone, BackoffElapsed, ShutdownWhileAway, FlushAck
  <2>2. Placement'
    BY <1>1, <2>1 DEF Connect, ConnectFails, FlushDone, BackoffElapsed,
       ShutdownWhileAway, AwaySelecting, FlushAck, OwnInv, Placement, ownVars
  <2> QED BY <2>1, <2>2, QuietStep
<1>2. CASE SocketDies \/ RequestShutdown \/ UpdateAvailable \/ UNCHANGED vars
  <2>1. UNCHANGED <<pc, ownVars, chan, task, offered>>
    BY <1>2 DEF SocketDies, RequestShutdown, UpdateAvailable, vars, connVars
  <2> QED BY <2>1, QuietStep DEF OwnInv, Placement, ownVars
<1>3. CASE Register
  <2>1. /\ pc = "registering" /\ pc' \in {"flushing", "draining"}
        /\ UNCHANGED <<ownVars, chan, offered>>
    BY <1>3 DEF Register, BeginDrain
  <2>2. UNCHANGED task
    BY <1>3 DEF Register, BeginDrain, Signal
  <2>3. Placement'
    BY <2>1 DEF OwnInv, Placement, ownVars
  <2> QED BY <2>1, <2>2, <2>3, QuietStep
<1>4. CASE ShutdownArm \/ AutoUpgradeTick \/ HeartbeatArm \/ StreamLost
           \/ (\E why \in {"upgrade_required", "lost"} : SocketClosed(why))
  <2>1. pc = "serving" /\ UNCHANGED <<ownVars, chan, offered>>
    BY <1>4 DEF ShutdownArm, AutoUpgradeTick, HeartbeatArm, StreamLost, SocketClosed,
       StreamReady, Serving
  <2>2. \/ UNCHANGED <<connVars, task>>
        \/ \E why \in Endings : BeginDrain(why, inFlight)
    <3>1. CASE ShutdownArm
      BY <3>1 DEF ShutdownArm, Endings
    <3>2. CASE AutoUpgradeTick
      BY <3>2 DEF AutoUpgradeTick, Endings
    <3>3. CASE HeartbeatArm
      <4>1. PICK ok \in SendResults, last \in BOOLEAN :
              IF ~ok THEN BeginDrain("lost", inFlight)
              ELSE IF last THEN BeginDrain("heartbeat_limit", inFlight)
              ELSE UNCHANGED <<connVars, task>>
        BY <3>3 DEF HeartbeatArm
      <4> QED BY <4>1 DEF Endings
    <3>4. CASE StreamLost
      BY <3>4 DEF StreamLost, Endings
    <3>5. CASE \E why \in {"upgrade_required", "lost"} : SocketClosed(why)
      BY <3>5 DEF SocketClosed, Endings
    <3> QED BY <1>4, <3>1, <3>2, <3>3, <3>4, <3>5
  <2>3. CASE UNCHANGED <<connVars, task>>
    BY <2>1, <2>3, QuietStep DEF OwnInv, Placement, ownVars, connVars
  <2> QED BY <2>1, <2>2, <2>3, DrainStep
<1>5. CASE WorkerArm BY <1>5, WorkerKeepsOwnership
<1>6. ASSUME NEW l \in Leases, JobAssign(l) PROVE OwnInv'
  BY <1>6, AssignKeepsOwnership
<1>7. ASSUME NEW j \in Jobs, Cancel(j) PROVE OwnInv'
  BY <1>7, CancelKeepsOwnership
<1>8. CASE InlineJoin
  <2>1. /\ pc = "inline" /\ pc' = "serving" /\ inline' = NoLease /\ Ended(inline)
        /\ UNCHANGED <<inFlight, draining, canceledJob, cancelTime, chan, task, offered>>
    BY <1>8 DEF InlineJoin
  <2>2. inline \in Leases /\ ~Live(inline)
    BY <2>1 DEF TypeOK, OwnInv, Placement, Ended, Live
  <2>3. Placement' /\ TruthfulChan'
    BY <2>1 DEF OwnInv, Placement, TruthfulChan
  <2> QED BY <2>1, <2>2, <2>3, ReleaseStep
<1>9. CASE JoinInFlight
  <2>1. /\ pc = "draining" /\ inFlight # NoLease /\ Ended(inFlight) /\ inFlight' = NoLease
        /\ UNCHANGED <<pc, draining, inline, canceledJob, cancelTime, chan, task, offered>>
    BY <1>9 DEF JoinInFlight, connVars
  <2>2. inFlight \in Leases /\ ~Live(inFlight)
    BY <2>1 DEF TypeOK, Ended, Live
  <2>3. Placement' /\ TruthfulChan'
    BY <2>1 DEF OwnInv, Placement, TruthfulChan
  <2> QED BY <2>1, <2>2, <2>3, ReleaseStep
<1>10. ASSUME NEW l \in Leases, JoinDraining(l) PROVE OwnInv'
  <2>1. /\ pc = "draining" /\ Ended(l) /\ draining' = draining \ {l}
        /\ UNCHANGED <<pc, inFlight, inline, canceledJob, cancelTime, chan, task, offered>>
    BY <1>10 DEF JoinDraining, connVars
  <2>2. ~Live(l)
    BY <2>1 DEF Ended, Live
  <2>3. Placement' /\ TruthfulChan'
    BY <2>1, FS_RemoveElement DEF OwnInv, Placement, TruthfulChan
  <2> QED BY <2>1, <2>2, <2>3, ReleaseStep
<1>11. CASE SessionOver
  <2>1. /\ pc = "draining" /\ inFlight = NoLease /\ draining = {}
        /\ pc' \in {"backoff", "exited"} /\ chan' = <<>> /\ canceledJob' = NoLease
        /\ UNCHANGED <<inFlight, draining, inline, cancelTime, task, offered>>
    BY <1>11 DEF SessionOver, AllJoined
  <2>2. TruthfulChan'
    BY <2>1, EmptySeq DEF TruthfulChan
  <2>3. Placement'
    BY <2>1 DEF OwnInv, Placement
  <2> QED
    BY <2>1, <2>2, <2>3 DEF OwnInv, RunningHeld, Bookkeeping, NoStrandedTask, Live, Owned
<1>12. ASSUME NEW l \in Leases, NEW outcome \in {"complete", "failed", "panicked"},
              TaskEnds(l, outcome)
       PROVE OwnInv'
  BY <1>12, EndKeepsOwnership
<1> QED
  BY <1>1, <1>2, <1>3, <1>4, <1>5, <1>6, <1>7, <1>8, <1>9, <1>10, <1>11, <1>12
     DEF Next, StartUp, Arms, WindDown, Tasks, Environment, Exited

LEMMA OwnershipInit == Init => OwnInv
<1> SUFFICES ASSUME Init PROVE OwnInv
  OBVIOUS
<1>1. Placement
  BY FS_EmptySet DEF Init, Placement
<1>2. TruthfulChan
  BY EmptySeq DEF Init, TruthfulChan
<1>3. RunningHeld /\ Bookkeeping /\ NoStrandedTask
  BY DEF Init, RunningHeld, Bookkeeping, NoStrandedTask, Live
<1> QED BY <1>1, <1>2, <1>3 DEF OwnInv

(* The ownership invariant holds throughout.                                 *)
THEOREM Ownership == Spec => [](TypeOK /\ OwnInv)
<1>1. TypeOK /\ OwnInv /\ [Next]_vars => OwnInv'
  BY OwnershipStep
<1> QED BY <1>1, OwnershipInit, TypeCorrect, PTL DEF Spec

(* No exit path can strand a live task: somebody holds its JoinHandle.       *)
THEOREM NoTaskIsStranded == Spec => []NoStrandedTask
BY Ownership, PTL DEF OwnInv

(* The run is between sessions, or over, only when no task is alive.         *)
THEOREM AwayIsIdle == Spec => []AwayMeansIdle
<1>1. OwnInv => AwayMeansIdle
  BY SessionAssumption DEF OwnInv, Placement, NoStrandedTask, Owned, AwayMeansIdle
<1> QED BY <1>1, Ownership, PTL

(* No two tasks render at once.                                              *)
THEOREM OneRenderAtATime == Spec => []OneRender
<1>1. OwnInv => OneRender
  BY DEF OwnInv, RunningHeld, OneRender
<1> QED BY <1>1, Ownership, PTL

(* A heartbeat of zero jobs speaks the truth.                                *)
THEOREM ZeroCountIsTrue == Spec => []IdleCountIsTrue
<1>1. TypeOK /\ OwnInv => IdleCountIsTrue
  <2> SUFFICES ASSUME TypeOK, OwnInv, pc = "serving", CurrentJobCount = 0
               PROVE  \A l \in Leases : ~Live(l)
    BY DEF IdleCountIsTrue
  <2>1. Cardinality(draining) \in Nat /\ (Cardinality(draining) = 0 => draining = {})
    BY FS_CardinalityType, FS_EmptySet DEF OwnInv, Placement
  <2>2. inFlight = NoLease /\ draining = {} /\ inline = NoLease
    BY <2>1 DEF CurrentJobCount, OwnInv, Placement
  <2> QED BY <2>2, SessionAssumption DEF OwnInv, NoStrandedTask, Owned
<1> QED BY <1>1, Ownership, PTL

-----------------------------------------------------------------------------
(* Cancel-acks.                                                              *)

(* An outcome is final: a failed task stays failed.                          *)
LEMMA FailedForGood ==
  ASSUME TypeOK, OwnInv, [Next]_vars, NEW l \in Leases, task[l] = "failed"
  PROVE  task'[l] = "failed"
<1>1. CASE UNCHANGED task
  BY <1>1
<1>2. ASSUME NEW m \in Leases \cup {NoLease}, task' = Signal(m)
      PROVE  task'[l] = "failed"
  BY <1>2, SignalEffect
<1>3. ASSUME NEW m \in Leases, JobAssign(m) PROVE task'[l] = "failed"
  <2>1. task[m] = "none"
    BY <1>3 DEF JobAssign, MayAssign, OwnInv, Bookkeeping
  <2>2. \/ UNCHANGED task
        \/ task' = [task EXCEPT ![m] = "running"]
        \/ task' = Signal(inFlight)
    BY <1>3 DEF JobAssign, RefuseAssign, AcceptAssign, BeginDrain
  <2> QED BY <1>1, <1>2, <2>1, <2>2 DEF TypeOK
<1>4. ASSUME NEW m \in Leases, NEW o \in {"complete", "failed", "panicked"}, TaskEnds(m, o)
      PROVE  task'[l] = "failed"
  BY <1>4 DEF TaskEnds, Live, TypeOK
<1>5. CASE StartUp \/ WindDown \/ Environment \/ Exited \/ UNCHANGED vars
  <2>1. UNCHANGED task \/ task' = Signal(NoLease)
    BY <1>5 DEF StartUp, WindDown, Environment, Exited, vars, Connect, ConnectFails,
       Register, FlushDone, FlushAck, BeginDrain, JoinInFlight, JoinDraining, SessionOver,
       BackoffElapsed, ShutdownWhileAway, SocketDies, RequestShutdown
  <2> QED BY <1>1, <1>2, <2>1
<1>6. CASE ShutdownArm \/ AutoUpgradeTick \/ UpdateAvailable \/ StreamLost \/ InlineJoin
           \/ (\E why \in {"upgrade_required", "lost"} : SocketClosed(why))
           \/ (\E j \in Jobs : Cancel(j))
  <2>1. UNCHANGED task \/ task' = Signal(inFlight)
    BY <1>6 DEF ShutdownArm, AutoUpgradeTick, UpdateAvailable, StreamLost,
       InlineJoin, SocketClosed, Cancel, BeginDrain
  <2> QED BY <1>1, <1>2, <2>1 DEF TypeOK
<1>7. CASE HeartbeatArm
  <2>1. UNCHANGED task \/ task' = Signal(inFlight)
    BY <1>7 DEF HeartbeatArm, BeginDrain
  <2> QED BY <1>1, <1>2, <2>1 DEF TypeOK
<1>8. CASE WorkerArm
  <2>1. UNCHANGED task \/ task' = Signal(inFlight')
    BY <1>8 DEF WorkerArm, SuppressFrame, ForwardFrame, BeginDrain
  <2>2. inFlight' \in Leases \cup {NoLease}
    BY <1>8 DEF WorkerArm, TypeOK
  <2> QED BY <1>1, <1>2, <2>1, <2>2
<1> QED
  BY <1>3, <1>4, <1>5, <1>6, <1>7, <1>8 DEF Next, Arms, Tasks

(* A step that issues no ack and fills no slot keeps the ack invariant.      *)
LEMMA NoNewAck ==
  ASSUME TypeOK, OwnInv, AckInv, [Next]_vars,
         pendingAcks' \subseteq pendingAcks, draining' \subseteq draining,
         \A l \in Leases : Frame("ack", l) \in sent' => Frame("ack", l) \in sent,
         cancelTime \subseteq cancelTime', canceledJob' \in {canceledJob, NoLease},
         pc' \in {"serving", "inline"} /\ canceledJob # NoLease => pc \in {"serving", "inline"}
  PROVE  AckInv'
<1>1. WitnessedAck'
  BY FailedForGood DEF AckInv, WitnessedAck
<1>2. AckOwedOnce'
  BY DEF AckInv, AckOwedOnce, TypeOK
<1>3. SlotUnspent'
  BY SessionAssumption DEF AckInv, SlotUnspent, TypeOK
<1> QED BY <1>1, <1>2, <1>3 DEF AckInv

(* The live witness: the suppressed failure of the lease in the slot.        *)
LEMMA WorkerKeepsAcks ==
  ASSUME TypeOK, OwnInv, AckInv, WorkerArm
  PROVE  AckInv'
<1> DEFINE f == Head(chan)
<1>1. /\ pc = "serving" /\ chan # <<>> /\ UNCHANGED cancelTime
      /\ canceledJob' = IF OfCanceled(f) THEN NoLease ELSE canceledJob
      /\ IF OfCanceled(f) THEN SuppressFrame(f) ELSE ForwardFrame(f)
  BY DEF WorkerArm, Serving
<1>2. f \in Frames /\ f.lease \in Leases /\ f = chan[1] /\ 1 \in 1..Len(chan)
  <2>1. chan \in Seq(Frames) /\ chan # <<>>
    BY <1>1 DEF TypeOK
  <2>2. f \in Frames /\ Len(chan) \in Nat \ {0} /\ f = chan[1]
    BY <2>1, HeadTailProperties, EmptySeq
  <2> QED BY <2>2 DEF Frames
<1>3. CASE OfCanceled(f) /\ cancel_ack_predicate(f.kind)
  <2>1. /\ canceledJob = f.lease /\ canceledJob' = NoLease /\ UNCHANGED <<connVars, task>>
        /\ draining' = draining \ {f.lease}
        /\ \/ sent' = sent \cup {Frame("ack", f.lease)} /\ UNCHANGED pendingAcks
           \/ UNCHANGED sent /\ pendingAcks' \in {pendingAcks, pendingAcks \cup {f.lease}}
    BY <1>1, <1>3 DEF OfCanceled, frame_is_for, SuppressFrame, remove_entry,
       queue_pending_cancel_ack
  <2>2. task[f.lease] = "failed"
    BY <1>2, <1>3 DEF cancel_ack_predicate, OwnInv, TruthfulChan, Terminals
  <2>3. f.lease \in cancelTime
    BY <1>2, <2>1, SessionAssumption DEF OwnInv, Bookkeeping
  <2>4. Frame("ack", f.lease) \notin sent /\ f.lease \notin pendingAcks
    BY <1>1, <1>2, <2>1, SessionAssumption DEF AckInv, SlotUnspent
  <2>5. \A l \in Leases : Frame("ack", l) = Frame("ack", f.lease) => l = f.lease
    BY DEF Frame
  <2>6. WitnessedAck'
    BY <1>1, <2>1, <2>2, <2>3, <2>5 DEF AckInv, WitnessedAck
  <2>7. AckOwedOnce'
    BY <2>1, <2>4, <2>5 DEF AckInv, AckOwedOnce
  <2>8. SlotUnspent'
    BY <2>1 DEF SlotUnspent
  <2> QED BY <2>6, <2>7, <2>8 DEF AckInv
<1>4. CASE ~(OfCanceled(f) /\ cancel_ack_predicate(f.kind))
  <2>1. /\ UNCHANGED <<draining, pendingAcks>>
        /\ canceledJob' \in {canceledJob, NoLease}
        /\ sent' \subseteq sent \cup {f}
    BY <1>1, <1>4 DEF SuppressFrame, ForwardFrame
  <2>2. \A l \in Leases : Frame("ack", l) # f
    BY <1>2 DEF Frames, Frame, Terminals
  <2>3. [Next]_vars
    BY DEF Next, Arms
  <2> QED BY <1>1, <2>1, <2>2, <2>3, NoNewAck
<1> QED BY <1>3, <1>4

(* The witness of the drain: the joined outcome of a canceled lease.         *)
LEMMA DrainKeepsAcks ==
  ASSUME TypeOK, OwnInv, AckInv, JoinInFlight \/ \E l \in Leases : JoinDraining(l)
  PROVE  AckInv'
<1>1. CASE JoinInFlight
  <2>1. pendingAcks' = pendingAcks
    BY <1>1 DEF JoinInFlight, queue_drained_cancel_ack, OwnInv, Bookkeeping
  <2>2. [Next]_vars /\ UNCHANGED <<pc, draining, cancelTime, canceledJob, sent>>
    BY <1>1 DEF JoinInFlight, Next, WindDown, connVars
  <2> QED BY <2>1, <2>2, NoNewAck
<1>2. ASSUME NEW l \in Leases, JoinDraining(l) PROVE AckInv'
  <2>1. /\ pc' = "draining" /\ l \in draining /\ draining' = draining \ {l}
        /\ UNCHANGED <<cancelTime, sent, task>>
        /\ pendingAcks' = queue_drained_cancel_ack(l)
    BY <1>2 DEF JoinDraining, connVars
  <2>2. \/ pendingAcks' = pendingAcks
        \/ pendingAcks' = pendingAcks \cup {l} /\ task[l] = "failed" /\ l \in cancelTime
    BY <2>1 DEF queue_drained_cancel_ack, cancel_ack_predicate, queue_pending_cancel_ack
  <2>3. WitnessedAck'
    BY <2>1, <2>2 DEF AckInv, WitnessedAck
  <2>4. AckOwedOnce'
    BY <2>1, <2>2 DEF AckInv, AckOwedOnce
  <2>5. SlotUnspent'
    BY <2>1 DEF SlotUnspent
  <2> QED BY <2>3, <2>4, <2>5 DEF AckInv
<1> QED BY <1>1, <1>2

(* Every step keeps the ack invariant.                                       *)
LEMMA AckStep ==
  ASSUME TypeOK, OwnInv, AckInv, [Next]_vars
  PROVE  AckInv'
<1>1. ASSUME NEW l \in Leases, FlushAck(l) PROVE AckInv'
  <2>1. CASE UNCHANGED <<pendingAcks, sent>>
    BY <1>1, <2>1, NoNewAck DEF FlushAck, ownVars, OwnInv, Placement
  <2>2. CASE pendingAcks' = pendingAcks \ {l} /\ sent' = sent \cup {Frame("ack", l)} /\ pc' = pc
    <3>1. l \in pendingAcks /\ pc = "flushing" /\ UNCHANGED <<draining, cancelTime, task, canceledJob>>
      BY <1>1 DEF FlushAck, ownVars
    <3>2. \A m \in Leases : Frame("ack", m) = Frame("ack", l) => m = l
      BY DEF Frame
    <3>3. WitnessedAck'
      BY <2>2, <3>1, <3>2 DEF AckInv, WitnessedAck
    <3>4. AckOwedOnce'
      BY <2>2, <3>1, <3>2 DEF AckInv, AckOwedOnce
    <3>5. SlotUnspent'
      BY <2>2, <3>1 DEF SlotUnspent
    <3> QED BY <3>3, <3>4, <3>5 DEF AckInv
  <2> QED BY <1>1, <2>1, <2>2 DEF FlushAck
<1>2. CASE Connect \/ ConnectFails \/ FlushDone \/ BackoffElapsed \/ ShutdownWhileAway
           \/ SessionOver \/ Register
  <2>1. /\ pendingAcks' \subseteq pendingAcks /\ UNCHANGED <<draining, cancelTime, sent>>
        /\ canceledJob' \in {canceledJob, NoLease}
    BY <1>2 DEF Connect, ConnectFails, FlushDone, BackoffElapsed, ShutdownWhileAway,
       SessionOver, Register, ownVars
  <2>2. pc' \in {"serving", "inline"} => canceledJob = NoLease
    BY <1>2 DEF Connect, ConnectFails, FlushDone, BackoffElapsed, ShutdownWhileAway,
       SessionOver, Register, BeginDrain, OwnInv, Placement
  <2> QED BY <2>1, <2>2, NoNewAck
<1>3. CASE ShutdownArm \/ AutoUpgradeTick \/ HeartbeatArm \/ UpdateAvailable \/ StreamLost
           \/ InlineJoin \/ (\E why \in {"upgrade_required", "lost"} : SocketClosed(why))
           \/ SocketDies \/ RequestShutdown \/ UNCHANGED vars \/ Tasks
  <2>1. UNCHANGED <<pendingAcks, draining, cancelTime, canceledJob, sent>>
    BY <1>3 DEF ShutdownArm, AutoUpgradeTick, HeartbeatArm, UpdateAvailable, StreamLost,
       InlineJoin, SocketClosed, SocketDies, RequestShutdown, vars, ownVars, Tasks, TaskEnds
  <2>2. pc' = pc \/ pc \in {"serving", "inline"}
    BY <1>3 DEF ShutdownArm, AutoUpgradeTick, HeartbeatArm, UpdateAvailable, StreamLost,
       InlineJoin, SocketClosed, SocketDies, RequestShutdown, vars, connVars, Tasks,
       TaskEnds, StreamReady, Serving
  <2> QED BY <2>1, <2>2, NoNewAck
<1>4. ASSUME NEW l \in Leases, JobAssign(l) PROVE AckInv'
  <2>1. /\ pc = "serving" /\ sent' \subseteq sent \cup {Frame("accepted", l)}
        /\ UNCHANGED <<pendingAcks, draining, cancelTime, canceledJob>>
    BY <1>4 DEF JobAssign, RefuseAssign, AcceptAssign, StreamReady, Serving
  <2>2. \A m \in Leases : Frame("ack", m) # Frame("accepted", l)
    BY DEF Frame
  <2> QED BY <2>1, <2>2, NoNewAck
<1>5. ASSUME NEW j \in Jobs, Cancel(j) PROVE AckInv'
  <2>1. /\ inFlight \in Leases /\ canceledJob' = inFlight
        /\ cancelTime' = cancelTime \cup {inFlight}
        /\ draining' \in {draining, draining \cup {inFlight}}
        /\ UNCHANGED <<pendingAcks, sent>>
    BY <1>5 DEF Cancel, TypeOK
  <2>2. Frame("ack", inFlight) \notin sent /\ inFlight \notin pendingAcks
    BY <2>1, SessionAssumption DEF AckInv, WitnessedAck, OwnInv, Bookkeeping
  <2>3. WitnessedAck'
    BY <2>1, FailedForGood DEF AckInv, WitnessedAck
  <2>4. AckOwedOnce'
    BY <2>1, <2>2 DEF AckInv, AckOwedOnce
  <2>5. SlotUnspent'
    BY <2>1, <2>2 DEF SlotUnspent
  <2> QED BY <2>3, <2>4, <2>5 DEF AckInv
<1>6. CASE WorkerArm BY <1>6, WorkerKeepsAcks
<1>7. CASE JoinInFlight \/ \E l \in Leases : JoinDraining(l)
  BY <1>7, DrainKeepsAcks
<1> QED
  BY <1>1, <1>2, <1>3, <1>4, <1>5, <1>6, <1>7
     DEF Next, StartUp, Arms, WindDown, Environment, Exited

(* The ack invariant holds throughout.                                       *)
LEMMA Acks == Spec => []AckInv
<1>1. Init => AckInv
  BY DEF Init, AckInv, WitnessedAck, AckOwedOnce, SlotUnspent
<1>2. TypeOK /\ OwnInv /\ AckInv /\ [Next]_vars => AckInv'
  BY AckStep
<1> QED BY <1>1, <1>2, Ownership, PTL DEF Spec

(* Whatever the interleaving of cancels, outcomes and lost sockets, an ack   *)
(* is issued only for a lease that was canceled and whose task failed.       *)
THEOREM EveryAckIsWitnessed == Spec => []WitnessedAck
BY Acks, PTL DEF AckInv

(* And no ack is owed in two places, so none goes out twice.                 *)
THEOREM NoAckIsOwedTwice == Spec => []AckOwedOnce
BY Acks, PTL DEF AckInv

-----------------------------------------------------------------------------
(* The auto-upgrade handoff.                                                 *)

(* The gate lets the socket close only at a moment when the loop owns no     *)
(* live task; draining afterwards starts none.                               *)
LEMMA UpgradeStep ==
  ASSUME TypeOK, OwnInv, UpgradeHarmsNoJob, [Next]_vars
  PROVE  UpgradeHarmsNoJob'
<1> SUFFICES ASSUME pc' = "draining", ending' = "auto_upgrade"
             PROVE  inFlight' = NoLease /\ \A l \in Leases : ~Live(l)'
  BY DEF UpgradeHarmsNoJob
<1>1. CASE AutoUpgradeTick
  <2>1. pc = "serving" /\ BeginDrain("auto_upgrade", inFlight) /\ UpgradeIdle
        /\ UNCHANGED ownVars
    BY <1>1 DEF AutoUpgradeTick, Serving, connVars
  <2>2. inFlight = NoLease /\ UNCHANGED <<inFlight, task>> /\ inline = NoLease
    BY <2>1 DEF UpgradeIdle, BeginDrain, Signal, ownVars, OwnInv, Placement
  <2>3. \A l \in Leases : ~Live(l)
    BY <2>1, <2>2, SessionAssumption DEF UpgradeIdle, Ended, Live, OwnInv, NoStrandedTask, Owned
  <2> QED BY <2>2, <2>3 DEF Live
<1>2. CASE pc = "draining" /\ ending = "auto_upgrade"
  <2>1. inFlight = NoLease /\ \A l \in Leases : ~Live(l)
    BY <1>2 DEF UpgradeHarmsNoJob
  <2>2. JoinInFlight \/ (\E l \in Leases : JoinDraining(l)) \/ SocketDies
          \/ RequestShutdown \/ UNCHANGED vars
    <3>1. ~StartUp
      BY <1>2 DEF StartUp, Connect, ConnectFails, Register, FlushDone, FlushAck
    <3>2. ~Arms
      BY <1>2 DEF Arms, ShutdownArm, AutoUpgradeTick, HeartbeatArm, WorkerArm,
         UpdateAvailable, StreamLost, InlineJoin, JobAssign, Cancel, SocketClosed,
         StreamReady, Serving
    <3>3. ~Tasks
      BY <2>1 DEF Tasks, TaskEnds
    <3>4. ~SessionOver /\ ~BackoffElapsed /\ ~ShutdownWhileAway
      BY <1>2 DEF SessionOver, BackoffElapsed, ShutdownWhileAway, AwaySelecting
    <3> QED BY <3>1, <3>2, <3>3, <3>4 DEF Next, WindDown, Environment, Exited
  <2>3. inFlight' \in {inFlight, NoLease} /\ UNCHANGED task
    BY <2>2 DEF JoinInFlight, JoinDraining, SocketDies, RequestShutdown, vars, ownVars
  <2> QED BY <2>1, <2>3 DEF Live
<1>3. CASE ~AutoUpgradeTick /\ ~(pc = "draining" /\ ending = "auto_upgrade")
  <2>1. ~StartUp
    BY <1>3 DEF StartUp, Connect, ConnectFails, Register, FlushDone, FlushAck, BeginDrain
  <2>2. ~(ShutdownArm \/ UpdateAvailable \/ StreamLost \/ InlineJoin)
    BY <1>3 DEF ShutdownArm, UpdateAvailable, StreamLost, InlineJoin, BeginDrain,
       StreamReady, Serving, connVars
  <2>3. ~HeartbeatArm
    BY <1>3 DEF HeartbeatArm, BeginDrain, connVars
  <2>4. ~WorkerArm
    BY <1>3 DEF WorkerArm, SuppressFrame, ForwardFrame, BeginDrain, connVars
  <2>5. ~(\E l \in Leases : JobAssign(l)) /\ ~(\E j \in Jobs : Cancel(j))
        /\ ~(\E why \in {"upgrade_required", "lost"} : SocketClosed(why))
    BY <1>3 DEF JobAssign, RefuseAssign, AcceptAssign, Cancel, SocketClosed, BeginDrain,
       StreamReady, Serving, connVars
  <2>6. ~WindDown
    BY <1>3 DEF WindDown, JoinInFlight, JoinDraining, SessionOver, BackoffElapsed,
       ShutdownWhileAway, connVars
  <2>7. ~Tasks /\ ~Environment /\ ~Exited /\ ~UNCHANGED vars
    BY <1>3 DEF Tasks, TaskEnds, Environment, SocketDies, RequestShutdown, Exited, vars, connVars
  <2> QED BY <1>3, <2>1, <2>2, <2>3, <2>4, <2>5, <2>6, <2>7 DEF Next, Arms
<1> QED BY <1>1, <1>2, <1>3

(* An automatic upgrade never costs a job: neither its task nor its report.  *)
THEOREM UpgradeIsHarmless == Spec => []UpgradeHarmsNoJob
<1>1. Init => UpgradeHarmsNoJob
  BY DEF Init, UpgradeHarmsNoJob
<1>2. TypeOK /\ OwnInv /\ UpgradeHarmsNoJob /\ [Next]_vars => UpgradeHarmsNoJob'
  BY UpgradeStep
<1> QED BY <1>1, <1>2, Ownership, PTL DEF Spec

-----------------------------------------------------------------------------
(* The report of a finished job.                                             *)

InChan(f) == \E i \in 1..Len(chan) : chan[i] = f

(* Adding to the channel loses no frame, and reading loses only the head.    *)
LEMMA ChanGrows ==
  ASSUME TypeOK, NEW g \in Frames, chan' = Append(chan, g)
  PROVE  InChan(g)' /\ \A f \in Frames : InChan(f) => InChan(f)'
<1>1. /\ Len(chan') = Len(chan) + 1 /\ chan'[Len(chan) + 1] = g
      /\ \A i \in 1..Len(chan) : chan'[i] = chan[i]
      /\ Len(chan) \in Nat
  BY AppendProperties, LenProperties DEF TypeOK
<1> QED BY <1>1 DEF InChan

LEMMA ChanShrinks ==
  ASSUME TypeOK, chan # <<>>, chan' = Tail(chan), NEW f \in Frames, InChan(f)
  PROVE  f = Head(chan) \/ InChan(f)'
<1>1. /\ Len(chan') = Len(chan) - 1
      /\ \A i \in 1..Len(chan') : chan'[i] = chan[i + 1]
      /\ Len(chan) \in Nat \ {0} /\ Head(chan) = chan[1]
  BY HeadTailProperties, EmptySeq DEF TypeOK
<1>2. PICK i \in 1..Len(chan) : chan[i] = f
  BY DEF InChan
<1>3. CASE i = 1 BY <1>1, <1>2, <1>3
<1>4. CASE i # 1
  <2>1. i - 1 \in 1..Len(chan') /\ (i - 1) + 1 = i
    BY <1>1, <1>4
  <2> QED BY <1>1, <1>2, <2>1 DEF InChan
<1> QED BY <1>3, <1>4

(* Every step keeps the report of the job in flight unread or unwritten.     *)
LEMMA BusyStep ==
  ASSUME TypeOK, OwnInv, BusyIsReal, [Next]_vars
  PROVE  BusyIsReal'
<1> SUFFICES ASSUME pc' \in {"serving", "inline"}, inFlight' # NoLease,
                    task'[inFlight'] \in Terminals
             PROVE  InChan(Frame(task[inFlight], inFlight))'
  BY DEF BusyIsReal, InChan
<1>1. pc \in {"serving", "inline"} /\ inFlight # NoLease /\ task[inFlight] \in Terminals
        => InChan(Frame(task[inFlight], inFlight))
  BY DEF BusyIsReal, InChan
<1>2. CASE UNCHANGED <<inFlight, task, chan>> /\ pc \in {"serving", "inline"}
  BY <1>1, <1>2 DEF InChan
<1>3. CASE StartUp \/ WindDown
  <2>1. inFlight' = inFlight /\ pc \notin {"serving", "inline", "draining"}
    BY <1>3 DEF StartUp, WindDown, Connect, ConnectFails, Register, FlushDone, FlushAck,
       BeginDrain, JoinInFlight, JoinDraining, SessionOver, BackoffElapsed,
       ShutdownWhileAway, AwaySelecting, ownVars, connVars
  <2> QED BY <2>1 DEF OwnInv, Placement
<1>4. CASE ShutdownArm \/ AutoUpgradeTick \/ UpdateAvailable \/ StreamLost \/ InlineJoin
           \/ (\E why \in {"upgrade_required", "lost"} : SocketClosed(why))
           \/ Environment \/ Exited \/ UNCHANGED vars
  <2>1. UNCHANGED <<inFlight, task, chan>> /\ pc \in {"serving", "inline"}
    BY <1>4 DEF ShutdownArm, AutoUpgradeTick, UpdateAvailable, StreamLost, InlineJoin,
       SocketClosed, BeginDrain, Environment, SocketDies, RequestShutdown, Exited,
       StreamReady, Serving, ownVars, connVars, vars
  <2> QED BY <1>2, <2>1
<1>5. CASE HeartbeatArm
  <2>1. UNCHANGED <<inFlight, task, chan>> /\ pc \in {"serving", "inline"}
    BY <1>5 DEF HeartbeatArm, BeginDrain, Serving, ownVars, connVars
  <2> QED BY <1>2, <2>1
<1>6. CASE WorkerArm
  <2> DEFINE f == Head(chan)
  <2>1. /\ pc = "serving" /\ chan # <<>> /\ chan' = Tail(chan)
        /\ inFlight' = IF EndsInFlight(f) THEN NoLease ELSE inFlight
        /\ UNCHANGED task
    BY <1>6 DEF WorkerArm, SuppressFrame, ForwardFrame, BeginDrain, Serving
  <2>2. inFlight' = inFlight /\ ~EndsInFlight(f) /\ inFlight \in Leases
    BY <2>1 DEF TypeOK
  <2>3. Frame(task[inFlight], inFlight) \in Frames
    BY <2>1, <2>2 DEF Frames, Frame
  <2>4. Frame(task[inFlight], inFlight) # f
    BY <2>1, <2>2 DEF EndsInFlight, frame_is_for, Frame
  <2>5. InChan(Frame(task[inFlight], inFlight))
    BY <1>1, <2>1, <2>2
  <2>6. \E i \in 1..Len(chan') : chan'[i] = Frame(task[inFlight], inFlight)
    BY <2>1, <2>3, <2>4, <2>5, ChanShrinks DEF InChan
  <2> QED BY <2>1, <2>2, <2>6 DEF InChan
<1>7. ASSUME NEW l \in Leases, JobAssign(l)
      PROVE  InChan(Frame(task[inFlight], inFlight))'
  <2>1. CASE RefuseAssign(l)
    <3>1. /\ pc = "serving" /\ UNCHANGED <<inFlight, task>>
          /\ chan' = Append(chan, Frame("rejected", l))
      BY <1>7, <2>1 DEF JobAssign, RefuseAssign, StreamReady, Serving
    <3>2. Frame("rejected", l) \in Frames
      BY DEF Frames, Frame
    <3>3. Frame(task[inFlight], inFlight) \in Frames
      BY <3>1 DEF Frames, Frame, TypeOK
    <3>4. \E i \in 1..Len(chan') : chan'[i] = Frame(task[inFlight], inFlight)
      BY <1>1, <3>1, <3>2, <3>3, ChanGrows DEF InChan
    <3> QED BY <3>1, <3>4 DEF InChan
  <2>2. CASE AcceptAssign(l)
    <3>1. pc' = "draining" \/ task'[inFlight'] = "running"
      BY <1>7, <2>2 DEF JobAssign, AcceptAssign, BeginDrain, TypeOK
    <3> QED BY <3>1 DEF Terminals
  <2> QED BY <1>7, <2>1, <2>2 DEF JobAssign
<1>8. ASSUME NEW j \in Jobs, Cancel(j)
      PROVE  InChan(Frame(task[inFlight], inFlight))'
  BY <1>8 DEF Cancel
<1>9. ASSUME NEW l \in Leases, NEW outcome \in {"complete", "failed", "panicked"},
             TaskEnds(l, outcome)
      PROVE  InChan(Frame(task[inFlight], inFlight))'
  <2>1. /\ pc \in {"serving", "inline"} /\ inFlight \in Leases /\ UNCHANGED inFlight
        /\ \A m \in Leases : task'[m] = IF m = l THEN outcome ELSE task[m]
        /\ chan' = IF outcome = "panicked" THEN chan ELSE Append(chan, Frame(outcome, l))
    BY <1>9 DEF TaskEnds, TypeOK, connVars, ownVars
  <2>2. outcome # "panicked" => Frame(outcome, l) \in Frames
    BY DEF Frames, Frame, Terminals
  <2>3. CASE inFlight = l
    <3>1. outcome # "panicked" /\ task'[inFlight'] = outcome
      BY <2>1, <2>3 DEF Terminals
    <3>2. \E i \in 1..Len(chan') : chan'[i] = Frame(outcome, l)
      BY <2>1, <2>2, <3>1, ChanGrows DEF InChan
    <3> QED BY <2>1, <2>3, <3>1, <3>2 DEF InChan
  <2>4. CASE inFlight # l
    <3>1. task[inFlight] \in Terminals /\ task'[inFlight'] = task[inFlight]
      BY <2>1, <2>4
    <3>2. Frame(task[inFlight], inFlight) \in Frames
      BY <2>1, <3>1 DEF Frames, Frame
    <3>3. \E i \in 1..Len(chan') : chan'[i] = Frame(task[inFlight], inFlight)
      BY <1>1, <2>1, <2>2, <3>1, <3>2, ChanGrows DEF InChan
    <3> QED BY <2>1, <3>1, <3>3 DEF InChan
  <2> QED BY <2>3, <2>4
<1> QED
  BY <1>3, <1>4, <1>5, <1>6, <1>7, <1>8, <1>9 DEF Next, Arms, Tasks

(* in_flight never outlives the report of its job.                           *)
THEOREM BusyMeansBusy == Spec => []BusyIsReal
<1>1. Init => BusyIsReal
  BY DEF Init, BusyIsReal
<1>2. TypeOK /\ OwnInv /\ BusyIsReal /\ [Next]_vars => BusyIsReal'
  BY BusyStep
<1> QED BY <1>1, <1>2, Ownership, PTL DEF Spec
=============================================================================
