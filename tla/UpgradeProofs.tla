--------------------------- MODULE UpgradeProofs ---------------------------
(***************************************************************************)
(* Proofs about AutoUpgrade, for every number of releases, every set of    *)
(* targets, every window and quiet period and any number of crashes.       *)
(*                                                                         *)
(* The fuse holds by an invariant that follows the suppression from the    *)
(* ledger through the policy of a run to the gate of a session: as long as *)
(* the window is open, whoever holds the target has been told not to.      *)
(***************************************************************************)
EXTENDS AutoUpgrade, TLAPS

\* A process that is over is on its way out: it remembers the stop it heard,
\* or holds the result that ends it.
OverInv ==
    over => /\ pc \in Applying \cup {"settle"}
            /\ terminate \/ (pc = "record" /\ outcome = "upgraded")

Open == now - last.at < Window

\* While the last transaction's window is open the ledger is about it, a run
\* suppresses its target long enough, and none is handed off for it.
FuseInv ==
    /\ pc \in Applying => attempted <= now
    /\ last # None =>
         /\ ledger # None /\ ledger.target = last.target /\ ledger.outcome # "upgraded"
         /\ last.at <= ledger.at /\ ledger.at <= now
         /\ pc \in Applying => last.at <= attempted
         /\ Open => /\ pc \in Serving => /\ policy.version = last.target
                                          /\ now + policy.span >= last.at + Window
                    /\ pc = "session" => gate.until >= last.at + Window
                    /\ pc \in {"closing", "handoff", "apply"} => target # last.target

LEMMA InitInv == Init => TypeOK /\ OverInv /\ FuseInv
<1> SUFFICES ASSUME Init
             PROVE  TypeOK /\ OverInv /\ FuseInv
    OBVIOUS
<1>1. 1 \in Versions
    BY UpgradeAssumption DEF Versions
<1>2. WorldType
    BY <1>1 DEF WorldType, Init
<1>3. SessionType
    BY DEF SessionType, NoGate, NoPolicy, Init
<1>4. AttemptType
    BY <1>1, UpgradeAssumption DEF AttemptType, Serving, Applying, Init
<1>5. OverInv /\ FuseInv
    BY DEF OverInv, FuseInv, Applying, Init
<1> QED
    BY <1>2, <1>3, <1>4, <1>5 DEF TypeOK

\* Every step keeps the types of what is not the daemon's.
LEMMA WorldStep == WorldType /\ [Next]_vars => WorldType'
<1> SUFFICES ASSUME WorldType, [Next]_vars
             PROVE  WorldType'
    OBVIOUS
<1> USE UpgradeAssumption
<1>1. CASE Tick
    BY <1>1 DEF WorldType, Tick, disk, session, attempt, manager, Versions
<1>2. CASE Publish
    BY <1>2 DEF WorldType, Publish, disk, session, attempt, manager, Versions
<1>3. CASE Swap
    BY <1>3 DEF WorldType, Swap, disk, session, attempt, manager, Versions
<1>4. CASE ManualUpgrade
    BY <1>4 DEF WorldType, ManualUpgrade, disk, session, attempt, manager, Versions
<1>5. CASE set_enabled
    BY <1>5 DEF WorldType, set_enabled, disk, session, attempt, manager, Versions
<1>6. CASE HardStop
    BY <1>6 DEF WorldType, HardStop, Dies, Exits, NoGate, NoPolicy, disk, session,
       attempt, manager, Versions
<1>7. CASE Kickstart
    BY <1>7 DEF WorldType, Kickstart, Dies, Exits, NoGate, NoPolicy, disk, session,
       attempt, manager, Versions
<1>8. CASE Crash
  <2>1. CASE orphan' = TRUE
    BY <1>8, <2>1 DEF WorldType, Crash, Dies, Exits, NoGate, NoPolicy, disk, session,
       attempt, manager, Versions
  <2>2. CASE UNCHANGED orphan
    BY <1>8, <2>2 DEF WorldType, Crash, Dies, Exits, NoGate, NoPolicy, disk, session,
       attempt, manager, Versions
  <2> QED
    BY <1>8, <2>1, <2>2 DEF Crash, Dies
<1>9. CASE Pause
    BY <1>9 DEF WorldType, Pause, Term, Exits, NoGate, NoPolicy, disk, session, attempt,
       manager, Versions
<1>10. CASE Restart
    BY <1>10 DEF WorldType, Restart, Term, Exits, NoGate, NoPolicy, disk, session,
       attempt, manager, Versions
<1>11. CASE Launch \/ BeginRun \/ SessionClosed \/ Handoff
    BY <1>11 DEF WorldType, Launch, BeginRun, Suppression, Age, NoGate, NoPolicy,
       SessionClosed, Handoff, disk, session, attempt, manager, Versions
<1>12. CASE Decline \/ Start \/ RefreshTap \/ BoundExpires
    BY <1>12 DEF WorldType, Decline, Writes, Rejection, Newer, Start, RefreshTap, refresh_homebrew_tap,
       BoundExpires, disk, session, attempt, manager, Versions
<1>13. CASE Record \/ Settle \/ Stopped \/ PollFlag
    BY <1>13 DEF WorldType, Record, Writes, Exits, NoGate, NoPolicy, Settle, Stopped,
       PollFlag, disk, session, attempt, manager, Versions
<1>14. CASE Unreachable \/ Connect \/ LoseSocket \/ RunEnds
    BY <1>14 DEF WorldType, Unreachable, Exits, NoGate, NoPolicy, Connect, LoseSocket,
       RunEnds, disk, session, attempt, manager, Versions
<1>15. CASE (\E t \in Targets : announce(t)) \/ mark_busy \/ BecomeIdle \/ ObserveGate
    BY <1>15 DEF WorldType, announce, mark_busy, BecomeIdle, ObserveGate, Eligible,
       IdleSince, NoGate, NoPolicy, disk, session, attempt, manager, Versions
<1>16. CASE PackageReturns \/ Resume \/ OrphanEnds \/ UNCHANGED vars
    BY <1>16 DEF WorldType, PackageReturns, installed_version, Resume, OrphanEnds, vars, disk, session,
       attempt, manager, Versions
<1> QED
    BY <1>1, <1>2, <1>3, <1>4, <1>5, <1>6, <1>7, <1>8, <1>9, <1>10, <1>11, <1>12, <1>13,
       <1>14, <1>15, <1>16 DEF Next, Daemon, World

\* Every step keeps the types of the run's policy and the session's gate.
LEMMA SessionStep == WorldType /\ SessionType /\ AttemptType /\ [Next]_vars => SessionType'
<1> SUFFICES ASSUME WorldType, SessionType, AttemptType, [Next]_vars
             PROVE  SessionType'
    OBVIOUS
<1> USE UpgradeAssumption
<1>1. CASE Launch
    BY <1>1 DEF SessionType, WorldType, Launch, disk, session, attempt, manager
<1>2. CASE PollFlag
    BY <1>2 DEF SessionType, WorldType, PollFlag, disk, session, attempt, manager
<1>3. CASE BeginRun
    BY <1>3 DEF SessionType, WorldType, AttemptType, BeginRun, Suppression, Age, NoGate,
       NoPolicy, disk, session, attempt, manager
<1>4. CASE Connect
    BY <1>4 DEF SessionType, WorldType, Connect, NoGate, NoPolicy, disk, session,
       attempt, manager
<1>5. CASE \E t \in Targets : announce(t)
  <2> PICK t \in Targets : announce(t)
    BY <1>5
  <2> QED
    BY DEF SessionType, announce, disk, session, attempt, manager
<1>6. CASE mark_busy
    BY <1>6 DEF SessionType, mark_busy, disk, session, attempt, manager
<1>7. CASE ObserveGate
    BY <1>7 DEF SessionType, WorldType, ObserveGate, Eligible, IdleSince, NoGate,
       NoPolicy, disk, session, attempt, manager
<1>8. CASE LoseSocket
    BY <1>8 DEF SessionType, LoseSocket, NoGate, NoPolicy, disk, session, attempt,
       manager
<1>9. CASE Unreachable
    BY <1>9 DEF SessionType, Unreachable, Exits, NoGate, NoPolicy, disk, session,
       attempt, manager
<1>10. CASE RunEnds
    BY <1>10 DEF SessionType, RunEnds, Exits, NoGate, NoPolicy, disk, session, attempt,
       manager
<1>11. CASE Record
  <2>1. CASE Exits /\ Writes(outcome)
    BY <1>11, <2>1 DEF SessionType, Record, Writes, Exits, NoGate, NoPolicy, disk,
       session, attempt, manager
  <2>2. CASE Exits /\ UNCHANGED <<ledger, last>>
    BY <1>11, <2>2 DEF SessionType, Record, Writes, Exits, NoGate, NoPolicy, disk,
       session, attempt, manager
  <2>3. CASE pc' = "settle" /\ UNCHANGED <<session, attempt, over>> /\ Writes(outcome)
    BY <1>11, <2>3 DEF SessionType, Record, Writes, Exits, NoGate, NoPolicy, disk,
       session, attempt, manager
  <2>4. CASE pc' = "settle" /\ UNCHANGED <<session, attempt, over>> /\ UNCHANGED <<ledger, last>>
    BY <1>11, <2>4 DEF SessionType, Record, Writes, Exits, NoGate, NoPolicy, disk,
       session, attempt, manager
  <2> QED
    BY <1>11, <2>1, <2>2, <2>3, <2>4 DEF Record
<1>12. CASE Settle
  <2>1. CASE Exits
    BY <1>12, <2>1 DEF SessionType, Settle, Exits, NoGate, NoPolicy, disk, session,
       attempt, manager
  <2>2. CASE UNCHANGED <<session, terminate, over>>
    BY <1>12, <2>2 DEF SessionType, Settle, Exits, NoGate, NoPolicy, disk, session,
       attempt, manager
  <2> QED
    BY <1>12, <2>1, <2>2 DEF Settle
<1>13. CASE HardStop
    BY <1>13 DEF SessionType, HardStop, Dies, Exits, NoGate, NoPolicy, disk, session,
       attempt, manager
<1>14. CASE Kickstart
    BY <1>14 DEF SessionType, Kickstart, Dies, Exits, NoGate, NoPolicy, disk, session,
       attempt, manager
<1>15. CASE Crash
    BY <1>15 DEF SessionType, Crash, Dies, Exits, NoGate, NoPolicy, disk, session,
       attempt, manager
<1>16. CASE Pause
  <2>1. CASE Exits
    BY <1>16, <2>1 DEF SessionType, Pause, Term, Exits, NoGate, NoPolicy, disk, session,
       attempt, manager
  <2>2. CASE pc \in Applying /\ terminate' = TRUE /\ over' = TRUE /\ UNCHANGED <<pc, session, target, attempted, latest, outcome>>
    BY <1>16, <2>2 DEF SessionType, Pause, Term, Exits, NoGate, NoPolicy, disk, session,
       attempt, manager
  <2>3. CASE UNCHANGED <<pc, session, attempt, over>>
    BY <1>16, <2>3 DEF SessionType, Pause, Term, Exits, NoGate, NoPolicy, disk, session,
       attempt, manager
  <2> QED
    BY <1>16, <2>1, <2>2, <2>3 DEF Pause, Term
<1>17. CASE Restart
  <2>1. CASE Exits
    BY <1>17, <2>1 DEF SessionType, Restart, Term, Exits, NoGate, NoPolicy, disk,
       session, attempt, manager
  <2>2. CASE pc \in Applying /\ terminate' = TRUE /\ over' = TRUE /\ UNCHANGED <<pc, session, target, attempted, latest, outcome>>
    BY <1>17, <2>2 DEF SessionType, Restart, Term, Exits, NoGate, NoPolicy, disk,
       session, attempt, manager
  <2>3. CASE UNCHANGED <<pc, session, attempt, over>>
    BY <1>17, <2>3 DEF SessionType, Restart, Term, Exits, NoGate, NoPolicy, disk,
       session, attempt, manager
  <2> QED
    BY <1>17, <2>1, <2>2, <2>3 DEF Restart, Term
<1>18. CASE SessionClosed \/ Handoff \/ Decline \/ Start
    BY <1>18 DEF SessionType, SessionClosed, Handoff, Decline, Writes, Rejection, Newer,
       Start, disk, session, attempt, manager
<1>19. CASE RefreshTap \/ BoundExpires \/ Stopped \/ BecomeIdle
    BY <1>19 DEF SessionType, RefreshTap, refresh_homebrew_tap, BoundExpires, Stopped, BecomeIdle, disk,
       session, attempt, manager
<1>20. CASE Swap \/ PackageReturns \/ Resume \/ OrphanEnds
    BY <1>20 DEF SessionType, Swap, PackageReturns, installed_version, Resume, OrphanEnds, disk, session,
       attempt, manager
<1>21. CASE set_enabled \/ ManualUpgrade \/ Publish \/ Tick \/ UNCHANGED vars
    BY <1>21 DEF SessionType, set_enabled, ManualUpgrade, Publish, Tick, vars, disk,
       session, attempt, manager
<1> QED
    BY <1>1, <1>2, <1>3, <1>4, <1>5, <1>6, <1>7, <1>8, <1>9, <1>10, <1>11, <1>12, <1>13,
       <1>14, <1>15, <1>16, <1>17, <1>18, <1>19, <1>20, <1>21 DEF Next, Daemon, World

\* Every step keeps the types of the attempt and the ledger.
LEMMA AttemptStep == WorldType /\ SessionType /\ AttemptType /\ [Next]_vars => AttemptType'
<1> SUFFICES ASSUME WorldType, SessionType, AttemptType, [Next]_vars
             PROVE  AttemptType'
    OBVIOUS
<1> USE UpgradeAssumption
<1>1. CASE Launch
    BY <1>1 DEF AttemptType, WorldType, Launch, disk, session, attempt, manager,
       Serving, Applying, Outcomes
<1>2. CASE \E t \in Targets : announce(t)
  <2> PICK t \in Targets : announce(t)
    BY <1>2
  <2> QED
    BY DEF AttemptType, announce, disk, session, attempt, manager, Serving, Applying,
       Outcomes
<1>3. CASE BeginRun
    BY <1>3 DEF AttemptType, BeginRun, Suppression, Age, NoGate, NoPolicy, disk,
       session, attempt, manager, Serving, Applying, Outcomes
<1>4. CASE SessionClosed
    BY <1>4 DEF AttemptType, SessionClosed, disk, session, attempt, manager, Serving,
       Applying, Outcomes
<1>5. CASE Connect
    BY <1>5 DEF AttemptType, Connect, NoGate, NoPolicy, disk, session, attempt, manager,
       Serving, Applying, Outcomes
<1>6. CASE LoseSocket
    BY <1>6 DEF AttemptType, LoseSocket, NoGate, NoPolicy, disk, session, attempt,
       manager, Serving, Applying, Outcomes
<1>7. CASE ObserveGate
    BY <1>7 DEF AttemptType, SessionType, ObserveGate, Eligible, IdleSince, NoGate,
       NoPolicy, disk, session, attempt, manager, Serving, Applying, Outcomes
<1>8. CASE Handoff
    BY <1>8 DEF AttemptType, WorldType, Handoff, disk, session, attempt, manager,
       Serving, Applying, Outcomes
<1>9. CASE Decline
    BY <1>9 DEF AttemptType, WorldType, Decline, Writes, Rejection, Newer, disk,
       session, attempt, manager, Serving, Applying, Outcomes
<1>10. CASE Start
    BY <1>10 DEF AttemptType, WorldType, Start, Newer, disk, session, attempt, manager,
       Serving, Applying, Outcomes
<1>11. CASE RefreshTap
  <2>1. CASE latest' = running
    BY <1>11, <2>1 DEF AttemptType, WorldType, RefreshTap, refresh_homebrew_tap, disk, session, attempt,
       manager, Serving, Applying, Outcomes
  <2>2. CASE latest' # running
    BY <1>11, <2>2 DEF AttemptType, WorldType, RefreshTap, refresh_homebrew_tap, disk, session, attempt,
       manager, Serving, Applying, Outcomes
  <2> QED
    BY <1>11, <2>1, <2>2
<1>12. CASE PackageReturns
  <2>1. CASE outcome' = "upgraded"
    BY <1>12, <2>1 DEF AttemptType, PackageReturns, installed_version, disk, session, attempt, manager,
       Serving, Applying, Outcomes
  <2>2. CASE outcome' = "failed"
    BY <1>12, <2>2 DEF AttemptType, PackageReturns, installed_version, disk, session, attempt, manager,
       Serving, Applying, Outcomes
  <2>3. CASE outcome' = "already-current"
    BY <1>12, <2>3 DEF AttemptType, PackageReturns, installed_version, disk, session, attempt, manager,
       Serving, Applying, Outcomes
  <2> QED
    BY <1>12, <2>1, <2>2, <2>3 DEF PackageReturns, installed_version, upgrade_outcome
<1>13. CASE BoundExpires
    BY <1>13 DEF AttemptType, BoundExpires, disk, session, attempt, manager, Serving,
       Applying, Outcomes
<1>14. CASE Record
  <2>1. CASE Exits /\ Writes(outcome)
    BY <1>14, <2>1 DEF AttemptType, WorldType, Record, Writes, Exits, NoGate, NoPolicy,
       disk, session, attempt, manager, Serving, Applying, Outcomes
  <2>2. CASE Exits /\ UNCHANGED <<ledger, last>>
    BY <1>14, <2>2 DEF AttemptType, WorldType, Record, Writes, Exits, NoGate, NoPolicy,
       disk, session, attempt, manager, Serving, Applying, Outcomes
  <2>3. CASE pc' = "settle" /\ UNCHANGED <<session, attempt, over>> /\ Writes(outcome)
    BY <1>14, <2>3 DEF AttemptType, WorldType, Record, Writes, Exits, NoGate, NoPolicy,
       disk, session, attempt, manager, Serving, Applying, Outcomes
  <2>4. CASE pc' = "settle" /\ UNCHANGED <<session, attempt, over>> /\ UNCHANGED <<ledger, last>>
    BY <1>14, <2>4 DEF AttemptType, WorldType, Record, Writes, Exits, NoGate, NoPolicy,
       disk, session, attempt, manager, Serving, Applying, Outcomes
  <2> QED
    BY <1>14, <2>1, <2>2, <2>3, <2>4 DEF Record
<1>15. CASE Settle
    BY <1>15 DEF AttemptType, Settle, Exits, NoGate, NoPolicy, disk, session, attempt,
       manager, Serving, Applying, Outcomes
<1>16. CASE Unreachable
    BY <1>16 DEF AttemptType, Unreachable, Exits, NoGate, NoPolicy, disk, session,
       attempt, manager, Serving, Applying, Outcomes
<1>17. CASE RunEnds
    BY <1>17 DEF AttemptType, RunEnds, Exits, NoGate, NoPolicy, disk, session, attempt,
       manager, Serving, Applying, Outcomes
<1>18. CASE HardStop
    BY <1>18 DEF AttemptType, HardStop, Dies, Exits, NoGate, NoPolicy, disk, session,
       attempt, manager, Serving, Applying, Outcomes
<1>19. CASE Kickstart
    BY <1>19 DEF AttemptType, Kickstart, Dies, Exits, NoGate, NoPolicy, disk, session,
       attempt, manager, Serving, Applying, Outcomes
<1>20. CASE Crash
    BY <1>20 DEF AttemptType, Crash, Dies, Exits, NoGate, NoPolicy, disk, session,
       attempt, manager, Serving, Applying, Outcomes
<1>21. CASE Pause
    BY <1>21 DEF AttemptType, Pause, Term, Exits, NoGate, NoPolicy, disk, session,
       attempt, manager, Serving, Applying, Outcomes
<1>22. CASE Restart
    BY <1>22 DEF AttemptType, Restart, Term, Exits, NoGate, NoPolicy, disk, session,
       attempt, manager, Serving, Applying, Outcomes
<1>23. CASE Stopped \/ PollFlag \/ mark_busy \/ BecomeIdle
    BY <1>23 DEF AttemptType, Stopped, PollFlag, mark_busy, BecomeIdle, disk, session,
       attempt, manager, Serving, Applying, Outcomes
<1>24. CASE Swap \/ Resume \/ OrphanEnds \/ set_enabled
    BY <1>24 DEF AttemptType, Swap, Resume, OrphanEnds, set_enabled, disk, session,
       attempt, manager, Serving, Applying, Outcomes
<1>25. CASE ManualUpgrade \/ Publish \/ Tick \/ UNCHANGED vars
    BY <1>25 DEF AttemptType, ManualUpgrade, Publish, Tick, vars, disk, session,
       attempt, manager, Serving, Applying, Outcomes
<1> QED
    BY <1>1, <1>2, <1>3, <1>4, <1>5, <1>6, <1>7, <1>8, <1>9, <1>10, <1>11, <1>12, <1>13,
       <1>14, <1>15, <1>16, <1>17, <1>18, <1>19, <1>20, <1>21, <1>22, <1>23, <1>24,
       <1>25 DEF Next, Daemon, World

LEMMA TypeStep == TypeOK /\ [Next]_vars => TypeOK'
    BY WorldStep, SessionStep, AttemptStep DEF TypeOK

\* Every step keeps the reason why the process is over where its end will see it.
LEMMA OverStep == AttemptType /\ OverInv /\ [Next]_vars => OverInv'
<1> SUFFICES ASSUME AttemptType, OverInv, [Next]_vars
             PROVE  OverInv'
    OBVIOUS
<1> USE UpgradeAssumption
<1>1. CASE Launch
    BY <1>1 DEF OverInv, Launch, disk, session, attempt, manager, Serving, Applying
<1>2. CASE BeginRun
    BY <1>2 DEF OverInv, BeginRun, Suppression, Age, NoGate, NoPolicy, disk, session,
       attempt, manager, Serving, Applying
<1>3. CASE SessionClosed
    BY <1>3 DEF OverInv, SessionClosed, disk, session, attempt, manager, Serving,
       Applying
<1>4. CASE Connect
    BY <1>4 DEF OverInv, Connect, NoGate, NoPolicy, disk, session, attempt, manager,
       Serving, Applying
<1>5. CASE LoseSocket
    BY <1>5 DEF OverInv, LoseSocket, NoGate, NoPolicy, disk, session, attempt, manager,
       Serving, Applying
<1>6. CASE ObserveGate
    BY <1>6 DEF OverInv, ObserveGate, Eligible, IdleSince, NoGate, NoPolicy, disk,
       session, attempt, manager, Serving, Applying
<1>7. CASE Handoff
    BY <1>7 DEF OverInv, Handoff, disk, session, attempt, manager, Serving, Applying
<1>8. CASE Decline
    BY <1>8 DEF OverInv, Decline, Writes, Rejection, Newer, disk, session, attempt,
       manager, Serving, Applying
<1>9. CASE Start
    BY <1>9 DEF OverInv, Start, Newer, disk, session, attempt, manager, Serving,
       Applying
<1>10. CASE RefreshTap
    BY <1>10 DEF OverInv, RefreshTap, refresh_homebrew_tap, disk, session, attempt, manager, Serving, Applying
<1>11. CASE PackageReturns
    BY <1>11 DEF OverInv, PackageReturns, installed_version, disk, session, attempt, manager, Serving,
       Applying
<1>12. CASE BoundExpires
    BY <1>12 DEF OverInv, BoundExpires, disk, session, attempt, manager, Serving,
       Applying
<1>13. CASE Record
    BY <1>13 DEF OverInv, Record, Writes, Exits, NoGate, NoPolicy, disk, session,
       attempt, manager, Serving, Applying
<1>14. CASE Settle
    BY <1>14 DEF OverInv, Settle, Exits, NoGate, NoPolicy, disk, session, attempt,
       manager, Serving, Applying
<1>15. CASE Unreachable
    BY <1>15 DEF OverInv, Unreachable, Exits, NoGate, NoPolicy, disk, session, attempt,
       manager, Serving, Applying
<1>16. CASE RunEnds
    BY <1>16 DEF OverInv, RunEnds, Exits, NoGate, NoPolicy, disk, session, attempt,
       manager, Serving, Applying
<1>17. CASE HardStop
    BY <1>17 DEF OverInv, HardStop, Dies, Exits, NoGate, NoPolicy, disk, session,
       attempt, manager, Serving, Applying
<1>18. CASE Kickstart
    BY <1>18 DEF OverInv, Kickstart, Dies, Exits, NoGate, NoPolicy, disk, session,
       attempt, manager, Serving, Applying
<1>19. CASE Crash
    BY <1>19 DEF OverInv, Crash, Dies, Exits, NoGate, NoPolicy, disk, session, attempt,
       manager, Serving, Applying
<1>20. CASE Pause
  <2>1. CASE Exits
    BY <1>20, <2>1 DEF OverInv, Pause, Term, Exits, NoGate, NoPolicy, disk, session,
       attempt, manager, Serving, Applying
  <2>2. CASE pc \in Applying /\ terminate' = TRUE /\ over' = TRUE /\ UNCHANGED <<pc, session, target, attempted, latest, outcome>>
    BY <1>20, <2>2 DEF OverInv, Pause, Term, Exits, NoGate, NoPolicy, disk, session,
       attempt, manager, Serving, Applying
  <2>3. CASE UNCHANGED <<pc, session, attempt, over>>
    BY <1>20, <2>3 DEF OverInv, Pause, Term, Exits, NoGate, NoPolicy, disk, session,
       attempt, manager, Serving, Applying
  <2> QED
    BY <1>20, <2>1, <2>2, <2>3 DEF Pause, Term
<1>21. CASE Restart
  <2>1. CASE Exits
    BY <1>21, <2>1 DEF OverInv, Restart, Term, Exits, NoGate, NoPolicy, disk, session,
       attempt, manager, Serving, Applying
  <2>2. CASE pc \in Applying /\ terminate' = TRUE /\ over' = TRUE /\ UNCHANGED <<pc, session, target, attempted, latest, outcome>>
    BY <1>21, <2>2 DEF OverInv, Restart, Term, Exits, NoGate, NoPolicy, disk, session,
       attempt, manager, Serving, Applying
  <2>3. CASE UNCHANGED <<pc, session, attempt, over>>
    BY <1>21, <2>3 DEF OverInv, Restart, Term, Exits, NoGate, NoPolicy, disk, session,
       attempt, manager, Serving, Applying
  <2> QED
    BY <1>21, <2>1, <2>2, <2>3 DEF Restart, Term
<1>22. CASE Stopped \/ PollFlag \/ (\E t \in Targets : announce(t)) \/ mark_busy
    BY <1>22 DEF OverInv, Stopped, PollFlag, announce, mark_busy, disk, session,
       attempt, manager, Serving, Applying
<1>23. CASE BecomeIdle \/ Swap \/ Resume \/ OrphanEnds
    BY <1>23 DEF OverInv, BecomeIdle, Swap, Resume, OrphanEnds, disk, session, attempt,
       manager, Serving, Applying
<1>24. CASE set_enabled \/ ManualUpgrade \/ Publish \/ Tick \/ UNCHANGED vars
    BY <1>24 DEF OverInv, set_enabled, ManualUpgrade, Publish, Tick, vars, disk,
       session, attempt, manager, Serving, Applying
<1> QED
    BY <1>1, <1>2, <1>3, <1>4, <1>5, <1>6, <1>7, <1>8, <1>9, <1>10, <1>11, <1>12, <1>13,
       <1>14, <1>15, <1>16, <1>17, <1>18, <1>19, <1>20, <1>21, <1>22, <1>23, <1>24 DEF
       Next, Daemon, World

\* Every step keeps the fuse burnt, or the window over.
LEMMA FuseStep == WorldType /\ SessionType /\ AttemptType /\ FuseInv /\ [Next]_vars => FuseInv'
<1> SUFFICES ASSUME WorldType, SessionType, AttemptType, FuseInv, [Next]_vars
             PROVE  FuseInv'
    OBVIOUS
<1> USE UpgradeAssumption
<1>1. CASE Launch
    BY <1>1 DEF WorldType, SessionType, AttemptType, FuseInv, Open, Applying, Launch,
       disk, session, attempt, manager, Serving
<1>2. CASE BeginRun
    BY <1>2 DEF WorldType, SessionType, AttemptType, FuseInv, Open, Applying, BeginRun,
       Suppression, Age, NoGate, NoPolicy, disk, session, attempt, manager, Serving
<1>3. CASE SessionClosed
    BY <1>3 DEF WorldType, SessionType, AttemptType, FuseInv, Open, Applying,
       SessionClosed, disk, session, attempt, manager, Serving
<1>4. CASE Connect
    BY <1>4 DEF WorldType, SessionType, AttemptType, FuseInv, Open, Applying, Connect,
       NoGate, NoPolicy, disk, session, attempt, manager, Serving
<1>5. CASE LoseSocket
    BY <1>5 DEF WorldType, SessionType, AttemptType, FuseInv, Open, Applying,
       LoseSocket, NoGate, NoPolicy, disk, session, attempt, manager, Serving
<1>6. CASE \E t \in Targets : announce(t)
  <2> PICK t \in Targets : announce(t)
    BY <1>6
  <2> QED
    BY DEF WorldType, SessionType, AttemptType, FuseInv, Open, Applying, announce, disk,
       session, attempt, manager, Serving
<1>7. CASE mark_busy
    BY <1>7 DEF WorldType, SessionType, AttemptType, FuseInv, Open, Applying, mark_busy,
       disk, session, attempt, manager, Serving
<1>8. CASE ObserveGate
    BY <1>8 DEF WorldType, SessionType, AttemptType, FuseInv, Open, Applying,
       ObserveGate, Eligible, IdleSince, NoGate, NoPolicy, disk, session, attempt,
       manager, Serving
<1>9. CASE Handoff
    BY <1>9 DEF WorldType, SessionType, AttemptType, FuseInv, Open, Applying, Handoff,
       disk, session, attempt, manager, Serving
<1>10. CASE Decline
  <2>1. CASE Writes(Rejection)
    BY <1>10, <2>1 DEF WorldType, SessionType, AttemptType, FuseInv, Open, Applying,
       Outcomes, Decline, Writes, Rejection, Newer, disk, session, attempt, manager,
       Serving
  <2>2. CASE UNCHANGED <<ledger, last>>
    BY <1>10, <2>2 DEF WorldType, SessionType, AttemptType, FuseInv, Open, Applying,
       Outcomes, Decline, Writes, Rejection, Newer, disk, session, attempt, manager,
       Serving
  <2> QED
    BY <1>10, <2>1, <2>2 DEF Decline
<1>11. CASE Start
  <2>1. CASE pc' = "tap"
    <3>1. target \in Targets /\ attempted \in Nat
      BY <1>11, <2>1 DEF Start, AttemptType, Applying
    <3>2. ledger' # None /\ ledger'.outcome # "upgraded"
      BY <1>11, <2>1, <3>1 DEF Start, Outcomes
    <3> QED
      BY <1>11, <2>1, <3>1, <3>2 DEF WorldType, SessionType, AttemptType, FuseInv, Open,
       Applying, Outcomes, Start, Newer, disk, session, attempt, manager, Serving
  <2>2. CASE pc' = "settle" /\ UNCHANGED <<ledger, last>>
    BY <1>11, <2>2 DEF WorldType, SessionType, AttemptType, FuseInv, Open, Applying,
       Outcomes, Start, Newer, disk, session, attempt, manager, Serving
  <2> QED
    BY <1>11, <2>1, <2>2 DEF Start
<1>12. CASE RefreshTap
    BY <1>12 DEF WorldType, SessionType, AttemptType, FuseInv, Open, Applying,
       RefreshTap, refresh_homebrew_tap, disk, session, attempt, manager, Serving
<1>13. CASE PackageReturns
    BY <1>13 DEF WorldType, SessionType, AttemptType, FuseInv, Open, Applying,
       PackageReturns, installed_version, disk, session, attempt, manager, Serving
<1>14. CASE BoundExpires
    BY <1>14 DEF WorldType, SessionType, AttemptType, FuseInv, Open, Applying,
       BoundExpires, disk, session, attempt, manager, Serving
<1>15. CASE Record
    BY <1>15 DEF WorldType, SessionType, AttemptType, FuseInv, Open, Applying, Outcomes,
       Record, Writes, Exits, NoGate, NoPolicy, disk, session, attempt, manager, Serving
<1>16. CASE Settle
    BY <1>16 DEF WorldType, SessionType, AttemptType, FuseInv, Open, Applying, Settle,
       Exits, NoGate, NoPolicy, disk, session, attempt, manager, Serving
<1>17. CASE Unreachable
    BY <1>17 DEF WorldType, SessionType, AttemptType, FuseInv, Open, Applying,
       Unreachable, Exits, NoGate, NoPolicy, disk, session, attempt, manager, Serving
<1>18. CASE RunEnds
    BY <1>18 DEF WorldType, SessionType, AttemptType, FuseInv, Open, Applying, RunEnds,
       Exits, NoGate, NoPolicy, disk, session, attempt, manager, Serving
<1>19. CASE HardStop
    BY <1>19 DEF WorldType, SessionType, AttemptType, FuseInv, Open, Applying, HardStop,
       Dies, Exits, NoGate, NoPolicy, disk, session, attempt, manager, Serving
<1>20. CASE Kickstart
    BY <1>20 DEF WorldType, SessionType, AttemptType, FuseInv, Open, Applying,
       Kickstart, Dies, Exits, NoGate, NoPolicy, disk, session, attempt, manager,
       Serving
<1>21. CASE Crash
    BY <1>21 DEF WorldType, SessionType, AttemptType, FuseInv, Open, Applying, Crash,
       Dies, Exits, NoGate, NoPolicy, disk, session, attempt, manager, Serving
<1>22. CASE Pause
    BY <1>22 DEF WorldType, SessionType, AttemptType, FuseInv, Open, Applying, Pause,
       Term, Exits, NoGate, NoPolicy, disk, session, attempt, manager, Serving
<1>23. CASE Restart
    BY <1>23 DEF WorldType, SessionType, AttemptType, FuseInv, Open, Applying, Restart,
       Term, Exits, NoGate, NoPolicy, disk, session, attempt, manager, Serving
<1>24. CASE Tick
    BY <1>24 DEF WorldType, SessionType, AttemptType, FuseInv, Open, Applying, Tick,
       disk, session, attempt, manager, Serving
<1>25. CASE Stopped \/ PollFlag \/ BecomeIdle \/ Swap
    BY <1>25 DEF WorldType, SessionType, AttemptType, FuseInv, Open, Applying, Stopped,
       PollFlag, BecomeIdle, Swap, disk, session, attempt, manager, Serving
<1>26. CASE Resume \/ OrphanEnds \/ set_enabled \/ ManualUpgrade
    BY <1>26 DEF WorldType, SessionType, AttemptType, FuseInv, Open, Applying, Resume,
       OrphanEnds, set_enabled, ManualUpgrade, disk, session, attempt, manager, Serving
<1>27. CASE Publish \/ UNCHANGED vars
    BY <1>27 DEF WorldType, SessionType, AttemptType, FuseInv, Open, Applying, Publish,
       vars, disk, session, attempt, manager, Serving
<1> QED
    BY <1>1, <1>2, <1>3, <1>4, <1>5, <1>6, <1>7, <1>8, <1>9, <1>10, <1>11, <1>12, <1>13,
       <1>14, <1>15, <1>16, <1>17, <1>18, <1>19, <1>20, <1>21, <1>22, <1>23, <1>24,
       <1>25, <1>26, <1>27 DEF Next, Daemon, World

(* The types, for every value of the constants. *)
THEOREM UpgradeTypeCorrect == Spec => []TypeOK
<1>1. Init => TypeOK
    BY InitInv
<1>2. TypeOK /\ [Next]_vars => TypeOK'
    BY TypeStep
<1> QED
    BY <1>1, <1>2, PTL DEF Spec

(* No process goes back to dispatch after the package manager reported a     *)
(* changed binary to it, or it heard a stop while an upgrade ran: Settle and *)
(* Record, the only ways out of an attempt, both see it.                     *)
THEOREM NeverReconnectsHolds == Spec => []NeverReconnects
<1>1. Init => TypeOK /\ OverInv
    BY InitInv
<1>2. TypeOK /\ OverInv /\ [Next]_vars => (TypeOK /\ OverInv)'
    BY TypeStep, OverStep DEF TypeOK
<1>3. OverInv => NeverReconnects
    BY DEF OverInv, NeverReconnects, Serving, Applying
<1> QED
    BY <1>1, <1>2, <1>3, PTL DEF Spec

\* A transaction begins only in Start, whose target the fuse has let through.
LEMMA FuseIsAsked ==
    TypeOK /\ FuseInv /\ [Next]_vars
      => (pc = "apply" /\ pc' = "tap" /\ last # None /\ last.target = target
            => now - last.at >= Window)
<1> SUFFICES ASSUME TypeOK, FuseInv, pc = "apply", last # None, last.target = target
             PROVE  now - last.at >= Window
    OBVIOUS
<1> QED
    BY UpgradeAssumption DEF TypeOK, WorldType, AttemptType, FuseInv, Open

(* The crash-loop fuse, through any crashes, stops, reconnects, refused      *)
(* ledger writes and hung or orphaned package managers.                      *)
THEOREM AttemptsSpacedHolds == Spec => AttemptsSpaced
<1>1. Init => TypeOK /\ FuseInv
    BY InitInv
<1>2. TypeOK /\ FuseInv /\ [Next]_vars => (TypeOK /\ FuseInv)'
    BY TypeStep, FuseStep DEF TypeOK
<1>3. TypeOK /\ FuseInv /\ [Next]_vars
        => [pc = "apply" /\ pc' = "tap" /\ last # None /\ last.target = target
              => now - last.at >= Window]_vars
    BY FuseIsAsked
<1> QED
    BY <1>1, <1>2, <1>3, PTL DEF Spec, AttemptsSpaced
=============================================================================
