------------------------------ MODULE NodeProofs ------------------------------
(* Theorems about NodeControl, for every set of tokens, any number of        *)
(* releases and both service managers.                                       *)
EXTENDS NodeControl, TLAPS

(* What the files, the manager and the process owe each other whatever step  *)
(* of a command comes next: launchd keeps up what it has loaded and nothing  *)
(* is enabled there; a process that is not wanted is leaving; a daemon       *)
(* without a unit file survived an uninstall that failed to stop it.         *)
PartiesAgree ==
  /\ manager = "launchd" => (known <=> wants) /\ ~link
  /\ leaving => proc # "down"
  /\ proc # "down" /\ ~leaving => wants
  /\ ~unit /\ wants => survivor

(* What each step of a command may rely on from the steps before it.         *)
StepsInOrder ==
  /\ pc \in {"bootstrap", "reload", "enable"} => unit
  /\ pc \in {"unload", "bootstrap"} => manager = "launchd"
  /\ pc \in {"reload", "enable", "forget"} => manager = "systemd"
  /\ pc = "remove" /\ wants => survivor
  /\ pc = "forget" => ~unit

(* The binary only grows, so whatever was read from it is at most as new as  *)
(* it; the version line is at most as new as the process that is alive.      *)
VersionsOrdered ==
  /\ version <= binary /\ snap <= binary /\ own <= binary
  /\ assured <= binary /\ installed <= binary
  /\ proc # "down" => snap <= version

(* On launchd an install replaces whatever process was there.                *)
LaunchdInstallRestarts == manager = "launchd" => InstallRestarts

IInv ==
  /\ PartiesAgree
  /\ StepsInOrder
  /\ VersionsOrdered
  /\ TokenTakesEffect
  /\ UninstallIsFinal
  /\ PauseHolds
  /\ UpgradeReachesDaemon
  /\ LaunchdInstallRestarts

-----------------------------------------------------------------------------
(* What is true or false stays so; a proof of its own, for Zenon.             *)
LEMMA FlagsStay == FlagsOK /\ [Next]_vars => FlagsOK'
<1> SUFFICES ASSUME FlagsOK, [Next]_vars
             PROVE  FlagsOK'
  OBVIOUS
<1> USE DEF FlagsOK, nodeFiles, managerHolds, process, told, Becomes
<1>1. ASSUME NEW t \in Tokens, SaveToken(t) PROVE FlagsOK'
  BY <1>1, Zenon DEF SaveToken
<1>2. CASE ApplyToken
  BY <1>2, Zenon DEF ApplyToken, DaemonState, ManagerRestarts, ManagerStarts
<1>3. CASE Logout
  BY <1>3, Zenon DEF Logout
<1>4. CASE Install
  BY <1>4, Zenon DEF Install
<1>5. CASE UnloadFirst
  BY <1>5, Zenon DEF UnloadFirst, ManagerStops
<1>6. CASE WriteUnit
  BY <1>6, Zenon DEF WriteUnit
<1>7. CASE Bootstrap
  BY <1>7, Zenon DEF Bootstrap, ManagerStarts, ManagerStops, InService
<1>8. CASE ReloadUnits
  BY <1>8, Zenon DEF ReloadUnits
<1>9. CASE EnableNow
  BY <1>9, Zenon DEF EnableNow, ManagerStarts, InService
<1>10. CASE Uninstall
  BY <1>10, Zenon DEF Uninstall, StopForGood, ManagerStops
<1>11. CASE RemoveUnit
  BY <1>11, Zenon DEF RemoveUnit
<1>12. CASE Forget
  BY <1>12, Zenon DEF Forget
<1>13. CASE Pause
  BY <1>13, Zenon DEF Pause, ManagerStops
<1>14. CASE Resume
  BY <1>14, Zenon DEF Resume, ManagerStarts
<1>15. CASE Upgrade
  BY <1>15, Zenon DEF Upgrade
<1>16. CASE RunPackageManager
  BY <1>16, Zenon DEF RunPackageManager
<1>17. CASE LookAtDaemon
  BY <1>17, Zenon DEF LookAtDaemon, DaemonIsCurrent, VersionLine
<1>18. CASE RestartDaemon
  BY <1>18, Zenon DEF RestartDaemon, CanRestart, DaemonState, ManagerRestarts, ManagerStarts
<1>19. CASE Launch
  BY <1>19, Zenon DEF Launch
<1>20. CASE ReadToken
  BY <1>20, Zenon DEF ReadToken, ProcessEnds
<1>21. CASE WriteSnapshot
  BY <1>21, Zenon DEF WriteSnapshot
<1>22. CASE Exit
  BY <1>22, Zenon DEF Exit, ProcessEnds
<1>23. CASE SwapBinary
  BY <1>23, Zenon DEF SwapBinary
<1>24. CASE Interrupt
  BY <1>24, Zenon DEF Interrupt
<1>25. CASE Reboot
  BY <1>25, Zenon DEF Reboot
<1>26. CASE UNCHANGED vars
  BY <1>26, Zenon DEF vars
<1> QED
  BY <1>1, <1>2, <1>3, <1>4, <1>5, <1>6, <1>7, <1>8, <1>9, <1>10,
     <1>11, <1>12, <1>13, <1>14, <1>15, <1>16, <1>17, <1>18, <1>19,
     <1>20, <1>21, <1>22, <1>23, <1>24, <1>25, <1>26
     DEF Next, Command, Around

(* The parties keep their types.                                             *)
THEOREM NodeTypeCorrect == Spec => []TypeOK
<1>1. Init => TypeOK
  <2> SUFFICES ASSUME Init PROVE TypeOK
    OBVIOUS
  <2>1. FlagsOK
    BY Zenon DEF Init, FlagsOK
  <2> QED
    BY <2>1, ReleasesAreCounted DEF Init, TypeOK, Versions, Steps
<1>2. TypeOK /\ [Next]_vars => TypeOK'
  <2> SUFFICES ASSUME TypeOK, [Next]_vars
               PROVE  TypeOK'
    OBVIOUS
  <2>0. FlagsOK'
    BY FlagsStay DEF TypeOK
  <2> USE ReleasesAreCounted DEF TypeOK, Versions, Steps, nodeFiles, managerHolds,
        process, told, Becomes
  <2>1. ASSUME NEW t \in Tokens, SaveToken(t) PROVE TypeOK'
    BY <2>0, <2>1 DEF SaveToken
  <2>2. CASE ApplyToken
    BY <2>0, <2>2 DEF ApplyToken, DaemonState, ManagerRestarts, ManagerStarts
  <2>3. CASE Logout
    BY <2>0, <2>3 DEF Logout
  <2>4. CASE Install
    BY <2>0, <2>4 DEF Install
  <2>5. CASE UnloadFirst
    BY <2>0, <2>5 DEF UnloadFirst, ManagerStops
  <2>6. CASE WriteUnit
    BY <2>0, <2>6 DEF WriteUnit
  <2>7. CASE Bootstrap
    BY <2>0, <2>7 DEF Bootstrap, ManagerStarts, ManagerStops, InService
  <2>8. CASE ReloadUnits
    BY <2>0, <2>8 DEF ReloadUnits
  <2>9. CASE EnableNow
    BY <2>0, <2>9 DEF EnableNow, ManagerStarts, InService
  <2>10. CASE Uninstall
    BY <2>0, <2>10 DEF Uninstall, StopForGood, ManagerStops
  <2>11. CASE RemoveUnit
    BY <2>0, <2>11 DEF RemoveUnit
  <2>12. CASE Forget
    BY <2>0, <2>12 DEF Forget
  <2>13. CASE Pause
    BY <2>0, <2>13 DEF Pause, ManagerStops
  <2>14. CASE Resume
    BY <2>0, <2>14 DEF Resume, ManagerStarts
  <2>15. CASE Upgrade
    BY <2>0, <2>15 DEF Upgrade
  <2>16. CASE RunPackageManager
    BY <2>0, <2>16 DEF RunPackageManager
  <2>17. CASE LookAtDaemon
    BY <2>0, <2>17 DEF LookAtDaemon, DaemonIsCurrent, VersionLine
  <2>18. CASE RestartDaemon
    BY <2>0, <2>18 DEF RestartDaemon, CanRestart, DaemonState, ManagerRestarts, ManagerStarts
  <2>19. CASE Launch
    BY <2>0, <2>19 DEF Launch
  <2>20. CASE ReadToken
    BY <2>0, <2>20 DEF ReadToken, ProcessEnds
  <2>21. CASE WriteSnapshot
    BY <2>0, <2>21 DEF WriteSnapshot
  <2>22. CASE Exit
    BY <2>0, <2>22 DEF Exit, ProcessEnds
  <2>23. CASE SwapBinary
    BY <2>0, <2>23 DEF SwapBinary
  <2>24. CASE Interrupt
    BY <2>0, <2>24 DEF Interrupt
  <2>25. CASE Reboot
    BY <2>0, <2>25 DEF Reboot
  <2>26. CASE UNCHANGED vars
    BY <2>0, <2>26 DEF vars
  <2> QED
    BY <2>1, <2>2, <2>3, <2>4, <2>5, <2>6, <2>7, <2>8, <2>9, <2>10,
       <2>11, <2>12, <2>13, <2>14, <2>15, <2>16, <2>17, <2>18, <2>19,
       <2>20, <2>21, <2>22, <2>23, <2>24, <2>25, <2>26
       DEF Next, Command, Around
<1> QED
  BY <1>1, <1>2, PTL DEF Spec

(* The four promises of the commands, with what makes them inductive.        *)
THEOREM NodeInv == Spec => []IInv
<1>1. Init => IInv
  <2> SUFFICES ASSUME Init PROVE IInv
    OBVIOUS
  <2>1. PartiesAgree
    BY Zenon DEF Init, PartiesAgree
  <2>2. VersionsOrdered
    BY ReleasesAreCounted DEF Init, VersionsOrdered
  <2>3. StepsInOrder
    BY DEF Init, StepsInOrder
  <2>4. TokenTakesEffect /\ UninstallIsFinal /\ PauseHolds
    BY DEF Init, TokenTakesEffect, UninstallIsFinal, PauseHolds
  <2>5. UpgradeReachesDaemon /\ LaunchdInstallRestarts
    BY DEF Init, UpgradeReachesDaemon, LaunchdInstallRestarts, InstallRestarts
  <2> QED
    BY <2>1, <2>2, <2>3, <2>4, <2>5 DEF IInv
<1>2. TypeOK /\ IInv /\ [Next]_vars => IInv'
  <2> SUFFICES ASSUME TypeOK, IInv, [Next]_vars
               PROVE  IInv'
    OBVIOUS
  <2> USE ReleasesAreCounted
      DEF TypeOK, FlagsOK, Versions, Steps, nodeFiles, managerHolds, process, told, Becomes,
          IInv, PartiesAgree, StepsInOrder, VersionsOrdered, TokenTakesEffect,
          UninstallIsFinal, PauseHolds, UpgradeReachesDaemon,
          LaunchdInstallRestarts, InstallRestarts
  <2>1. ASSUME NEW t \in Tokens, SaveToken(t) PROVE IInv'
    BY <2>1 DEF SaveToken
  <2>2. CASE ApplyToken
    BY <2>2 DEF ApplyToken, DaemonState, ManagerRestarts, ManagerStarts
  <2>3. CASE Logout
    BY <2>3 DEF Logout
  <2>4. CASE Install
    BY <2>4 DEF Install
  <2>5. CASE UnloadFirst
    BY <2>5 DEF UnloadFirst, ManagerStops
  <2>6. CASE WriteUnit
    BY <2>6 DEF WriteUnit
  <2>7. CASE Bootstrap
    BY <2>7 DEF Bootstrap, ManagerStarts, ManagerStops, InService
  <2>8. CASE ReloadUnits
    BY <2>8 DEF ReloadUnits
  <2>9. CASE EnableNow
    BY <2>9 DEF EnableNow, ManagerStarts, InService
  <2>10. CASE Uninstall
    BY <2>10 DEF Uninstall, StopForGood, ManagerStops
  <2>11. CASE RemoveUnit
    BY <2>11 DEF RemoveUnit
  <2>12. CASE Forget
    BY <2>12 DEF Forget
  <2>13. CASE Pause
    BY <2>13 DEF Pause, ManagerStops
  <2>14. CASE Resume
    BY <2>14 DEF Resume, ManagerStarts
  <2>15. CASE Upgrade
    BY <2>15 DEF Upgrade
  <2>16. CASE RunPackageManager
    BY <2>16 DEF RunPackageManager
  <2>17. CASE LookAtDaemon
    BY <2>17 DEF LookAtDaemon, DaemonIsCurrent, VersionLine
  <2>18. CASE RestartDaemon
    BY <2>18 DEF RestartDaemon, CanRestart, DaemonState, ManagerRestarts, ManagerStarts
  <2>19. CASE Launch
    BY <2>19 DEF Launch
  <2>20. CASE ReadToken
    BY <2>20 DEF ReadToken, ProcessEnds
  <2>21. CASE WriteSnapshot
    BY <2>21 DEF WriteSnapshot
  <2>22. CASE Exit
    BY <2>22 DEF Exit, ProcessEnds
  <2>23. CASE SwapBinary
    BY <2>23 DEF SwapBinary
  <2>24. CASE Interrupt
    BY <2>24 DEF Interrupt
  <2>25. CASE Reboot
    BY <2>25 DEF Reboot
  <2>26. CASE UNCHANGED vars
    BY <2>26 DEF vars
  <2> QED
    BY <2>1, <2>2, <2>3, <2>4, <2>5, <2>6, <2>7, <2>8, <2>9, <2>10,
       <2>11, <2>12, <2>13, <2>14, <2>15, <2>16, <2>17, <2>18, <2>19,
       <2>20, <2>21, <2>22, <2>23, <2>24, <2>25, <2>26
       DEF Next, Command, Around
<1> QED
  BY <1>1, <1>2, NodeTypeCorrect, PTL DEF Spec

(* A process that stays has read the stored token, unless its login still    *)
(* has to restart it or could not.                                           *)
THEOREM TokenReachesDaemon == Spec => []TokenTakesEffect
BY NodeInv, PTL DEF IInv

(* An uninstalled daemon stays gone unless the manager refused to stop it.   *)
THEOREM UninstalledForGood == Spec => []UninstallIsFinal
BY NodeInv, PTL DEF IInv

(* Neither a login nor anything else but a resume, an install, an upgrade or *)
(* a restart of the machine starts a paused node.                            *)
THEOREM PausedStaysDown == Spec => []PauseHolds
BY NodeInv, PTL DEF IInv

(* No daemon stays that is older than `decent upgrade` said it is.           *)
THEOREM UpgradedDaemonRuns == Spec => []UpgradeReachesDaemon
BY NodeInv, PTL DEF IInv

(* What install promises holds of launchd, which unloads or boots out the    *)
(* running agent first.                                                      *)
THEOREM LaunchdInstalls == Spec => [](manager = "launchd" => InstallRestarts)
BY NodeInv, PTL DEF IInv, LaunchdInstallRestarts
=============================================================================
