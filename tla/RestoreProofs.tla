---------------------------- MODULE RestoreProofs ----------------------------
(* Proofs about RestoreJob, for any number of jobs, failures and deaths.      *)
EXTENDS RestoreJob, TLAPS

-----------------------------------------------------------------------------
(* What is at work.                                                         *)

GoingBackAt == {"undo", "back", "reopen", "restart", "close"}
InJob == Untouched \cup Stopped \cup Swapping \cup GoingBackAt \cup {"start", "completed", "manual"}
AtTool == {"stop"} \cup GoingBackAt
Phases == Recoverable \cup Closed \cup {"none", "resuming", "manual_recovery"}

ManagerAt == doing["manager"].at
ManagerJob == doing["manager"].job
ToolAt == doing["tool"].at
ToolJob == doing["tool"].job
Open(j) == job[j].phase \notin Closed \cup {"none"}

Papers ==
  /\ job \in [Jobs -> [phase : Phases, orig : Databases \cup {Absent}]]
  /\ lock \in {"none", "own", "dead"}
  /\ previous \in [Jobs -> Databases \cup {Absent}]
  /\ primary \in Databases \cup {Absent}
  /\ up \subseteq Services
  /\ record \in [phase : {"none", "active", "done"}, was : SUBSET Services]

Hands ==
  /\ doing \in [Processes -> [at : InJob \cup {"idle", "dead", "backup", "unlock"},
                              job : Jobs \cup {Absent}, back : BOOLEAN]]
  /\ ManagerAt # "unlock"
  /\ ManagerAt \in InJob => ManagerJob \in Jobs
  /\ ToolAt \in AtTool \cup {"idle", "unlock"}
  /\ ToolAt \in AtTool \cup {"unlock"} => ToolJob \in Jobs

(* The manager works under its own lock, the tool on an unfinished job; so     *)
(* they never work at once, and one job at most is unfinished.               *)
OneAtWork ==
  /\ ManagerAt \in InJob \cup {"backup"} => lock = "own"
  /\ ManagerAt \in InJob =>
       /\ job[ManagerJob].phase # "none"
       /\ \A j \in Jobs : Open(j) => j = ManagerJob
  /\ ToolAt \in AtTool =>
       /\ ManagerAt \notin InJob \cup {"backup"}
       /\ job[ToolJob].phase \in IF ToolAt = "close" THEN Recoverable ELSE Touched
       /\ ToolAt \in {"undo", "back", "reopen"} => job[ToolJob].phase \in Renames
  /\ \A j, k \in Jobs : Open(j) /\ Open(k) => j = k

WInv == Papers /\ Hands /\ OneAtWork

USE DEF GoingBackAt, InJob, AtTool, Phases, ManagerAt, ManagerJob, ToolAt, ToolJob, Open,
        Untouched, Stopped, Swapping, Recoverable, Early, Touched, Renames, Closed, Processes, Databases, At, Mine

USE DEF files, databases, services, watched

(* Where a failure leaves the manager. *)
LEMMA CaughtIn ==
  ASSUME NEW at \in InJob
  PROVE  /\ Caught(at) \in {"close", "restart", "undo", "manual"}
         /\ Caught(at) = "close" <=> at \in Untouched
         /\ Caught(at) = "restart" <=> at \in Stopped
         /\ Caught(at) = "undo" <=> at \in Swapping
BY DEF Caught

LEMMA ManagerMoves ==
  ASSUME Hands, ManagerAt \in InJob, NEW there \in InJob,
         Goes("manager", there) \/ Fails("manager")
  PROVE  /\ Hands'
         /\ ManagerAt' \in {there, Caught(ManagerAt)} /\ ManagerAt' \in InJob
         /\ ManagerJob' = ManagerJob /\ doing'["tool"] = doing["tool"]
<1>1. CASE Goes("manager", there)
  BY <1>1 DEF Goes, Hands
<1>2. CASE Fails("manager")
  <2>1. Caught(ManagerAt) \in InJob
    BY CaughtIn
  <2> QED
    BY <1>2, <2>1 DEF Fails, Hands
<1> QED
  BY <1>1, <1>2

LEMMA ToolMoves ==
  ASSUME Hands, ToolAt \in AtTool, NEW there \in AtTool \cup {"unlock"},
         Goes("tool", there) \/ Fails("tool")
  PROVE  /\ Hands'
         /\ \/ ToolAt' = there /\ ToolJob' = ToolJob
            \/ ToolAt' = "idle"
         /\ doing'["manager"] = doing["manager"]
<1>1. CASE Goes("tool", there)
  BY <1>1 DEF Goes, Hands
<1>2. CASE Fails("tool")
  <2>1. doing' = [doing EXCEPT !["tool"] = [at |-> "idle", job |-> Absent, back |-> FALSE]]
    BY <1>2 DEF Fails, Idle
  <2> QED
    BY <2>1 DEF Hands
<1> QED
  BY <1>1, <1>2

-----------------------------------------------------------------------------
(* WInv is kept. *)

LEMMA Began == RestoreInit => WInv
BY RestoreConstants DEF RestoreInit, WInv, Papers, Hands, OneAtWork, Services

LEMMA PapersKept == WInv /\ [RestoreNext]_rvars => Papers'
<1> SUFFICES ASSUME WInv, [RestoreNext]_rvars PROVE Papers'
  OBVIOUS
<1> USE DEF WInv, Papers, Hands
<1>1. ASSUME NEW j \in Jobs, Restore(j) PROVE Papers'
  BY <1>1 DEF Restore, TurnedAway, Saved
<1>2. CASE CreateBackup
  BY <1>2 DEF CreateBackup, TurnedAway
<1>3. CASE BackupEnds
  BY <1>3 DEF BackupEnds
<1>4. CASE SavePhase
  BY <1>4 DEF SavePhase, Following, Saved
<1>5. CASE Rehearse
  BY <1>5 DEF Rehearse
<1>6. CASE Dump
  BY <1>6 DEF Dump
<1>7. CASE Fence
  BY <1>7 DEF Fence
<1>8. CASE Rename
  BY <1>8 DEF Rename
<1>9. CASE Allow
  BY <1>9 DEF Allow
<1>10. CASE Complete
  BY <1>10 DEF Complete, Saved
<1>11. ASSUME NEW p \in Processes, NEW there, StopServices(p, there) PROVE Papers'
  <2>1. up' \subseteq Services /\ UNCHANGED files /\ UNCHANGED databases
    BY <1>11 DEF StopServices
  <2>2. Noted \in [phase : {"none", "active", "done"}, was : SUBSET Services]
    BY DEF Noted
  <2>3. record' \in {record, Noted}
    BY <1>11 DEF StopServices
  <2> QED
    BY <2>1, <2>2, <2>3
<1>12. ASSUME NEW p \in Processes, NEW from, NEW kinds, NEW there, StartServices(p, from, kinds, there) PROVE Papers'
  <2>1. up' \subseteq Services
    BY <1>12 DEF StartServices, Resumed
  <2>2. record' = record \/ record' = [record EXCEPT !.phase = "done"]
    BY <1>12 DEF StartServices
  <2>3. record' \in [phase : {"none", "active", "done"}, was : SUBSET Services]
    BY <2>2
  <2> QED
    BY <1>12, <2>1, <2>3 DEF StartServices
<1>13. ASSUME NEW p \in Processes, Rollback(p) PROVE Papers'
  BY <1>13 DEF Rollback, AlreadyBack, FenceAgain
<1>14. ASSUME NEW p \in Processes, RenameBack(p) PROVE Papers'
  <2>1. Mine(p) \in Jobs
    BY <1>14 DEF RenameBack
  <2> QED
    BY <1>14, <2>1 DEF RenameBack
<1>15. ASSUME NEW p \in Processes, Reopen(p) PROVE Papers'
  BY <1>15 DEF Reopen
<1>16. CASE Close
  BY <1>16 DEF Close, Saved
<1>17. CASE GiveUp
  BY <1>17 DEF GiveUp, Saved
<1>18. ASSUME NEW j \in Jobs, Recover(j) PROVE Papers'
  BY <1>18 DEF Recover
<1>19. CASE ToolCloses
  <2>1. UNCHANGED <<lock, databases, services>>
    BY <1>19 DEF ToolCloses
  <2>2. PICK end \in {"failed", "rolled_back"} :
           job' = job \/ job' = [job EXCEPT ![ToolJob].phase = end]
    BY <1>19 DEF ToolCloses, Saved
  <2>3. job' \in [Jobs -> [phase : Phases, orig : Databases \cup {Absent}]]
    BY <2>2
  <2> QED
    BY <2>1, <2>3
<1>20. CASE Unlock
  BY <1>20 DEF Unlock
<1>21. CASE FreeLock
  BY <1>21 DEF FreeLock
<1>22. ASSUME NEW p \in Processes, Die(p) PROVE Papers'
  BY <1>22 DEF Die
<1>23. CASE StartsAgain
  BY <1>23 DEF StartsAgain
<1>24. CASE Sale
  BY <1>24 DEF Sale
<1>25. CASE Reconcile
  BY <1>25 DEF Reconcile
<1>26. CASE UNCHANGED rvars
  BY <1>26 DEF rvars
<1> QED
  BY <1>1, <1>2, <1>3, <1>4, <1>5, <1>6, <1>7, <1>8, <1>9, <1>10, <1>11, <1>12, <1>13, <1>14, <1>15, <1>16, <1>17,
     <1>18, <1>19, <1>20, <1>21, <1>22, <1>23, <1>24, <1>25, <1>26
  DEF RestoreNext, JobSteps, ToolSteps, GoingBack

(* A step of the manager on its job, which may end there. *)
ManagerWorks ==
  /\ ManagerAt \in InJob
  /\ doing'["tool"] = doing["tool"]
  /\ \/ ManagerAt' \in InJob /\ ManagerJob' = ManagerJob /\ lock' = lock
     \/ ManagerAt' = "idle"
  /\ \A k \in Jobs : k # ManagerJob => job'[k] = job[k]
  /\ job'[ManagerJob].phase # "none"

LEMMA ManagerAlone ==
  ASSUME WInv, ManagerWorks
  PROVE  OneAtWork'
<1> USE DEF WInv, Hands, OneAtWork, ManagerWorks
<1>1. ManagerJob \in Jobs /\ \A j \in Jobs : Open(j) => j = ManagerJob
  OBVIOUS
<1>2. \A j \in Jobs : Open(j)' => j = ManagerJob
  BY <1>1
<1>3. ToolAt' \notin AtTool
  OBVIOUS
<1> QED
  BY <1>1, <1>2, <1>3

(* A step of the tool on its job, which may be its last. *)
ToolWorks ==
  /\ ToolAt \in AtTool
  /\ doing'["manager"] = doing["manager"] /\ lock' = lock
  /\ \/ /\ ToolAt' \in AtTool /\ ToolJob' = ToolJob /\ job' = job
        /\ ToolAt' # "stop" /\ (ToolAt' \in {"undo", "back", "reopen"} => job[ToolJob].phase \in Renames)
        /\ ToolAt # "close"
     \/ ToolAt' \in {"idle", "unlock"}
  /\ \A k \in Jobs : k # ToolJob => job'[k] = job[k]

LEMMA ToolAlone ==
  ASSUME WInv, ToolWorks
  PROVE  OneAtWork'
<1> USE DEF WInv, Hands, OneAtWork, ToolWorks
<1>1. ToolJob \in Jobs /\ Open(ToolJob) /\ \A j \in Jobs : Open(j) => j = ToolJob
  OBVIOUS
<1>2. \A j \in Jobs : Open(j)' => j = ToolJob
  BY <1>1
<1>3. ManagerAt' \notin InJob \cup {"backup"}
  OBVIOUS
<1> QED
  BY <1>1, <1>2, <1>3

LEMMA ManagerEnds ==
  ASSUME Hands, ManagerAt \in InJob \cup {"dead", "backup"}, Idle("manager")
  PROVE  Hands' /\ ManagerAt' = "idle" /\ doing'["tool"] = doing["tool"]
BY DEF Idle, Hands

LEMMA SavedOne ==
  ASSUME Papers, NEW j \in Jobs, NEW phase \in Phases \ {"none"}, NEW done \in BOOLEAN,
         Saved(j, phase, done), job[j].phase # "none"
  PROVE  /\ \A k \in Jobs : k # j => job'[k] = job[k]
         /\ job'[j].phase = IF done THEN phase ELSE job[j].phase
         /\ job'[j].orig = job[j].orig
BY DEF Saved, Papers

(* The actions of the manager on its job. *)
LEMMA ManagerKept ==
  ASSUME WInv,
         \/ SavePhase \/ Rehearse \/ Dump \/ Fence \/ Rename \/ Allow \/ Complete \/ Close \/ GiveUp
         \/ \E there \in InJob : StopServices("manager", there)
         \/ \E from \in {"start", "restart"}, kinds \in SUBSET Services, there \in InJob :
               StartServices("manager", from, kinds, there)
         \/ Rollback("manager") \/ RenameBack("manager") \/ Reopen("manager")
  PROVE  Hands' /\ OneAtWork' /\ ManagerWorks
<1> USE DEF Ends
<1>1. SUFFICES Hands' /\ ManagerWorks
  BY ManagerAlone
<1>2. WInv /\ Papers /\ Hands /\ OneAtWork
  BY DEF WInv
<1>3. ASSUME ManagerAt \in InJob, NEW there \in InJob, Goes("manager", there) \/ Fails("manager"), lock' = lock,
             \A k \in Jobs : k # ManagerJob => job'[k] = job[k], job'[ManagerJob].phase # "none"
      PROVE  Hands' /\ ManagerWorks
  BY <1>2, <1>3, ManagerMoves DEF ManagerWorks
<1>4. ASSUME ManagerAt \in InJob, Idle("manager"),
             \A k \in Jobs : k # ManagerJob => job'[k] = job[k], job'[ManagerJob].phase # "none"
      PROVE  Hands' /\ ManagerWorks
  BY <1>2, <1>4, ManagerEnds DEF ManagerWorks
<1>5. ManagerAt \in InJob => ManagerJob \in Jobs /\ job[ManagerJob].phase # "none"
  BY <1>2 DEF Hands, OneAtWork
<1>6. CASE SavePhase
  <2>1. PICK out \in Outcomes : /\ Saved(ManagerJob, ManagerAt, out.done)
                                /\ Ends("manager", out.ok, Following[ManagerAt])
    BY <1>6 DEF SavePhase
  <2>2. ManagerAt \in DOMAIN Following /\ lock' = lock
    BY <1>6 DEF SavePhase
  <2>3. ManagerAt \in InJob /\ ManagerAt \in Phases \ {"none"} /\ Following[ManagerAt] \in InJob
    BY <2>2 DEF Following
  <2>4. out.done \in BOOLEAN
    BY DEF Outcomes
  <2> QED
    <3>1. ManagerJob \in Jobs /\ job[ManagerJob].phase # "none" /\ ManagerAt # "none"
      BY <1>5, <2>3
    <3>2. /\ \A k \in Jobs : k # ManagerJob => job'[k] = job[k]
          /\ job'[ManagerJob].phase = IF out.done THEN ManagerAt ELSE job[ManagerJob].phase
      BY <1>2, <2>1, <2>3, <2>4, <3>1, SavedOne
    <3>3. Goes("manager", Following[ManagerAt]) \/ Fails("manager")
      BY <2>1
    <3> QED
      BY <1>3, <2>2, <2>3, <3>1, <3>2, <3>3
<1>7. CASE Rehearse
  <2>1. ManagerAt \in InJob /\ lock' = lock /\ (Goes("manager", "quiescing") \/ Fails("manager"))
    BY <1>7 DEF Rehearse
  <2>2. job' = job \/ job' = [job EXCEPT ![ManagerJob].orig = primary]
    BY <1>7 DEF Rehearse
  <2>3. \A k \in Jobs : /\ k # ManagerJob => job'[k] = job[k]
                        /\ job'[k].phase = job[k].phase
    BY <1>2, <2>2 DEF Papers
  <2> QED
    BY <1>3, <1>5, <2>1, <2>3
<1>8. CASE Dump
  BY <1>2, <1>3, <1>5, <1>8 DEF Dump
<1>9. CASE Fence
  BY <1>2, <1>3, <1>5, <1>9 DEF Fence
<1>10. CASE Rename
  BY <1>2, <1>3, <1>5, <1>10 DEF Rename
<1>11. CASE Allow
  BY <1>2, <1>3, <1>5, <1>11 DEF Allow
<1>12. CASE Complete
  <2>1. PICK done \in BOOLEAN : Saved(ManagerJob, "completed", done)
    BY <1>12 DEF Complete
  <2>2. ManagerAt \in InJob /\ (Idle("manager") \/ (Fails("manager") /\ lock' = lock))
    BY <1>12 DEF Complete
  <2>3. /\ \A k \in Jobs : k # ManagerJob => job'[k] = job[k]
        /\ job'[ManagerJob].phase # "none"
    BY <1>2, <1>5, <2>1, <2>2, SavedOne
  <2> QED
    BY <1>3, <1>4, <2>2, <2>3
<1>13. CASE Close
  <2>1. PICK done \in BOOLEAN, end \in {"failed", "rolled_back"} : Saved(ManagerJob, end, done)
    BY <1>13 DEF Close
  <2>2. ManagerAt \in InJob /\ (Idle("manager") \/ (Fails("manager") /\ lock' = lock))
    BY <1>13 DEF Close
  <2>3. /\ \A k \in Jobs : k # ManagerJob => job'[k] = job[k]
        /\ job'[ManagerJob].phase # "none"
    BY <1>2, <1>5, <2>1, <2>2, SavedOne
  <2> QED
    BY <1>3, <1>4, <2>2, <2>3
<1>14. CASE GiveUp
  <2>1. PICK done \in BOOLEAN : Saved(ManagerJob, "manual_recovery", done)
    BY <1>14 DEF GiveUp, Saved
  <2>2. ManagerAt \in InJob /\ Idle("manager")
    BY <1>14 DEF GiveUp
  <2>3. /\ \A k \in Jobs : k # ManagerJob => job'[k] = job[k]
        /\ job'[ManagerJob].phase # "none"
    BY <1>2, <1>5, <2>1, <2>2, SavedOne
  <2> QED
    BY <1>4, <2>2, <2>3
<1>15. CASE \E there \in InJob : StopServices("manager", there)
  BY <1>2, <1>3, <1>5, <1>15 DEF StopServices
<1>16. CASE \E from \in {"start", "restart"}, kinds \in SUBSET Services, there \in InJob :
              StartServices("manager", from, kinds, there)
  BY <1>2, <1>3, <1>5, <1>16 DEF StartServices
<1>17. CASE Rollback("manager")
  BY <1>2, <1>3, <1>5, <1>17 DEF Rollback, AlreadyBack, FenceAgain
<1>18. CASE RenameBack("manager")
  BY <1>2, <1>3, <1>5, <1>18 DEF RenameBack
<1>19. CASE Reopen("manager")
  BY <1>2, <1>3, <1>5, <1>19 DEF Reopen
<1> QED
  BY <1>6, <1>7, <1>8, <1>9, <1>10, <1>11, <1>12, <1>13, <1>14, <1>15, <1>16, <1>17, <1>18, <1>19

(* The actions of the tool. *)
LEMMA ToolKept ==
  ASSUME WInv,
         \/ ToolCloses
         \/ StopServices("tool", IF job[ToolJob].phase \in Renames THEN "undo" ELSE "restart")
         \/ StartServices("tool", "restart", Services, "close")
         \/ Rollback("tool") \/ RenameBack("tool") \/ Reopen("tool")
  PROVE  Hands' /\ OneAtWork' /\ ToolWorks
<1> USE DEF Ends
<1>1. SUFFICES Hands' /\ ToolWorks
  BY ToolAlone
<1>2. WInv /\ Papers /\ Hands /\ OneAtWork
  BY DEF WInv
<1>3. ASSUME ToolAt \in AtTool \ {"close"}, NEW there \in GoingBackAt,
             there \in {"undo", "back", "reopen"} => job[ToolJob].phase \in Renames,
             Goes("tool", there) \/ Fails("tool"), lock' = lock, job' = job
      PROVE  Hands' /\ ToolWorks
  BY <1>2, <1>3, ToolMoves DEF ToolWorks
<1>4. ToolAt \in AtTool => ToolJob \in Jobs
  BY <1>2 DEF Hands
<1>5. CASE ToolCloses
  <2>1. PICK done \in BOOLEAN, end \in {"failed", "rolled_back"} : Saved(ToolJob, end, done)
    BY <1>5 DEF ToolCloses, Outcomes
  <2>2. ToolAt = "close" /\ lock' = lock /\ (Goes("tool", "unlock") \/ Fails("tool"))
    BY <1>5 DEF ToolCloses
  <2>3. job[ToolJob].phase # "none"
    BY <1>2, <2>2 DEF OneAtWork
  <2>4. \A k \in Jobs : k # ToolJob => job'[k] = job[k]
    BY <1>2, <1>4, <2>1, <2>2, <2>3, SavedOne
  <2> QED
    BY <1>2, <2>2, <2>4, ToolMoves DEF ToolWorks
<1>6. CASE StopServices("tool", IF job[ToolJob].phase \in Renames THEN "undo" ELSE "restart")
  <2>1. ToolAt = "stop" /\ UNCHANGED files
    BY <1>6 DEF StopServices
  <2>2. PICK there \in {"undo", "restart"} :
          /\ there = "undo" => job[ToolJob].phase \in Renames
          /\ Goes("tool", there) \/ Fails("tool")
    BY <1>6 DEF StopServices
  <2> QED
    BY <1>3, <2>1, <2>2
<1>7. CASE StartServices("tool", "restart", Services, "close")
  BY <1>3, <1>7 DEF StartServices
<1>8. CASE Rollback("tool")
  BY <1>2, <1>3, <1>8 DEF Rollback, AlreadyBack, FenceAgain, OneAtWork
<1>9. CASE RenameBack("tool")
  BY <1>2, <1>3, <1>9 DEF RenameBack, OneAtWork
<1>10. CASE Reopen("tool")
  BY <1>2, <1>3, <1>10 DEF Reopen
<1> QED
  BY <1>5, <1>6, <1>7, <1>8, <1>9, <1>10

(* Asking, dying, starting again, and the shop. *)
LEMMA RestKept ==
  ASSUME WInv,
         \/ \E j \in Jobs : Restore(j) \/ Recover(j)
         \/ CreateBackup \/ BackupEnds \/ Unlock \/ FreeLock
         \/ \E p \in Processes : Die(p)
         \/ StartsAgain \/ Sale \/ Reconcile \/ UNCHANGED rvars
  PROVE  Hands' /\ OneAtWork'
<1> USE DEF WInv
<1>1. ASSUME NEW j \in Jobs, Restore(j) PROVE Hands' /\ OneAtWork'
  <2>1. CASE TurnedAway
    BY <1>1, <2>1 DEF Restore, TurnedAway, Hands, OneAtWork
  <2>2. CASE ~TurnedAway
    <3>1. PICK out \in Outcomes :
            /\ Saved(j, "queued", out.done)
            /\ IF out.ok
               THEN /\ lock' = "own"
                    /\ doing' = [doing EXCEPT !["manager"] = [at |-> "verifying", job |-> j, back |-> FALSE]]
               ELSE UNCHANGED <<lock, doing>>
      BY <1>1, <2>2 DEF Restore
    <3>2. ManagerAt = "idle" /\ lock = "none" /\ ~SomeOpen /\ job[j].phase = "none"
      BY <1>1, <2>2 DEF Restore
    <3>3. ToolAt \notin AtTool /\ \A k \in Jobs : ~Open(k)
      BY <3>2 DEF SomeOpen, OneAtWork, Hands
    <3>4. /\ \A k \in Jobs : k # j => job'[k] = job[k]
          /\ out.ok => job'[j].phase = "queued"
      BY <3>1 DEF Saved, Papers, Outcomes
    <3>6. CASE out.ok
      <4>1. doing' = [doing EXCEPT !["manager"] = [at |-> "verifying", job |-> j, back |-> FALSE]] /\ lock' = "own"
        BY <3>1, <3>6
      <4>2. Hands' /\ ManagerAt' = "verifying" /\ ManagerJob' = j /\ doing'["tool"] = doing["tool"]
        BY <4>1 DEF Hands
      <4> QED
        BY <3>3, <3>4, <3>6, <4>1, <4>2 DEF OneAtWork
    <3>7. CASE ~out.ok
      <4>1. doing' = doing /\ lock' = lock
        BY <3>1, <3>7
      <4> QED
        BY <3>2, <3>3, <3>4, <3>7, <4>1 DEF OneAtWork, Hands
    <3> QED
      BY <3>6, <3>7
  <2> QED
    BY <2>1, <2>2
<1>2. ASSUME NEW j \in Jobs, Recover(j) PROVE Hands' /\ OneAtWork'
  <2>1. PICK at \in {"close", "stop"} :
          /\ doing' = [doing EXCEPT !["tool"] = [at |-> at, job |-> j, back |-> lock = "dead"]]
          /\ at = "stop" => job[j].phase \in Touched
    BY <1>2 DEF Recover
  <2>2. Hands' /\ ToolAt' = at /\ ToolJob' = j /\ doing'["manager"] = doing["manager"]
    <3>1. (lock = "dead") \in BOOLEAN
      OBVIOUS
    <3> QED
      BY <2>1, <3>1 DEF Hands
  <2> QED
    BY <1>2, <2>1, <2>2 DEF Recover, OneAtWork
<1>3. CASE CreateBackup
  <2>1. CASE TurnedAway
    BY <1>3, <2>1 DEF CreateBackup, TurnedAway, Hands, OneAtWork
  <2>2. CASE ~TurnedAway
    <3>1. Hands' /\ ManagerAt' = "backup" /\ doing'["tool"] = doing["tool"]
      BY <1>3, <2>2 DEF CreateBackup, Goes, Hands
    <3> QED
      BY <1>3, <2>2, <3>1 DEF CreateBackup, SomeOpen, OneAtWork, Hands
  <2> QED
    BY <2>1, <2>2
<1>4. CASE BackupEnds
  BY <1>4, ManagerEnds DEF BackupEnds, OneAtWork
<1>5. CASE Unlock
  <2>1. Hands' /\ ToolAt' = "idle" /\ doing'["manager"] = doing["manager"]
    BY <1>5 DEF Unlock, Idle, Hands
  <2> QED
    BY <1>5, <2>1 DEF Unlock, OneAtWork
<1>6. CASE FreeLock
  BY <1>6 DEF FreeLock, Hands, OneAtWork
<1>7. CASE Die("manager")
  <2>1. Hands' /\ ManagerAt' = "dead" /\ doing'["tool"] = doing["tool"]
    <3>1. doing' = [doing EXCEPT !["manager"] = [at |-> "dead", job |-> Absent, back |-> FALSE]]
      BY <1>7 DEF Die
    <3> QED
      BY <3>1 DEF Hands
  <2> QED
    BY <1>7, <2>1 DEF Die, OneAtWork
<1>8. CASE Die("tool")
  <2>1. Hands' /\ ToolAt' = "idle" /\ doing'["manager"] = doing["manager"]
    <3>1. doing' = [doing EXCEPT !["tool"] = [at |-> "idle", job |-> Absent, back |-> FALSE]]
      BY <1>8 DEF Die, Idle
    <3> QED
      BY <3>1 DEF Hands
  <2> QED
    BY <1>8, <2>1 DEF Die, OneAtWork
<1>9. CASE StartsAgain
  BY <1>9, ManagerEnds DEF StartsAgain, OneAtWork
<1>10. CASE Sale
  BY <1>10 DEF Sale, Hands, OneAtWork
<1>11. CASE Reconcile
  BY <1>11 DEF Reconcile, Hands, OneAtWork
<1>12. CASE UNCHANGED rvars
  BY <1>12 DEF rvars, Hands, OneAtWork
<1> QED
  BY <1>1, <1>2, <1>3, <1>4, <1>5, <1>6, <1>7, <1>8, <1>9, <1>10, <1>11, <1>12

LEMMA WInvKept == WInv /\ [RestoreNext]_rvars => WInv'
<1> SUFFICES ASSUME WInv, [RestoreNext]_rvars PROVE Hands' /\ OneAtWork'
  BY PapersKept DEF WInv
<1> QED
  BY ManagerKept, ToolKept, RestKept DEF RestoreNext, JobSteps, ToolSteps, GoingBack, Services

-----------------------------------------------------------------------------
(* What has been sold, and what may be undone.                               *)

CanUndo(j) == j \notin fresh /\ (primary = j => up = {})
Returns(j) ==
  \/ job[j].orig = primary
  \/ primary = j /\ previous[j] = job[j].orig

(* A database that is not built yet is nobody's. *)
Unbuilt ==
  \A j \in Jobs : job[j].phase = "none" =>
    /\ primary # j /\ j \notin fresh
    /\ \A k \in Jobs : job[k].orig # j

(* What the file of a job says to the tool. *)
OnFile(j) ==
  /\ job[j].orig # j
  /\ job[j].phase \in Recoverable => CanUndo(j)
  /\ job[j].phase \in Recoverable \ Renames => primary # j
  /\ job[j].phase \in Renames => Returns(j)

(* What the manager knows where it is. *)
AtManager(at, j) ==
  /\ at \notin {"start", "completed", "manual"} => CanUndo(j)
  /\ at \in Untouched \cup Stopped \cup {"fence", "rename", "reopen", "restart", "close"} => primary # j
  /\ at \in {"quiescing", "fence", "rename"} \cup Stopped => primary = job[j].orig
  /\ at \in Swapping \cup {"undo", "back"} => Returns(j)
  /\ at \in Swapping \cup {"undo", "back", "reopen", "start", "completed"} =>
       job[j].phase \notin Recoverable \ Renames
  /\ at \in {"start", "completed"} => job[j].phase \notin Recoverable
  /\ at \in {"safety_backup", "dump", "swapping", "fence", "rename"} => up = {}
  /\ at \in {"swapping", "fence", "rename"} => primary \notin fresh
  /\ at = "back" => primary = j /\ previous[j] = job[j].orig

(* And the tool. *)
AtTools(at, j) ==
  /\ at \in {"reopen", "restart"} => primary # j
  /\ at = "back" => primary = j /\ previous[j] = job[j].orig

SInv ==
  /\ Unbuilt /\ \A j \in Jobs : OnFile(j)
  /\ ManagerAt \in InJob => AtManager(ManagerAt, ManagerJob)
  /\ ToolAt \in AtTool => AtTools(ToolAt, ToolJob)

LEMMA SoldBegan == RestoreInit => SInv
BY RestoreConstants DEF RestoreInit, SInv, Unbuilt, OnFile, CanUndo, Returns

(* A step of the manager: the other jobs are closed or not begun. *)
LEMMA ManagerSells ==
  ASSUME WInv, WInv', SInv, ManagerWorks, NEW m \in Jobs, m = ManagerJob,
         primary' \in {primary, ManagerJob, job[ManagerJob].orig},
         fresh' \subseteq fresh,
         job'[ManagerJob].orig \in {primary, job[ManagerJob].orig},
         OnFile(m)', ManagerAt' \in InJob => AtManager(ManagerAt, ManagerJob)'
  PROVE  SInv'
<1> USE DEF WInv, Hands, OneAtWork, ManagerWorks, SInv
<1>1. ManagerJob \in Jobs /\ job[ManagerJob].phase # "none"
  OBVIOUS
<1>2. Unbuilt'
  BY <1>1 DEF Unbuilt
<1>3. ASSUME NEW j \in Jobs PROVE OnFile(j)'
  <2>1. CASE j = ManagerJob
    BY <2>1
  <2>2. CASE j # ManagerJob
    BY <1>1, <2>2 DEF OnFile
  <2> QED
    BY <2>1, <2>2
<1>4. ToolAt' \notin AtTool
  OBVIOUS
<1> QED
  BY <1>2, <1>3, <1>4

LEMMA ToolSells ==
  ASSUME WInv, WInv', SInv, ToolWorks, NEW m \in Jobs, m = ToolJob,
         primary' \in {primary, job[ToolJob].orig}, fresh' = fresh,
         \A j \in Jobs : job'[j].orig = job[j].orig /\ (job[j].phase # "none" => job'[j].phase # "none"),
         OnFile(m)', ToolAt' \in AtTool => AtTools(ToolAt, ToolJob)'
  PROVE  SInv'
<1> USE DEF WInv, Hands, OneAtWork, ToolWorks, SInv
<1>1. ToolJob \in Jobs /\ Open(ToolJob)
  OBVIOUS
<1>2. Unbuilt'
  BY <1>1 DEF Unbuilt
<1>3. ASSUME NEW j \in Jobs PROVE OnFile(j)'
  <2>1. CASE j = ToolJob
    BY <2>1
  <2>2. CASE j # ToolJob
    BY <1>1, <2>2 DEF OnFile
  <2> QED
    BY <2>1, <2>2
<1>4. ManagerAt' \notin InJob
  OBVIOUS
<1> QED
  BY <1>2, <1>3, <1>4

LEMMA ManagerGoesTo ==
  ASSUME Hands, ManagerAt \in InJob, NEW there \in InJob, NEW ok \in BOOLEAN,
         Ends("manager", ok, there)
  PROVE  ManagerJob' = ManagerJob /\ ManagerAt' = IF ok THEN there ELSE Caught(ManagerAt)
<1>1. CASE ok
  BY <1>1 DEF Ends, Goes, Hands
<1>2. CASE ~ok
  BY <1>2 DEF Ends, Fails, Hands
<1> QED
  BY <1>1, <1>2

LEMMA ManagerSold ==
  ASSUME WInv, WInv', SInv,
         \/ SavePhase \/ Rehearse \/ Dump \/ Fence \/ Rename \/ Allow \/ Complete \/ Close \/ GiveUp
         \/ StopServices("manager", "safety_backup")
         \/ StartServices("manager", "start", {"api"}, "completed")
         \/ StartServices("manager", "restart", Services, "close")
         \/ Rollback("manager") \/ RenameBack("manager") \/ Reopen("manager")
  PROVE  SInv'
<1>1. ManagerWorks
  BY ManagerKept DEF Services
<1>2. PICK m \in Jobs : m = ManagerJob
  BY <1>1 DEF ManagerWorks, WInv, Hands
<1>3. WInv /\ Papers /\ Hands /\ OneAtWork
  BY DEF WInv
<1>4. AtManager(ManagerAt, m) /\ OnFile(m) /\ job[m].phase # "none"
  BY <1>1, <1>2, <1>3 DEF SInv, ManagerWorks, OneAtWork
<1> USE DEF OnFile, AtManager, CanUndo, Returns
<1>5. ASSUME primary' \in {primary, m, job[m].orig}, fresh' \subseteq fresh,
             job'[m].orig \in {primary, job[m].orig}, OnFile(m)',
             ManagerAt' \in InJob => AtManager(ManagerAt, ManagerJob)'
      PROVE  SInv'
  BY <1>1, <1>2, <1>5, ManagerSells
<1>6. CASE SavePhase
  <2>1. PICK out \in Outcomes : /\ Saved(m, ManagerAt, out.done)
                                /\ Ends("manager", out.ok, Following[ManagerAt])
    BY <1>2, <1>6 DEF SavePhase
  <2>2. ManagerAt \in DOMAIN Following /\ UNCHANGED <<primary, previous, fresh, up>>
    BY <1>6 DEF SavePhase
  <2>3. ManagerAt \in InJob /\ ManagerAt \in Phases \ {"none"} /\ Following[ManagerAt] \in InJob
    BY <2>2 DEF Following
  <2>4. out.done \in BOOLEAN /\ out.ok \in BOOLEAN /\ (out.ok => out.done)
    BY DEF Outcomes
  <2>5. /\ job'[m].phase = IF out.done THEN ManagerAt ELSE job[m].phase
        /\ job'[m].orig = job[m].orig
    BY <1>3, <1>4, <2>1, <2>3, <2>4, SavedOne
  <2>6. ManagerJob' = m /\ ManagerAt' = IF out.ok THEN Following[ManagerAt] ELSE Caught(ManagerAt)
    BY <1>2, <1>3, <2>1, <2>3, <2>4, ManagerGoesTo
  <2>a. ManagerAt \in {"verifying", "rehearsing", "quiescing", "safety_backup", "swapping", "validating", "resuming"}
    BY <2>2 DEF Following
  <2>7. OnFile(m)'
    <3>1. CanUndo(m)' /\ (ManagerAt \notin Swapping => primary' # m)
      BY <1>4, <2>2, <2>a
    <3>2. ManagerAt \in Renames => Returns(m)'
      BY <1>4, <2>2, <2>5, <2>a
    <3>3. CASE job'[m].phase = job[m].phase
      BY <1>4, <2>2, <2>5, <3>3
    <3>4. CASE job'[m].phase = ManagerAt
      BY <1>4, <2>2, <2>5, <2>a, <3>1, <3>2, <3>4
    <3> QED
      BY <2>5, <3>3, <3>4
  <2>8. AtManager(ManagerAt, ManagerJob)'
    <3>1. CASE out.ok
      <4>1. /\ ManagerAt' = Following[ManagerAt] /\ ManagerJob' = m
            /\ job'[m].phase = ManagerAt /\ job'[m].orig = job[m].orig
        BY <2>4, <2>5, <2>6, <3>1
      <4>2. ManagerAt' \in {"rehearsing", "rehearse", "stop", "dump", "fence", "resuming", "start"}
        BY <4>1, <2>a DEF Following
      <4>3. /\ ManagerAt' \in {"rehearsing", "rehearse"} <=> ManagerAt \in {"verifying", "rehearsing"}
            /\ ManagerAt' = "stop" <=> ManagerAt = "quiescing"
            /\ ManagerAt' = "dump" <=> ManagerAt = "safety_backup"
            /\ ManagerAt' = "fence" <=> ManagerAt = "swapping"
            /\ ManagerAt' = "resuming" <=> ManagerAt = "validating"
            /\ ManagerAt' = "start" <=> ManagerAt = "resuming"
        BY <4>1, <2>a DEF Following
      <4> QED
        BY <1>4, <2>2, <2>a, <4>1, <4>2, <4>3
    <3>2. CASE ~out.ok
      <4>1. /\ ManagerAt' = Caught(ManagerAt) /\ ManagerJob' = m
            /\ job'[m].phase \in {ManagerAt, job[m].phase} /\ job'[m].orig = job[m].orig
        BY <2>5, <2>6, <3>2
      <4>2. /\ ManagerAt' \in {"close", "restart", "undo"}
            /\ ManagerAt' = "close" <=> ManagerAt \in Untouched
            /\ ManagerAt' = "restart" <=> ManagerAt \in Stopped
            /\ ManagerAt' = "undo" <=> ManagerAt \in Swapping
        BY <2>3, <2>a, <4>1, CaughtIn
      <4> QED
        BY <1>4, <2>2, <2>a, <4>1, <4>2
    <3> QED
      BY <2>4, <3>1, <3>2
  <2> QED
    BY <1>5, <2>2, <2>5, <2>7, <2>8
<1>7. ASSUME ManagerAt \in InJob, NEW there \in InJob, NEW ok \in BOOLEAN, Ends("manager", ok, there)
      PROVE  ManagerJob' = m /\ ManagerAt' = IF ok THEN there ELSE Caught(ManagerAt)
  BY <1>2, <1>3, <1>7, ManagerGoesTo
<1>8. \A out \in Outcomes : out.done \in BOOLEAN /\ out.ok \in BOOLEAN /\ (out.ok => out.done)
  BY DEF Outcomes
<1>9. CASE Rehearse
  <2>1. PICK out \in Outcomes :
          /\ Ends("manager", out.ok, "quiescing")
          /\ job' = IF out.done THEN [job EXCEPT ![m].orig = primary] ELSE job
    BY <1>2, <1>9 DEF Rehearse
  <2>2. ManagerAt = "rehearse" /\ UNCHANGED <<primary, previous, fresh, up>>
    BY <1>9 DEF Rehearse
  <2>3. /\ job'[m].phase = job[m].phase
        /\ job'[m].orig = IF out.done THEN primary ELSE job[m].orig
    BY <1>3, <1>8, <2>1 DEF Papers
  <2>4. ManagerJob' = m /\ ManagerAt' = IF out.ok THEN "quiescing" ELSE "close"
    BY <1>7, <1>8, <2>1, <2>2 DEF Caught
  <2>5. OnFile(m)'
    BY <1>4, <2>2, <2>3
  <2>6. AtManager(ManagerAt, ManagerJob)'
    BY <1>4, <1>8, <2>2, <2>3, <2>4
  <2> QED
    BY <1>5, <2>2, <2>3, <2>5, <2>6
<1>10. CASE Dump
  <2>1. PICK ok \in BOOLEAN :
          /\ Ends("manager", ok, "swapping")
          /\ fresh' = IF ok THEN fresh \ {primary} ELSE fresh
    BY <1>10 DEF Dump
  <2>2. ManagerAt = "dump" /\ UNCHANGED <<job, primary, previous, up>>
    BY <1>10 DEF Dump
  <2>3. ManagerJob' = m /\ ManagerAt' = IF ok THEN "swapping" ELSE "restart"
    BY <1>7, <2>1, <2>2 DEF Caught
  <2>4. OnFile(m)'
    BY <1>4, <2>1, <2>2
  <2>5. AtManager(ManagerAt, ManagerJob)'
    BY <1>4, <2>1, <2>2, <2>3
  <2> QED
    BY <1>5, <2>1, <2>2, <2>4, <2>5
<1>11. CASE Fence
  <2>1. PICK ok \in BOOLEAN : Ends("manager", ok, "rename")
    BY <1>11 DEF Fence, Ends
  <2>2. ManagerAt = "fence" /\ UNCHANGED <<job, primary, previous, up, fresh>>
    BY <1>11 DEF Fence
  <2>3. ManagerJob' = m /\ ManagerAt' \in {"rename", "undo"}
    BY <1>7, <2>1, <2>2 DEF Caught
  <2> QED
    BY <1>4, <1>5, <2>2, <2>3
<1>12. CASE Rename
  <2>1. PICK out \in Outcomes :
          /\ Ends("manager", out.ok, "allow")
          /\ IF out.done THEN primary' = m /\ previous' = [previous EXCEPT ![m] = primary]
                         ELSE UNCHANGED <<primary, previous>>
    BY <1>2, <1>12 DEF Rename
  <2>2. ManagerAt = "rename" /\ UNCHANGED <<job, up, fresh>>
    BY <1>12 DEF Rename
  <2>3. ManagerJob' = m /\ ManagerAt' = IF out.ok THEN "allow" ELSE "undo"
    BY <1>7, <1>8, <2>1, <2>2 DEF Caught
  <2>4. Returns(m)'
    BY <1>3, <1>4, <2>1, <2>2 DEF Papers
  <2>5. OnFile(m)'
    BY <1>4, <2>1, <2>2, <2>4
  <2>6. AtManager(ManagerAt, ManagerJob)'
    BY <1>4, <1>8, <2>1, <2>2, <2>3, <2>4
  <2> QED
    BY <1>5, <2>1, <2>2, <2>5, <2>6
<1>13. CASE Allow
  <2>1. PICK out \in Outcomes : Ends("manager", out.ok, "validating")
    BY <1>13 DEF Allow
  <2>2. ManagerAt = "allow" /\ UNCHANGED <<job, primary, previous, up, fresh>>
    BY <1>13 DEF Allow
  <2>3. ManagerJob' = m /\ ManagerAt' \in {"validating", "undo"}
    BY <1>7, <1>8, <2>1, <2>2 DEF Caught
  <2> QED
    BY <1>4, <1>5, <2>2, <2>3
<1>14. CASE Complete \/ Close \/ GiveUp
  <2>1. PICK end \in Closed \cup {"manual_recovery"}, done \in BOOLEAN : Saved(m, end, done)
    BY <1>2, <1>14 DEF Complete, Close, GiveUp, Saved
  <2>2. UNCHANGED <<primary, previous, up, fresh>>
    BY <1>14 DEF Complete, Close, GiveUp
  <2>3. job'[m].phase \in {end, job[m].phase} /\ job'[m].orig = job[m].orig
    BY <1>3, <1>4, <2>1, SavedOne
  <2>4. OnFile(m)'
    BY <1>4, <2>2, <2>3
  <2>5. ManagerAt' \in InJob => ManagerAt' = "manual" /\ ManagerJob' = m
    <3>1. ManagerAt \in {"completed", "close", "manual"} /\ (Idle("manager") \/ Ends("manager", FALSE, "close"))
      BY <1>14 DEF Complete, Close, GiveUp, Ends
    <3>2. CASE Idle("manager")
      BY <1>3, <3>1, <3>2, ManagerEnds
    <3>3. CASE Ends("manager", FALSE, "close")
      BY <1>7, <3>1, <3>3 DEF Caught
    <3> QED
      BY <3>1, <3>2, <3>3
  <2> QED
    BY <1>5, <2>2, <2>3, <2>4, <2>5
<1>15. CASE StopServices("manager", "safety_backup")
  <2>1. PICK ok \in BOOLEAN : Ends("manager", ok, "safety_backup") /\ (ok => up' = {})
    BY <1>15 DEF StopServices, Ends
  <2>2. ManagerAt = "stop" /\ UNCHANGED <<job, primary, previous, fresh>>
    BY <1>15 DEF StopServices
  <2>3. ManagerJob' = m /\ ManagerAt' = IF ok THEN "safety_backup" ELSE "restart"
    BY <1>7, <2>1, <2>2 DEF Caught
  <2> QED
    BY <1>4, <1>5, <2>1, <2>2, <2>3
<1>16. CASE StartServices("manager", "start", {"api"}, "completed")
  <2>1. PICK ok \in BOOLEAN : Ends("manager", ok, "completed")
    BY <1>16 DEF StartServices, Ends
  <2>2. ManagerAt = "start" /\ UNCHANGED <<job, primary, previous, fresh>>
    BY <1>16 DEF StartServices
  <2>3. ManagerJob' = m /\ ManagerAt' \in {"completed", "manual"}
    BY <1>7, <2>1, <2>2, CaughtIn
  <2> QED
    BY <1>4, <1>5, <2>2, <2>3
<1>17. CASE StartServices("manager", "restart", Services, "close")
  <2>1. PICK ok \in BOOLEAN : Ends("manager", ok, "close")
    BY <1>17 DEF StartServices, Ends
  <2>2. ManagerAt = "restart" /\ UNCHANGED <<job, primary, previous, fresh>>
    BY <1>17 DEF StartServices
  <2>3. ManagerJob' = m /\ ManagerAt' \in {"close", "manual"}
    BY <1>7, <2>1, <2>2, CaughtIn
  <2> QED
    BY <1>4, <1>5, <2>2, <2>3
<1>18. CASE Rollback("manager")
  <2>1. ManagerAt = "undo" /\ UNCHANGED <<job, primary, previous, up, fresh>>
    BY <1>18 DEF Rollback
  <2>2. \/ primary = job[m].orig /\ \E ok \in BOOLEAN : Ends("manager", ok, "restart")
        \/ primary = m /\ previous[m] = job[m].orig /\ \E ok \in BOOLEAN : Ends("manager", ok, "back")
        \/ Ends("manager", FALSE, "back")
    BY <1>2, <1>8, <1>18 DEF Rollback, AlreadyBack, FenceAgain, Ends
  <2>3. /\ ManagerJob' = m /\ ManagerAt' \in {"restart", "back", "manual"}
        /\ ManagerAt' = "restart" => primary = job[m].orig
        /\ ManagerAt' = "back" => primary = m /\ previous[m] = job[m].orig
    <3>1. Caught(ManagerAt) = "manual"
      BY <2>1 DEF Caught
    <3>2. ManagerAt \in InJob /\ TRUE \in BOOLEAN /\ FALSE \in BOOLEAN
      BY <2>1
    <3>3. CASE primary = job[m].orig /\ \E ok \in BOOLEAN : Ends("manager", ok, "restart")
      BY <1>7, <3>1, <3>2, <3>3
    <3>4. CASE primary = m /\ previous[m] = job[m].orig /\ \E ok \in BOOLEAN : Ends("manager", ok, "back")
      BY <1>7, <3>1, <3>2, <3>4
    <3>5. CASE Ends("manager", FALSE, "back")
      BY <1>7, <3>1, <3>2, <3>5
    <3> QED
      BY <2>2, <3>3, <3>4, <3>5
  <2> QED
    BY <1>4, <1>5, <2>1, <2>3
<1>19. CASE RenameBack("manager")
  <2>1. PICK out \in Outcomes :
          /\ Ends("manager", out.ok, "reopen")
          /\ IF out.done THEN primary' = previous[m] /\ previous' = [previous EXCEPT ![m] = Absent]
                         ELSE UNCHANGED <<primary, previous>>
    BY <1>2, <1>19 DEF RenameBack
  <2>2. ManagerAt = "back" /\ UNCHANGED <<job, up, fresh>>
    BY <1>19 DEF RenameBack
  <2>3. ManagerJob' = m /\ ManagerAt' = IF out.ok THEN "reopen" ELSE "manual"
    BY <1>7, <1>8, <2>1, <2>2, CaughtIn
  <2>4. primary' = IF out.done THEN job[m].orig ELSE primary
    BY <1>4, <2>1, <2>2
  <2>5. Returns(m)'
    <3>1. CASE out.done
      BY <2>2, <2>4, <3>1
    <3>2. CASE ~out.done
      <4>1. UNCHANGED <<primary, previous>>
        BY <2>1, <3>2
      <4> QED
        BY <1>4, <2>2, <4>1
    <3> QED
      BY <3>1, <3>2
  <2> QED
    BY <1>4, <1>5, <1>8, <2>2, <2>3, <2>4, <2>5
<1>20. CASE Reopen("manager")
  <2>1. PICK ok \in BOOLEAN : Ends("manager", ok, "restart")
    BY <1>8, <1>20 DEF Reopen
  <2>2. ManagerAt = "reopen" /\ UNCHANGED <<job, primary, previous, up, fresh>>
    BY <1>20 DEF Reopen
  <2>3. ManagerJob' = m /\ ManagerAt' \in {"restart", "manual"}
    BY <1>7, <2>1, <2>2, CaughtIn
  <2> QED
    BY <1>4, <1>5, <2>2, <2>3
<1> QED
  BY <1>6, <1>9, <1>10, <1>11, <1>12, <1>13, <1>14, <1>15, <1>16, <1>17, <1>18, <1>19, <1>20

LEMMA ToolGoesTo ==
  ASSUME Hands, ToolAt \in AtTool, NEW there \in AtTool \cup {"unlock"}, NEW ok \in BOOLEAN,
         Ends("tool", ok, there)
  PROVE  IF ok THEN ToolAt' = there /\ ToolJob' = ToolJob ELSE ToolAt' = "idle"
<1>1. CASE ok
  BY <1>1 DEF Ends, Goes, Hands
<1>2. CASE ~ok
  <2>1. doing' = [doing EXCEPT !["tool"] = [at |-> "idle", job |-> Absent, back |-> FALSE]]
    BY <1>2 DEF Ends, Fails, Idle
  <2> QED
    BY <1>2, <2>1 DEF Hands
<1> QED
  BY <1>1, <1>2

LEMMA ToolSold ==
  ASSUME WInv, WInv', SInv,
         \/ ToolCloses
         \/ StopServices("tool", IF job[ToolJob].phase \in Renames THEN "undo" ELSE "restart")
         \/ StartServices("tool", "restart", Services, "close")
         \/ Rollback("tool") \/ RenameBack("tool") \/ Reopen("tool")
  PROVE  SInv'
<1>1. ToolWorks
  BY ToolKept
<1>2. PICK m \in Jobs : m = ToolJob
  BY <1>1 DEF ToolWorks, WInv, Hands
<1>3. WInv /\ Papers /\ Hands /\ OneAtWork
  BY DEF WInv
<1>4. AtTools(ToolAt, m) /\ OnFile(m) /\ job[m].phase \in Recoverable
  BY <1>1, <1>2, <1>3 DEF SInv, ToolWorks, OneAtWork
<1>5. \A out \in Outcomes : out.done \in BOOLEAN /\ out.ok \in BOOLEAN /\ (out.ok => out.done)
  BY DEF Outcomes
<1> USE DEF OnFile, AtTools, CanUndo, Returns
<1>6. ASSUME primary' \in {primary, job[m].orig}, fresh' = fresh,
             \A j \in Jobs : job'[j].orig = job[j].orig /\ (job[j].phase # "none" => job'[j].phase # "none"),
             OnFile(m)', ToolAt' \in AtTool => AtTools(ToolAt, ToolJob)'
      PROVE  SInv'
  BY <1>1, <1>2, <1>6, ToolSells
<1>7. ASSUME ToolAt \in AtTool, NEW there \in AtTool \cup {"unlock"}, NEW ok \in BOOLEAN, Ends("tool", ok, there)
      PROVE  IF ok THEN ToolAt' = there /\ ToolJob' = m ELSE ToolAt' = "idle"
  BY <1>2, <1>3, <1>7, ToolGoesTo
<1>8. CASE ToolCloses
  <2>1. PICK out \in Outcomes, end \in {"failed", "rolled_back"} :
          Saved(m, end, out.done) /\ Ends("tool", out.ok, "unlock")
    BY <1>2, <1>8 DEF ToolCloses
  <2>2. ToolAt = "close" /\ UNCHANGED <<primary, previous, fresh, up>>
    BY <1>8 DEF ToolCloses
  <2>3. ToolAt' \in {"unlock", "idle"}
    BY <1>5, <1>7, <2>1, <2>2
  <2>4. job' = job \/ job' = [job EXCEPT ![m].phase = end]
    BY <2>1 DEF Saved
  <2>5. \A j \in Jobs : job'[j].orig = job[j].orig /\ (job[j].phase # "none" => job'[j].phase # "none")
    BY <1>3, <2>4 DEF Papers
  <2>6. job'[m].phase \in {end, job[m].phase}
    BY <1>3, <2>4 DEF Papers
  <2>7. OnFile(m)'
    BY <1>4, <2>2, <2>5, <2>6
  <2> QED
    BY <1>6, <2>2, <2>3, <2>5, <2>7
<1>9. CASE StopServices("tool", IF job[ToolJob].phase \in Renames THEN "undo" ELSE "restart")
  <2>1. ToolAt = "stop" /\ UNCHANGED <<job, primary, previous, fresh>>
    BY <1>9 DEF StopServices
  <2>2. PICK ok \in BOOLEAN, there \in {"undo", "restart"} :
          Ends("tool", ok, there) /\ (there = "restart" => job[m].phase \notin Renames)
    BY <1>2, <1>9 DEF StopServices, Ends
  <2>3. up' \subseteq up
    BY <1>9 DEF StopServices
  <2>4. ToolAt' \in {"idle", there} /\ (ToolAt' = there => ToolJob' = m)
    BY <1>7, <2>1, <2>2
  <2>5. OnFile(m)'
    BY <1>4, <2>1, <2>3
  <2> QED
    BY <1>4, <1>6, <2>1, <2>2, <2>4, <2>5
<1>10. CASE StartServices("tool", "restart", Services, "close")
  <2>1. PICK ok \in BOOLEAN : Ends("tool", ok, "close")
    BY <1>10 DEF StartServices, Ends
  <2>2. ToolAt = "restart" /\ UNCHANGED <<job, primary, previous, fresh>>
    BY <1>10 DEF StartServices
  <2>3. ToolAt' \in {"idle", "close"}
    BY <1>7, <2>1, <2>2
  <2> QED
    BY <1>4, <1>6, <2>2, <2>3
<1>11. CASE Rollback("tool")
  <2>1. ToolAt = "undo" /\ UNCHANGED <<job, primary, previous, up, fresh>>
    BY <1>11 DEF Rollback
  <2>2. \/ primary = job[m].orig /\ \E ok \in BOOLEAN : Ends("tool", ok, "restart")
        \/ primary = m /\ previous[m] = job[m].orig /\ \E ok \in BOOLEAN : Ends("tool", ok, "back")
        \/ Ends("tool", FALSE, "back")
    BY <1>2, <1>5, <1>11 DEF Rollback, AlreadyBack, FenceAgain, Ends
  <2>3. /\ ToolAt' \in {"restart", "back"} => ToolJob' = m
        /\ ToolAt' = "restart" => primary = job[m].orig
        /\ ToolAt' = "back" => primary = m /\ previous[m] = job[m].orig
        /\ ToolAt' \in {"restart", "back", "idle"}
    <3>1. CASE primary = job[m].orig /\ \E ok \in BOOLEAN : Ends("tool", ok, "restart")
      BY <1>7, <2>1, <3>1
    <3>2. CASE primary = m /\ previous[m] = job[m].orig /\ \E ok \in BOOLEAN : Ends("tool", ok, "back")
      BY <1>7, <2>1, <3>2
    <3>3. CASE Ends("tool", FALSE, "back")
      BY <1>7, <2>1, <3>3
    <3> QED
      BY <2>2, <3>1, <3>2, <3>3
  <2> QED
    BY <1>4, <1>6, <2>1, <2>3
<1>12. CASE RenameBack("tool")
  <2>1. PICK out \in Outcomes :
          /\ Ends("tool", out.ok, "reopen")
          /\ IF out.done THEN primary' = previous[m] /\ previous' = [previous EXCEPT ![m] = Absent]
                         ELSE UNCHANGED <<primary, previous>>
    BY <1>2, <1>12 DEF RenameBack
  <2>2. ToolAt = "back" /\ UNCHANGED <<job, up, fresh>>
    BY <1>12 DEF RenameBack
  <2>3. IF out.ok THEN ToolAt' = "reopen" /\ ToolJob' = m ELSE ToolAt' = "idle"
    BY <1>5, <1>7, <2>1, <2>2
  <2>4. primary' = IF out.done THEN job[m].orig ELSE primary
    BY <1>4, <2>1, <2>2
  <2>5. Returns(m)'
    <3>1. CASE out.done
      BY <2>2, <2>4, <3>1
    <3>2. CASE ~out.done
      <4>1. UNCHANGED <<primary, previous>>
        BY <2>1, <3>2
      <4> QED
        BY <1>4, <2>2, <4>1
    <3> QED
      BY <3>1, <3>2
  <2>6. OnFile(m)'
    BY <1>4, <2>2, <2>4, <2>5
  <2>7. ToolAt' \in AtTool => AtTools(ToolAt, ToolJob)'
    BY <1>4, <1>5, <2>2, <2>3, <2>4
  <2> QED
    BY <1>6, <2>2, <2>4, <2>6, <2>7
<1>13. CASE Reopen("tool")
  <2>1. PICK ok \in BOOLEAN : Ends("tool", ok, "restart")
    BY <1>5, <1>13 DEF Reopen
  <2>2. ToolAt = "reopen" /\ UNCHANGED <<job, primary, previous, up, fresh>>
    BY <1>13 DEF Reopen
  <2>3. IF ok THEN ToolAt' = "restart" /\ ToolJob' = m ELSE ToolAt' = "idle"
    BY <1>7, <2>1, <2>2
  <2> QED
    BY <1>4, <1>6, <2>2, <2>3
<1> QED
  BY <1>8, <1>9, <1>10, <1>11, <1>12, <1>13

(* Asking, dying and starting again change no database; a sale needs the      *)
(* service that is stopped wherever a database may still be put aside.        *)
LEMMA RestSold ==
  ASSUME WInv, WInv', SInv,
         \/ \E j \in Jobs : Restore(j) \/ Recover(j)
         \/ CreateBackup \/ BackupEnds \/ Unlock \/ FreeLock
         \/ \E p \in Processes : Die(p)
         \/ StartsAgain \/ Sale \/ Reconcile \/ UNCHANGED rvars
  PROVE  SInv'
<1> USE DEF WInv, Papers, Hands, OneAtWork
<1>1. ASSUME UNCHANGED <<job, databases, up, fresh>>,
             ManagerAt' \in InJob => ManagerAt' = ManagerAt /\ ManagerJob' = ManagerJob,
             ToolAt' \in AtTool => \/ ToolAt' = ToolAt /\ ToolJob' = ToolJob
                                  \/ ToolAt' \in {"stop", "close"}
      PROVE  SInv'
  <2>1. Unbuilt' /\ \A j \in Jobs : OnFile(j)'
    BY <1>1 DEF SInv, Unbuilt, OnFile, CanUndo, Returns
  <2>2. ManagerAt' \in InJob => AtManager(ManagerAt, ManagerJob)'
    BY <1>1 DEF SInv, AtManager, CanUndo, Returns
  <2>3. ToolAt' \in AtTool => AtTools(ToolAt, ToolJob)'
    BY <1>1 DEF SInv, AtTools
  <2> QED
    BY <2>1, <2>2, <2>3 DEF SInv
<1>2. ASSUME NEW j \in Jobs, Restore(j) PROVE SInv'
  <2>1. CASE TurnedAway
    BY <1>1, <1>2, <2>1 DEF Restore, TurnedAway
  <2>2. CASE ~TurnedAway
    <3>1. PICK out \in Outcomes :
            /\ Saved(j, "queued", out.done)
            /\ IF out.ok
               THEN doing' = [doing EXCEPT !["manager"] = [at |-> "verifying", job |-> j, back |-> FALSE]]
               ELSE UNCHANGED doing
      BY <1>2, <2>2 DEF Restore
    <3>2. ManagerAt = "idle" /\ job[j].phase = "none" /\ UNCHANGED <<databases, up, fresh>>
      BY <1>2, <2>2 DEF Restore
    <3>3. j \notin fresh /\ primary # j /\ OnFile(j)
      BY <3>2 DEF SInv, Unbuilt
    <3>4. /\ \A k \in Jobs : job'[k].orig = job[k].orig /\ (k # j => job'[k] = job[k])
          /\ job'[j].phase \in {"none", "queued"}
      BY <3>1, <3>2 DEF Saved
    <3>5. Unbuilt'
      BY <3>2, <3>4 DEF SInv, Unbuilt
    <3>6. ASSUME NEW k \in Jobs PROVE OnFile(k)'
      <4>1. CASE k = j
        BY <3>2, <3>3, <3>4, <4>1 DEF OnFile, CanUndo
      <4>2. CASE k # j
        <5>1. job'[k] = job[k] /\ OnFile(k)
          BY <3>4, <4>2 DEF SInv
        <5> QED
          BY <3>2, <5>1 DEF OnFile, CanUndo, Returns
      <4> QED
        BY <4>1, <4>2
    <3>7. ManagerAt' \in InJob => ManagerAt' = "verifying" /\ ManagerJob' = j
      BY <3>1, <3>2
    <3>8. ManagerAt' \in InJob => AtManager(ManagerAt, ManagerJob)'
      BY <3>2, <3>3, <3>7 DEF AtManager, CanUndo
    <3>9. doing'["tool"] = doing["tool"]
      BY <3>1
    <3>10. ToolAt' \notin AtTool
      <4>1. CASE out.ok
        BY <3>1, <3>7, <4>1
      <4>2. CASE ~out.ok
        BY <1>2, <2>2, <3>9 DEF Restore, SomeOpen
      <4> QED
        BY <4>1, <4>2
    <3> QED
      BY <3>5, <3>6, <3>8, <3>10 DEF SInv
  <2> QED
    BY <2>1, <2>2
<1>3. ASSUME NEW j \in Jobs, Recover(j) PROVE SInv'
  BY <1>1, <1>3 DEF Recover
<1>4. CASE CreateBackup
  BY <1>1, <1>4 DEF CreateBackup, TurnedAway, Goes
<1>5. CASE BackupEnds
  BY <1>1, <1>5, ManagerEnds DEF BackupEnds
<1>6. CASE Unlock
  BY <1>1, <1>6 DEF Unlock, Idle
<1>7. CASE FreeLock
  BY <1>1, <1>7 DEF FreeLock
<1>8. ASSUME NEW p \in Processes, Die(p) PROVE SInv'
  <2>1. doing' = [doing EXCEPT ![p] = [at |-> IF p = "manager" THEN "dead" ELSE "idle", job |-> Absent, back |-> FALSE]]
    BY <1>8 DEF Die, Idle
  <2>2. UNCHANGED <<job, databases, up, fresh>>
    BY <1>8 DEF Die
  <2> QED
    BY <1>1, <2>1, <2>2
<1>9. CASE StartsAgain
  BY <1>1, <1>9, ManagerEnds DEF StartsAgain
<1>10. CASE Sale
  <2>1. /\ "api" \in up /\ fresh' = fresh \cup {primary}
        /\ UNCHANGED <<job, databases, up, doing>>
    BY <1>10 DEF Sale
  <2>2. Unbuilt'
    BY <2>1 DEF SInv, Unbuilt
  <2>3. ASSUME NEW j \in Jobs, CanUndo(j) PROVE CanUndo(j)'
    BY <2>1, <2>3 DEF CanUndo
  <2>4. ASSUME NEW j \in Jobs PROVE OnFile(j)'
    BY <2>1, <2>3 DEF SInv, OnFile, Returns
  <2>5. ManagerAt \in InJob => AtManager(ManagerAt, ManagerJob)'
    BY <2>1, <2>3 DEF SInv, AtManager, Returns
  <2> QED
    BY <2>1, <2>2, <2>4, <2>5 DEF SInv, AtTools
<1>11. CASE Reconcile
  <2>1. lock = "none" /\ ~SomeOpen /\ UNCHANGED <<job, databases, fresh, doing>>
    BY <1>11 DEF Reconcile
  <2>2. \A j \in Jobs : ~Open(j)
    BY <2>1 DEF SomeOpen
  <2>3. Unbuilt' /\ \A j \in Jobs : OnFile(j)'
    BY <2>1, <2>2 DEF SInv, Unbuilt, OnFile
  <2> QED
    BY <2>1, <2>2, <2>3 DEF SInv
<1>12. CASE UNCHANGED rvars
  BY <1>1, <1>12 DEF rvars
<1> QED
  BY <1>2, <1>3, <1>4, <1>5, <1>6, <1>7, <1>8, <1>9, <1>10, <1>11, <1>12

LEMMA SInvKept == WInv /\ SInv /\ [RestoreNext]_rvars => SInv'
<1> SUFFICES ASSUME WInv, SInv, [RestoreNext]_rvars PROVE SInv'
  OBVIOUS
<1>1. WInv'
  BY WInvKept
<1> QED
  BY <1>1, ManagerSold, ToolSold, RestSold DEF RestoreNext, JobSteps, ToolSteps, GoingBack

(* Only a renaming changes the names.                                         *)
LEMMA OnlyRenames ==
  ASSUME WInv, [RestoreNext]_rvars, primary' # primary \/ previous' # previous
  PROVE  Rename \/ RenameBack("manager") \/ RenameBack("tool")
<1>1. \A j \in Jobs : ~Restore(j) /\ ~Recover(j)
  BY DEF Restore, Recover
<1>2. ~CreateBackup /\ ~BackupEnds /\ ~SavePhase /\ ~Rehearse /\ ~Dump /\ ~Fence /\ ~Allow /\ ~Complete
  BY DEF CreateBackup, BackupEnds, SavePhase, Rehearse, Dump, Fence, Allow, Complete
<1>3. \A p \in Processes : \A there : ~StopServices(p, there)
  BY DEF StopServices
<1>4. \A p \in Processes : \A from, kinds, there : ~StartServices(p, from, kinds, there)
  BY DEF StartServices
<1>5. \A p \in Processes : ~Rollback(p) /\ ~Reopen(p) /\ ~Die(p)
  BY DEF Rollback, Reopen, Die
<1>6. ~ToolCloses /\ ~Unlock /\ ~FreeLock /\ ~Close /\ ~GiveUp /\ ~StartsAgain /\ ~Sale /\ ~Reconcile
  BY DEF ToolCloses, Unlock, FreeLock, Close, GiveUp, StartsAgain, Sale, Reconcile
<1>7. ~(UNCHANGED rvars)
  BY DEF rvars
<1> QED
  BY <1>1, <1>2, <1>3, <1>4, <1>5, <1>6, <1>7 DEF RestoreNext, JobSteps, ToolSteps, GoingBack

(* No entry is lost by a restore: what stops being the primary has nothing in *)
(* it that is not in a safety backup.  Going forward, the backup is made after *)
(* the services stop; going back, nobody could sell in the new database.      *)
THEOREM RestoreUndoesNoSale == RestoreSpec => NoSaleIsUndone
<1>1. RestoreInit => WInv /\ SInv
  BY Began, SoldBegan
<1>2. WInv /\ SInv /\ [RestoreNext]_rvars => (WInv /\ SInv)'
  BY WInvKept, SInvKept
<1>3. WInv /\ SInv /\ [RestoreNext]_rvars => [primary' # primary => primary \notin fresh]_rvars
  <2> SUFFICES ASSUME WInv, SInv, [RestoreNext]_rvars, primary' # primary
               PROVE  primary \notin fresh
    OBVIOUS
  <2>1. CASE Rename
    BY <2>1 DEF Rename, SInv, AtManager
  <2>2. CASE RenameBack("manager")
    BY <2>2 DEF RenameBack, SInv, AtManager, CanUndo
  <2>3. CASE RenameBack("tool")
    <3>1. ToolAt = "back" /\ ToolJob \in Jobs /\ primary = ToolJob
      BY <2>3 DEF RenameBack, SInv, AtTools, WInv, Hands
    <3>2. job[ToolJob].phase \in Renames
      BY <3>1 DEF WInv, OneAtWork
    <3> QED
      BY <3>1, <3>2 DEF SInv, OnFile, CanUndo
  <2> QED
    BY <2>1, <2>2, <2>3, OnlyRenames
<1> QED
  BY <1>1, <1>2, <1>3, PTL DEF RestoreSpec, NoSaleIsUndone

-----------------------------------------------------------------------------
(* The shop is served.                                                      *)

Active == record.phase = "active"
Reached == primary \in open

(* What the hook noted covers what runs and what should run. *)
ServicesKnown == IF Active THEN up \cup running \subseteq record.was ELSE running \subseteq up

ServedOnFile ==
  /\ ServicesKnown
  /\ ~SomeOpen => Reached /\ ~Active
  /\ \A j \in Jobs :
       /\ job[j].phase \in Recoverable \ Renames => Reached
       /\ job[j].phase \in Early => ~Active

ServedAtManager(at, j) ==
  /\ at \in Untouched \cup Stopped \cup {"validating", "resuming", "start", "completed", "restart", "close"} => Reached
  /\ at \in Untouched \cup {"close", "completed"} => ~Active
  /\ at \in Untouched \cup Stopped \cup Swapping \cup {"start", "undo", "back", "reopen", "restart"} => Open(j)
  /\ at \in Stopped \cup {"restart"} => job[j].phase \notin Early

ServedAtTool(at) ==
  /\ at \in {"restart", "close"} => Reached
  /\ at = "close" => ~Active

VInv ==
  /\ ServedOnFile
  /\ ManagerAt \in InJob => ServedAtManager(ManagerAt, ManagerJob)
  /\ ToolAt \in AtTool => ServedAtTool(ToolAt)

LEMMA ServedBegan == RestoreInit => VInv
BY RestoreConstants DEF RestoreInit, VInv, ServedOnFile, ServicesKnown, Active, Reached

(* A step of the manager: only its own job is open, or may have been closed.  *)
LEMMA ManagerServes ==
  ASSUME WInv, WInv', VInv, ManagerWorks, ServicesKnown',
         job'[ManagerJob].phase \in Recoverable \ Renames => Reached',
         job'[ManagerJob].phase \in Early => ~Active',
         job'[ManagerJob].phase \in Closed => Reached' /\ ~Active',
         ManagerAt' \in InJob => ServedAtManager(ManagerAt, ManagerJob)'
  PROVE  VInv'
<1> USE DEF WInv, Hands, OneAtWork, ManagerWorks
<1>1. ManagerJob \in Jobs /\ \A k \in Jobs : k # ManagerJob => ~Open(k) /\ job'[k] = job[k]
  OBVIOUS
<1>2. ~SomeOpen' => job'[ManagerJob].phase \in Closed
  BY <1>1 DEF SomeOpen
<1>3. ToolAt' \notin AtTool
  OBVIOUS
<1>4. ASSUME NEW j \in Jobs
      PROVE  /\ job'[j].phase \in Recoverable \ Renames => Reached'
             /\ job'[j].phase \in Early => ~Active'
  <2>1. CASE j = ManagerJob
    BY <2>1
  <2>2. CASE j # ManagerJob
    BY <1>1, <2>2
  <2> QED
    BY <2>1, <2>2
<1>5. ServedOnFile'
  BY <1>2, <1>4 DEF ServedOnFile
<1> QED
  BY <1>3, <1>5 DEF VInv

LEMMA ToolServes ==
  ASSUME WInv, WInv', VInv, ToolWorks, ServicesKnown',
         job'[ToolJob].phase \in Recoverable \ Renames => Reached',
         job'[ToolJob].phase \in Early => ~Active',
         job'[ToolJob].phase \in Closed => Reached' /\ ~Active',
         job'[ToolJob].phase # "none",
         ToolAt' \in AtTool => ServedAtTool(ToolAt)'
  PROVE  VInv'
<1> USE DEF WInv, Hands, OneAtWork, ToolWorks
<1>1. ToolJob \in Jobs /\ \A k \in Jobs : k # ToolJob => ~Open(k) /\ job'[k] = job[k]
  OBVIOUS
<1>2. ~SomeOpen' => job'[ToolJob].phase \in Closed
  BY <1>1 DEF SomeOpen
<1>3. ManagerAt' \notin InJob
  OBVIOUS
<1>4. ASSUME NEW j \in Jobs
      PROVE  /\ job'[j].phase \in Recoverable \ Renames => Reached'
             /\ job'[j].phase \in Early => ~Active'
  <2>1. CASE j = ToolJob
    BY <2>1
  <2>2. CASE j # ToolJob
    BY <1>1, <2>2
  <2> QED
    BY <2>1, <2>2
<1>5. ServedOnFile'
  BY <1>2, <1>4 DEF ServedOnFile
<1> QED
  BY <1>3, <1>5 DEF VInv

(* The hook, whoever calls it. *)
LEMMA Stops ==
  ASSUME ServicesKnown, NEW p \in Processes, NEW there, StopServices(p, there)
  PROVE  ServicesKnown'
<1>1. running' = running /\ up' \subseteq up /\ (record' = Noted \/ (record' = record /\ up' = up))
  BY DEF StopServices
<1>2. Noted.phase = "active" /\ up \cup running \subseteq Noted.was
  BY DEF Noted, ServicesKnown, Active
<1> QED
  BY <1>1, <1>2 DEF ServicesKnown, Active

LEMMA Starts ==
  ASSUME ServicesKnown, Papers, NEW p \in Processes, NEW from, NEW there,
         NEW kinds \in SUBSET Services, from = "start" \/ kinds = Services, StartServices(p, from, kinds, there)
  PROVE  /\ ServicesKnown'
         /\ Active' => Active
         /\ ~Active' \/ Fails(p)
<1>1. CASE /\ up' = Resumed(kinds) /\ record' = [record EXCEPT !.phase = "done"]
           /\ running' = IF from = "start" THEN up' ELSE running
  <2>1. ~Active' /\ up \subseteq up'
    BY <1>1 DEF Active, Resumed, Papers
  <2>2. running' \subseteq up'
    <3>1. CASE from = "start"
      BY <1>1, <3>1
    <3>2. CASE from # "start"
      <4>1. running' = running /\ up' = up \cup (record.was \cap Services) /\ record.was \subseteq Services
        BY <1>1, <3>2 DEF Resumed, Papers
      <4> QED
        BY <4>1 DEF ServicesKnown
    <3> QED
      BY <3>1, <3>2
  <2> QED
    BY <2>1, <2>2 DEF ServicesKnown
<1>2. CASE Fails(p) /\ UNCHANGED <<record, running>> /\ \E some \in SUBSET kinds : up' = Resumed(some)
  <2>1. up \subseteq up' /\ up' \subseteq up \cup record.was
    BY <1>2 DEF Resumed
  <2> QED
    BY <1>2, <2>1 DEF ServicesKnown, Active
<1> QED
  BY <1>1, <1>2 DEF StartServices

LEMMA ManagerServed ==
  ASSUME WInv, WInv', SInv, VInv,
         \/ SavePhase \/ Rehearse \/ Dump \/ Fence \/ Rename \/ Allow \/ Complete \/ Close \/ GiveUp
         \/ StopServices("manager", "safety_backup")
         \/ StartServices("manager", "start", {"api"}, "completed")
         \/ StartServices("manager", "restart", Services, "close")
         \/ Rollback("manager") \/ RenameBack("manager") \/ Reopen("manager")
  PROVE  VInv'
<1>1. ManagerWorks
  BY ManagerKept DEF Services
<1>2. PICK m \in Jobs : m = ManagerJob
  BY <1>1 DEF ManagerWorks, WInv, Hands
<1>3. WInv /\ Papers /\ Hands /\ OneAtWork
  BY DEF WInv
<1>4. /\ AtManager(ManagerAt, m) /\ ServedAtManager(ManagerAt, m) /\ ServicesKnown
      /\ ~SomeOpen => Reached /\ ~Active
      /\ job[m].phase \in Recoverable \ Renames => Reached
      /\ job[m].phase \in Early => ~Active
      /\ job[m].phase \in Phases \ {"none"}
  BY <1>1, <1>2, <1>3 DEF SInv, VInv, ServedOnFile, ManagerWorks, OneAtWork, Papers
<1>5. job[m].phase \in Closed => Reached /\ ~Active
  BY <1>1, <1>2, <1>3, <1>4 DEF SomeOpen, ManagerWorks, OneAtWork
<1> USE DEF AtManager, ServedAtManager
<1>6. ASSUME ServicesKnown',
             job'[m].phase \in Recoverable \ Renames => Reached',
             job'[m].phase \in Early => ~Active',
             job'[m].phase \in Closed => Reached' /\ ~Active',
             ManagerAt' \in InJob => ManagerJob' = m /\ ServedAtManager(ManagerAt, m)'
      PROVE  VInv'
  BY <1>1, <1>2, <1>6, ManagerServes
<1>7. ASSUME ManagerAt \in InJob, NEW there \in InJob, NEW ok \in BOOLEAN, Ends("manager", ok, there)
      PROVE  ManagerJob' = m /\ ManagerAt' = IF ok THEN there ELSE Caught(ManagerAt)
  BY <1>2, <1>3, <1>7, ManagerGoesTo
<1>8. \A out \in Outcomes : out.done \in BOOLEAN /\ out.ok \in BOOLEAN /\ (out.ok => out.done)
  BY DEF Outcomes
<1>9. ASSUME UNCHANGED services, UNCHANGED running PROVE ServicesKnown' /\ (Active' <=> Active)
  BY <1>4, <1>9 DEF ServicesKnown, Active
<1> USE DEF Reached
<1>10. CASE SavePhase
  <2>1. PICK out \in Outcomes : /\ Saved(m, ManagerAt, out.done)
                                /\ Ends("manager", out.ok, Following[ManagerAt])
    BY <1>2, <1>10 DEF SavePhase
  <2>2. ManagerAt \in DOMAIN Following /\ UNCHANGED <<primary, open>> /\ ServicesKnown' /\ (Active' <=> Active)
    BY <1>9, <1>10 DEF SavePhase
  <2>3. ManagerAt \in InJob /\ Following[ManagerAt] \in InJob
    BY <2>2 DEF Following
  <2>4. ManagerJob' = m /\ ManagerAt' = IF out.ok THEN Following[ManagerAt] ELSE Caught(ManagerAt)
    BY <1>7, <1>8, <2>1, <2>3
  <2>5. job'[m].phase = IF out.done THEN ManagerAt ELSE job[m].phase
    BY <1>3, <2>1 DEF Saved, Papers
  <2>6. CASE ManagerAt \in Untouched
    <3>1. ManagerAt' \in {"rehearsing", "rehearse", "stop", "close"} /\ Reached' /\ ~Active'
      BY <1>4, <2>2, <2>3, <2>4, <2>6, CaughtIn DEF Following
    <3>2. job'[m].phase \notin Closed \cup {"none"}
      BY <1>4, <2>5, <2>6
    <3>3. ManagerAt' = "stop" => job'[m].phase \notin Early
      BY <1>8, <2>2, <2>4, <2>5, <2>6, CaughtIn DEF Following
    <3> QED
      BY <1>6, <2>2, <2>4, <3>1, <3>2, <3>3
  <2>7. CASE ManagerAt \in Stopped
    <3>1. ManagerAt' \in {"dump", "fence", "restart"} /\ Reached'
      BY <1>4, <2>2, <2>3, <2>4, <2>7, CaughtIn DEF Following
    <3>2. job'[m].phase \notin Closed \cup {"none"} \cup Early
      BY <1>4, <2>2, <2>5, <2>7 DEF Following
    <3> QED
      BY <1>6, <2>2, <2>4, <3>1, <3>2
  <2>8. CASE ManagerAt \in Swapping
    <3>1. ManagerAt' \in {"resuming", "start", "undo"} /\ Reached' /\ ManagerAt \in {"validating", "resuming"}
      BY <1>4, <2>2, <2>3, <2>4, <2>8, CaughtIn DEF Following
    <3>2. job'[m].phase \notin Closed \cup {"none"} \cup (Recoverable \ Renames)
      BY <1>4, <2>5, <3>1
    <3> QED
      BY <1>6, <2>2, <2>4, <3>1, <3>2
  <2> QED
    BY <2>2, <2>6, <2>7, <2>8 DEF Following
<1>11. CASE Rehearse
  <2>1. PICK ok \in BOOLEAN : Ends("manager", ok, "quiescing")
    BY <1>8, <1>11 DEF Rehearse
  <2>2. /\ ManagerAt = "rehearse" /\ primary' = primary /\ open \subseteq open'
        /\ ServicesKnown' /\ (Active' <=> Active)
    BY <1>9, <1>11 DEF Rehearse, Opened
  <2>3. ManagerJob' = m /\ ManagerAt' \in {"quiescing", "close"}
    BY <1>7, <2>1, <2>2 DEF Caught
  <2>4. job'[m].phase = job[m].phase
    BY <1>2, <1>3, <1>11 DEF Rehearse, Papers
  <2> QED
    BY <1>4, <1>6, <2>2, <2>3, <2>4
<1>12. CASE Dump
  <2>1. PICK ok \in BOOLEAN : Ends("manager", ok, "swapping")
    BY <1>12 DEF Dump
  <2>2. ManagerAt = "dump" /\ UNCHANGED <<job, primary, open>> /\ ServicesKnown' /\ (Active' <=> Active)
    BY <1>9, <1>12 DEF Dump
  <2>3. ManagerJob' = m /\ ManagerAt' \in {"swapping", "restart"}
    BY <1>7, <2>1, <2>2 DEF Caught
  <2> QED
    BY <1>4, <1>6, <2>2, <2>3
<1>13. CASE Fence \/ Rename
  <2>1. PICK ok \in BOOLEAN, there \in {"rename", "allow"} : Ends("manager", ok, there)
    BY <1>8, <1>13 DEF Fence, Rename, Ends
  <2>2. ManagerAt \in {"fence", "rename"} /\ job' = job /\ ServicesKnown' /\ (Active' <=> Active)
    BY <1>9, <1>13 DEF Fence, Rename
  <2>3. ManagerJob' = m /\ ManagerAt' \in {"rename", "allow", "undo"}
    BY <1>7, <2>1, <2>2 DEF Caught
  <2>4. Open(m) /\ job[m].phase \notin Recoverable \ Renames
    BY <1>4, <2>2
  <2> QED
    BY <1>6, <2>2, <2>3, <2>4
<1>14. CASE Allow
  <2>1. PICK ok \in BOOLEAN : Ends("manager", ok, "validating") /\ (ok => Reached')
    BY <1>8, <1>14 DEF Allow, Opened
  <2>2. ManagerAt = "allow" /\ job' = job /\ ServicesKnown' /\ (Active' <=> Active)
    BY <1>9, <1>14 DEF Allow
  <2>3. ManagerJob' = m /\ ManagerAt' = IF ok THEN "validating" ELSE "undo"
    BY <1>7, <2>1, <2>2 DEF Caught
  <2>4. Open(m) /\ job[m].phase \notin Recoverable \ Renames
    BY <1>4, <2>2
  <2> QED
    BY <1>6, <2>1, <2>2, <2>3, <2>4
<1>15. CASE Complete \/ Close
  <2>1. PICK end \in Closed, done \in BOOLEAN : Saved(m, end, done)
    BY <1>2, <1>15 DEF Complete, Close
  <2>2. /\ ManagerAt \in {"completed", "close"} /\ UNCHANGED <<primary, open>>
        /\ ServicesKnown' /\ (Active' <=> Active)
    BY <1>9, <1>15 DEF Complete, Close
  <2>3. Reached /\ ~Active
    BY <1>4, <2>2
  <2>4. ManagerAt' \in InJob => ManagerAt' = "manual" /\ ManagerJob' = m
    <3>1. Idle("manager") \/ Ends("manager", FALSE, "close")
      BY <1>15 DEF Complete, Close, Ends
    <3>2. CASE Idle("manager")
      BY <1>3, <2>2, <3>2, ManagerEnds
    <3>3. CASE Ends("manager", FALSE, "close")
      BY <1>7, <2>2, <3>3 DEF Caught
    <3> QED
      BY <3>1, <3>2, <3>3
  <2> QED
    BY <1>6, <2>2, <2>3, <2>4
<1>16. CASE GiveUp
  <2>1. ManagerAt = "manual" /\ UNCHANGED <<primary, open>> /\ ServicesKnown' /\ (Active' <=> Active)
    BY <1>9, <1>16 DEF GiveUp
  <2>2. job'[m].phase \in {job[m].phase, "manual_recovery"}
    BY <1>2, <1>3, <1>16 DEF GiveUp, Saved, Papers
  <2>3. ManagerAt' \notin InJob
    BY <1>3, <1>16, <2>1, ManagerEnds DEF GiveUp
  <2> QED
    BY <1>4, <1>5, <1>6, <2>1, <2>2, <2>3
<1>17. CASE StopServices("manager", "safety_backup")
  <2>1. PICK ok \in BOOLEAN : Ends("manager", ok, "safety_backup")
    BY <1>17 DEF StopServices, Ends
  <2>2. ManagerAt = "stop" /\ UNCHANGED <<job, primary, open>> /\ ServicesKnown'
    BY <1>4, <1>17, Stops DEF StopServices
  <2>3. ManagerJob' = m /\ ManagerAt' \in {"safety_backup", "restart"}
    BY <1>7, <2>1, <2>2 DEF Caught
  <2> QED
    BY <1>4, <1>6, <2>2, <2>3
<1>18. CASE StartServices("manager", "start", {"api"}, "completed")
  <2>1. PICK ok \in BOOLEAN : Ends("manager", ok, "completed") /\ (ok => ~Active')
    BY <1>3, <1>18 DEF StartServices, Ends, Active, Papers
  <2>2. ManagerAt = "start" /\ UNCHANGED <<job, primary, open>>
    BY <1>18 DEF StartServices
  <2>3. ManagerJob' = m /\ ManagerAt' = IF ok THEN "completed" ELSE "manual"
    BY <1>7, <2>1, <2>2, CaughtIn
  <2>4. ServicesKnown' /\ (Active' => Active)
    BY <1>3, <1>4, <1>18, Starts DEF Services
  <2> QED
    BY <1>4, <1>6, <2>1, <2>2, <2>3, <2>4
<1>19. CASE StartServices("manager", "restart", Services, "close")
  <2>1. PICK ok \in BOOLEAN : Ends("manager", ok, "close") /\ (ok => ~Active')
    BY <1>3, <1>19 DEF StartServices, Ends, Active, Papers
  <2>2. ManagerAt = "restart" /\ UNCHANGED <<job, primary, open>>
    BY <1>19 DEF StartServices
  <2>3. ManagerJob' = m /\ ManagerAt' = IF ok THEN "close" ELSE "manual"
    BY <1>7, <2>1, <2>2, CaughtIn
  <2>4. ServicesKnown' /\ (Active' => Active)
    BY <1>3, <1>4, <1>19, Starts
  <2> QED
    BY <1>4, <1>6, <2>1, <2>2, <2>3, <2>4
<1>20. CASE Rollback("manager") \/ RenameBack("manager") \/ Reopen("manager")
  <2>1. PICK ok \in BOOLEAN, there \in {"restart", "back", "reopen"} :
          Ends("manager", ok, there) /\ (ok /\ there = "restart" => Reached')
    BY <1>8, <1>20 DEF Rollback, AlreadyBack, FenceAgain, RenameBack, Reopen, Opened, Ends
  <2>2. ManagerAt \in {"undo", "back", "reopen"} /\ job' = job /\ ServicesKnown' /\ (Active' <=> Active)
    BY <1>9, <1>20 DEF Rollback, RenameBack, Reopen
  <2>3. ManagerJob' = m /\ ManagerAt' = IF ok THEN there ELSE "manual"
    BY <1>7, <2>1, <2>2, CaughtIn
  <2>4. Open(m) /\ job[m].phase \notin Recoverable \ Renames
    BY <1>4, <2>2
  <2> QED
    BY <1>6, <2>1, <2>2, <2>3, <2>4
<1> QED
  BY <1>10, <1>11, <1>12, <1>13, <1>14, <1>15, <1>16, <1>17, <1>18, <1>19, <1>20

LEMMA ToolServed ==
  ASSUME WInv, WInv', SInv, VInv,
         \/ ToolCloses
         \/ StopServices("tool", IF job[ToolJob].phase \in Renames THEN "undo" ELSE "restart")
         \/ StartServices("tool", "restart", Services, "close")
         \/ Rollback("tool") \/ RenameBack("tool") \/ Reopen("tool")
  PROVE  VInv'
<1>1. ToolWorks
  BY ToolKept
<1>2. PICK m \in Jobs : m = ToolJob
  BY <1>1 DEF ToolWorks, WInv, Hands
<1>3. WInv /\ Papers /\ Hands /\ OneAtWork
  BY DEF WInv
<1>4. /\ ServedAtTool(ToolAt) /\ ServicesKnown
      /\ job[m].phase \in IF ToolAt = "close" THEN Recoverable ELSE Touched
      /\ ToolAt \in {"undo", "back", "reopen"} => job[m].phase \in Renames
      /\ job[m].phase \in Recoverable \ Renames => Reached
      /\ job[m].phase \in Early => ~Active
  BY <1>1, <1>2, <1>3 DEF VInv, ServedOnFile, ToolWorks, OneAtWork
<1> USE DEF ServedAtTool
<1>5. ASSUME ServicesKnown',
             job'[m].phase \in Recoverable \ Renames => Reached',
             job'[m].phase \in Early => ~Active',
             job'[m].phase \in Closed => Reached' /\ ~Active',
             job'[m].phase # "none",
             ToolAt' \in AtTool => ServedAtTool(ToolAt)'
      PROVE  VInv'
  BY <1>1, <1>2, <1>5, ToolServes
<1>6. ASSUME ToolAt \in AtTool, NEW there \in AtTool \cup {"unlock"}, NEW ok \in BOOLEAN, Ends("tool", ok, there)
      PROVE  ToolAt' = IF ok THEN there ELSE "idle"
  BY <1>3, <1>6, ToolGoesTo
<1>7. \A out \in Outcomes : out.done \in BOOLEAN /\ out.ok \in BOOLEAN /\ (out.ok => out.done)
  BY DEF Outcomes
<1>8. ASSUME UNCHANGED services, UNCHANGED running PROVE ServicesKnown' /\ (Active' <=> Active)
  BY <1>4, <1>8 DEF ServicesKnown, Active
<1> USE DEF Reached
<1>9. CASE ToolCloses
  <2>1. PICK end \in {"failed", "rolled_back"}, out \in Outcomes :
          Saved(m, end, out.done) /\ Ends("tool", out.ok, "unlock")
    BY <1>2, <1>9 DEF ToolCloses
  <2>2. ToolAt = "close" /\ UNCHANGED <<primary, open>> /\ ServicesKnown' /\ (Active' <=> Active)
    BY <1>8, <1>9 DEF ToolCloses
  <2>3. job'[m].phase \in {job[m].phase, end}
    BY <1>3, <2>1 DEF Saved, Papers
  <2>4. ToolAt' \in {"unlock", "idle"}
    BY <1>6, <1>7, <2>1, <2>2
  <2> QED
    BY <1>4, <1>5, <2>2, <2>3, <2>4
<1>10. CASE StopServices("tool", IF job[ToolJob].phase \in Renames THEN "undo" ELSE "restart")
  <2>1. PICK ok \in BOOLEAN, there \in {"undo", "restart"} :
          Ends("tool", ok, there) /\ (there = "restart" => job[m].phase \notin Renames)
    BY <1>2, <1>10 DEF StopServices, Ends
  <2>2. ToolAt = "stop" /\ UNCHANGED <<job, primary, open>> /\ ServicesKnown'
    BY <1>4, <1>10, Stops DEF StopServices
  <2>3. ToolAt' \in {there, "idle"}
    BY <1>6, <2>1, <2>2
  <2>4. job[m].phase \in Touched
    BY <1>4, <2>2
  <2> QED
    BY <1>4, <1>5, <2>1, <2>2, <2>3, <2>4
<1>11. CASE StartServices("tool", "restart", Services, "close")
  <2>1. PICK ok \in BOOLEAN : Ends("tool", ok, "close") /\ (ok => ~Active')
    BY <1>3, <1>11 DEF StartServices, Ends, Active, Papers
  <2>2. ToolAt = "restart" /\ UNCHANGED <<job, primary, open>>
    BY <1>11 DEF StartServices
  <2>3. ToolAt' = IF ok THEN "close" ELSE "idle"
    BY <1>6, <2>1, <2>2
  <2>4. ServicesKnown' /\ (Active' => Active)
    BY <1>3, <1>4, <1>11, Starts
  <2> QED
    BY <1>4, <1>5, <2>1, <2>2, <2>3, <2>4
<1>12. CASE Rollback("tool") \/ RenameBack("tool") \/ Reopen("tool")
  <2>1. PICK ok \in BOOLEAN, there \in {"restart", "back", "reopen"} :
          Ends("tool", ok, there) /\ (ok /\ there = "restart" => Reached')
    BY <1>7, <1>12 DEF Rollback, AlreadyBack, FenceAgain, RenameBack, Reopen, Opened, Ends
  <2>2. ToolAt \in {"undo", "back", "reopen"} /\ job' = job /\ ServicesKnown' /\ (Active' <=> Active)
    BY <1>8, <1>12 DEF Rollback, RenameBack, Reopen
  <2>3. ToolAt' = IF ok THEN there ELSE "idle"
    BY <1>6, <2>1, <2>2
  <2> QED
    BY <1>4, <1>5, <2>1, <2>2, <2>3
<1> QED
  BY <1>9, <1>10, <1>11, <1>12

LEMMA RestServed ==
  ASSUME WInv, VInv,
         \/ \E j \in Jobs : Restore(j) \/ Recover(j)
         \/ CreateBackup \/ BackupEnds \/ Unlock \/ FreeLock
         \/ \E p \in Processes : Die(p)
         \/ StartsAgain \/ Sale \/ Reconcile \/ UNCHANGED rvars
  PROVE  VInv'
<1> USE DEF WInv, Papers, Hands, OneAtWork
<1>1. ASSUME UNCHANGED <<job, primary, open, services, running>>,
             ManagerAt' \in InJob => ManagerAt' = ManagerAt /\ ManagerJob' = ManagerJob,
             ToolAt' \in AtTool => \/ ToolAt' = ToolAt
                                   \/ ServedAtTool(ToolAt)'
      PROVE  VInv'
  <2>1. ServedOnFile'
    BY <1>1 DEF VInv, ServedOnFile, ServicesKnown, SomeOpen, Reached, Active
  <2>2. ManagerAt' \in InJob => ServedAtManager(ManagerAt, ManagerJob)'
    BY <1>1 DEF VInv, ServedAtManager, Reached, Active
  <2>3. ToolAt' \in AtTool => ServedAtTool(ToolAt)'
    BY <1>1 DEF VInv, ServedAtTool, Reached, Active
  <2> QED
    BY <2>1, <2>2, <2>3 DEF VInv
<1>2. ASSUME NEW j \in Jobs, Restore(j) PROVE VInv'
  <2>1. CASE TurnedAway
    BY <1>1, <1>2, <2>1 DEF Restore, TurnedAway
  <2>2. CASE ~TurnedAway
    <3>1. PICK out \in Outcomes :
            /\ Saved(j, "queued", out.done)
            /\ IF out.ok
               THEN doing' = [doing EXCEPT !["manager"] = [at |-> "verifying", job |-> j, back |-> FALSE]]
               ELSE UNCHANGED doing
      BY <1>2, <2>2 DEF Restore
    <3>2. /\ ManagerAt = "idle" /\ job[j].phase = "none" /\ ~SomeOpen
          /\ UNCHANGED <<primary, open, services, running>>
      BY <1>2, <2>2 DEF Restore
    <3>3. Reached' /\ ~Active' /\ ServicesKnown'
      BY <3>2 DEF VInv, ServedOnFile, ServicesKnown, Reached, Active
    <3>4. ServedOnFile'
      BY <3>3 DEF ServedOnFile
    <3>5. ManagerAt' \in InJob => ManagerAt' = "verifying" /\ ManagerJob' = j /\ out.ok
      BY <3>1, <3>2
    <3>6. out.ok => job'[j].phase = "queued"
      BY <3>1 DEF Saved, Outcomes
    <3>7. ManagerAt' \in InJob => ServedAtManager(ManagerAt, ManagerJob)'
      BY <3>3, <3>5, <3>6 DEF ServedAtManager
    <3>8. ToolAt' \notin AtTool
      BY <3>1, <3>2 DEF SomeOpen
    <3> QED
      BY <3>4, <3>7, <3>8 DEF VInv
  <2> QED
    BY <2>1, <2>2
<1>3. ASSUME NEW j \in Jobs, Recover(j) PROVE VInv'
  <2>1. ToolAt' = IF job[j].phase \in Early THEN "close" ELSE "stop"
    BY <1>3 DEF Recover
  <2>2. ServedAtTool(ToolAt)'
    BY <1>3, <2>1 DEF Recover, ServedAtTool, VInv, ServedOnFile, Reached, Active
  <2> QED
    BY <1>1, <1>3, <2>2 DEF Recover
<1>4. CASE CreateBackup
  BY <1>1, <1>4 DEF CreateBackup, TurnedAway, Goes
<1>5. CASE BackupEnds
  BY <1>1, <1>5, ManagerEnds DEF BackupEnds
<1>6. CASE Unlock
  BY <1>1, <1>6 DEF Unlock, Idle
<1>7. CASE FreeLock
  BY <1>1, <1>7 DEF FreeLock
<1>8. ASSUME NEW p \in Processes, Die(p) PROVE VInv'
  <2>1. doing' = [doing EXCEPT ![p] = [at |-> IF p = "manager" THEN "dead" ELSE "idle", job |-> Absent, back |-> FALSE]]
    BY <1>8 DEF Die, Idle
  <2>2. UNCHANGED <<job, primary, open, services, running>>
    BY <1>8 DEF Die
  <2> QED
    BY <1>1, <2>1, <2>2
<1>9. CASE StartsAgain
  BY <1>1, <1>9, ManagerEnds DEF StartsAgain
<1>10. CASE Sale
  BY <1>1, <1>10 DEF Sale
<1>11. CASE Reconcile
  <2>1. lock = "none" /\ ~SomeOpen /\ UNCHANGED <<job, databases, record, doing>> /\ up' = Services /\ running' = Services
    BY <1>11 DEF Reconcile
  <2>2. ServedOnFile'
    BY <2>1 DEF VInv, ServedOnFile, ServicesKnown, SomeOpen, Reached, Active
  <2>3. ToolAt' \notin AtTool /\ ManagerAt' \notin InJob
    BY <2>1 DEF SomeOpen
  <2> QED
    BY <2>2, <2>3 DEF VInv
<1>12. CASE UNCHANGED rvars
  BY <1>1, <1>12 DEF rvars
<1> QED
  BY <1>2, <1>3, <1>4, <1>5, <1>6, <1>7, <1>8, <1>9, <1>10, <1>11, <1>12

LEMMA VInvKept == WInv /\ SInv /\ VInv /\ [RestoreNext]_rvars => VInv'
<1> SUFFICES ASSUME WInv, SInv, VInv, [RestoreNext]_rvars PROVE VInv'
  OBVIOUS
<1>1. WInv'
  BY WInvKept
<1> QED
  BY <1>1, ManagerServed, ToolServed, RestServed DEF RestoreNext, JobSteps, ToolSteps, GoingBack

(* Whatever step fails and whichever process dies: when every job is closed the *)
(* shop is served, and a job that was cut short can be undone.               *)
THEOREM RestoreLeavesAService == RestoreSpec => []LeavesAService
<1>1. RestoreInit => WInv /\ SInv /\ VInv
  BY Began, SoldBegan, ServedBegan
<1>2. WInv /\ SInv /\ VInv /\ [RestoreNext]_rvars => (WInv /\ SInv /\ VInv)'
  BY WInvKept, SInvKept, VInvKept
<1>3. WInv /\ SInv /\ VInv => LeavesAService
  <2> SUFFICES ASSUME WInv, SInv, VInv PROVE LeavesAService
    OBVIOUS
  <2>1. Served
    BY DEF VInv, ServedOnFile, ServicesKnown, Served, Reached
  <2>2. CanGoBack
    BY DEF SInv, OnFile, Returns, CanGoBack
  <2> QED
    BY <2>1, <2>2 DEF LeavesAService
<1> QED
  BY <1>1, <1>2, <1>3, PTL DEF RestoreSpec

-----------------------------------------------------------------------------
(* A database has one name.                                                 *)

Forward == Untouched \cup Stopped \cup {"fence", "rename"}

Sizes ==
  /\ staged \subseteq Jobs /\ open \subseteq Databases /\ fresh \subseteq Databases
  /\ running \subseteq Services
  /\ faults \in 0 .. MaxFaults /\ deaths \in 0 .. MaxDeaths

Names ==
  /\ primary \in Databases
  /\ \A j \in Jobs : job[j].phase = "none" => previous[j] = Absent
  /\ \A j \in Jobs : previous[j] = Absent => primary # j /\ \A k \in Jobs : previous[k] # j
  /\ \A j \in Jobs : previous[j] # primary
  /\ \A j, k \in Jobs : previous[j] = previous[k] /\ previous[j] # Absent => j = k
  /\ ManagerAt \in Forward => previous[ManagerJob] = Absent

NInv == Sizes /\ Names

LEMMA NamesBegan == RestoreInit => NInv
<1> SUFFICES ASSUME RestoreInit PROVE Sizes /\ Names
  BY DEF NInv
<1>1. Sizes
  BY RestoreConstants DEF RestoreInit, Sizes
<1>2. primary = First /\ ManagerAt = "idle" /\ \A j \in Jobs : previous[j] = Absent
  BY DEF RestoreInit
<1>3. Absent \notin Jobs /\ First \notin Jobs /\ Absent # First
  BY RestoreConstants
<1> QED
  BY <1>1, <1>2, <1>3 DEF Names, Forward

(* What was not begun was not renamed; the manager goes forward from there.   *)
LEMMA GoesForward ==
  ASSUME WInv, [RestoreNext]_rvars
  PROVE  /\ \A j \in Jobs : job'[j].phase = "none" => job[j].phase = "none"
         /\ ManagerAt' \in Forward =>
              \/ ManagerAt \in Forward /\ ManagerJob' = ManagerJob
              \/ job[ManagerJob'].phase = "none" /\ ManagerJob' \in Jobs
<1> USE DEF Forward
<1> WInv /\ Papers /\ Hands /\ OneAtWork
  BY DEF WInv
<1> DEFINE Kept == \A j \in Jobs : job'[j].phase = "none" => job[j].phase = "none"
           Going == ManagerAt' \in Forward =>
                      \/ ManagerAt \in Forward /\ ManagerJob' = ManagerJob
                      \/ job[ManagerJob'].phase = "none" /\ ManagerJob' \in Jobs
<1>1. ASSUME ManagerWorks, ManagerAt' \in Forward => ManagerAt \in Forward
      PROVE  Kept /\ Going
  BY <1>1 DEF ManagerWorks, Hands
<1>2. ASSUME job' = job, ManagerAt' \in Forward => doing'["manager"] = doing["manager"]
      PROVE  Kept /\ Going
  BY <1>2
<1>3. ASSUME ManagerAt \in InJob, NEW there \in InJob, NEW ok \in BOOLEAN, Ends("manager", ok, there),
             there \in Forward => ManagerAt \in Forward
      PROVE  ManagerAt' \in Forward => ManagerAt \in Forward
  BY <1>3, ManagerGoesTo, CaughtIn
<1>4. \A out \in Outcomes : out.ok \in BOOLEAN
  BY DEF Outcomes
<1>5. ASSUME \/ SavePhase \/ Rehearse \/ Dump \/ Fence \/ Rename \/ Allow \/ Complete \/ Close \/ GiveUp
             \/ StopServices("manager", "safety_backup")
             \/ StartServices("manager", "start", {"api"}, "completed")
             \/ StartServices("manager", "restart", Services, "close")
             \/ Rollback("manager") \/ RenameBack("manager") \/ Reopen("manager")
      PROVE  Kept /\ Going
  <2>1. ManagerWorks
    BY <1>5, ManagerKept DEF Services
  <2>2. CASE SavePhase
    <3>1. ManagerAt \in DOMAIN Following /\ \E ok \in BOOLEAN : Ends("manager", ok, Following[ManagerAt])
      BY <1>4, <2>2 DEF SavePhase
    <3>2. /\ ManagerAt \in InJob /\ Following[ManagerAt] \in InJob
          /\ Following[ManagerAt] \in Forward => ManagerAt \in Forward
      BY <3>1 DEF Following
    <3> QED
      BY <1>1, <1>3, <2>1, <3>1, <3>2
  <2>3. CASE Rehearse \/ Dump \/ Fence \/ Rename \/ StopServices("manager", "safety_backup")
    <3>1. ManagerAt \in Forward
      BY <2>3 DEF Rehearse, Dump, Fence, Rename, StopServices
    <3> QED
      BY <1>1, <2>1, <3>1
  <2>4. CASE \/ Allow \/ StartServices("manager", "start", {"api"}, "completed")
             \/ StartServices("manager", "restart", Services, "close")
             \/ Rollback("manager") \/ RenameBack("manager") \/ Reopen("manager")
    <3>1. \E ok \in BOOLEAN, there \in {"validating", "completed", "close", "restart", "back", "reopen"} :
            Ends("manager", ok, there)
      BY <1>4, <2>4 DEF Allow, StartServices, Rollback, AlreadyBack, FenceAgain, RenameBack, Reopen, Ends
    <3>2. ManagerAt \in InJob
      BY <2>4 DEF Allow, StartServices, Rollback, RenameBack, Reopen
    <3> QED
      BY <1>1, <1>3, <2>1, <3>1, <3>2
  <2>5. CASE Complete \/ Close \/ GiveUp
    <3>1. ManagerAt \in InJob /\ (Idle("manager") \/ Ends("manager", FALSE, "close"))
      BY <2>5 DEF Complete, Close, GiveUp, Ends
    <3>2. CASE Idle("manager")
      BY <1>1, <2>1, <3>1, <3>2, ManagerEnds
    <3>3. CASE Ends("manager", FALSE, "close")
      BY <1>1, <1>3, <2>1, <3>1, <3>3
    <3> QED
      BY <3>1, <3>2, <3>3
  <2> QED
    BY <1>5, <2>2, <2>3, <2>4, <2>5
<1>6. ASSUME \/ ToolCloses
             \/ StopServices("tool", IF job[ToolJob].phase \in Renames THEN "undo" ELSE "restart")
             \/ StartServices("tool", "restart", Services, "close")
             \/ Rollback("tool") \/ RenameBack("tool") \/ Reopen("tool")
      PROVE  Kept /\ Going
  <2>1. ToolWorks
    BY <1>6, ToolKept
  <2>2. job' = job \/ ToolCloses
    BY <1>6 DEF StopServices, StartServices, Rollback, RenameBack, Reopen
  <2>3. CASE ToolCloses
    <3>1. PICK end \in {"failed", "rolled_back"}, done \in BOOLEAN : Saved(ToolJob, end, done)
      BY <1>4, <2>3 DEF ToolCloses, Outcomes
    <3>2. Kept
      BY <3>1 DEF Saved, Papers
    <3> QED
      BY <2>1, <3>2 DEF ToolWorks
  <2> QED
    BY <1>2, <2>1, <2>2, <2>3 DEF ToolWorks
<1>7. ASSUME NEW j \in Jobs, Restore(j) PROVE Kept /\ Going
  <2>1. job' = job \/ job' = [job EXCEPT ![j].phase = "queued"]
    BY <1>7 DEF Restore, TurnedAway, Saved
  <2>2. \/ doing' = doing
        \/ /\ doing' = [doing EXCEPT !["manager"] = [at |-> "verifying", job |-> j, back |-> FALSE]]
           /\ job[j].phase = "none"
    BY <1>7 DEF Restore, TurnedAway
  <2>3. Kept
    BY <2>1 DEF Papers
  <2>4. Going
    BY <2>2 DEF Hands
  <2> QED
    BY <2>3, <2>4
<1>8. ASSUME NEW j \in Jobs, Recover(j) PROVE Kept /\ Going
  BY <1>2, <1>8 DEF Recover
<1>9. CASE CreateBackup
  <2>1. job' = job /\ (doing' = doing \/ doing' = [doing EXCEPT !["manager"].at = "backup"])
    BY <1>9 DEF CreateBackup, TurnedAway, Goes
  <2>2. ManagerAt' \in Forward => doing'["manager"] = doing["manager"]
    BY <2>1 DEF Hands
  <2> QED
    BY <1>2, <2>1, <2>2
<1>10. CASE BackupEnds
  BY <1>2, <1>10, ManagerEnds DEF BackupEnds
<1>11. CASE Unlock
  BY <1>2, <1>11 DEF Unlock, Idle
<1>12. CASE FreeLock
  BY <1>2, <1>12 DEF FreeLock
<1>13. ASSUME NEW p \in Processes, Die(p) PROVE Kept /\ Going
  <2>1. doing' = [doing EXCEPT ![p] = [at |-> IF p = "manager" THEN "dead" ELSE "idle", job |-> Absent, back |-> FALSE]]
    BY <1>13 DEF Die, Idle
  <2> QED
    BY <1>2, <1>13, <2>1 DEF Die
<1>14. CASE StartsAgain
  BY <1>2, <1>14, ManagerEnds DEF StartsAgain
<1>15. CASE Sale \/ Reconcile \/ UNCHANGED rvars
  BY <1>2, <1>15 DEF Sale, Reconcile, rvars
<1> QED
  BY <1>5, <1>6, <1>7, <1>8, <1>9, <1>10, <1>11, <1>12, <1>13, <1>14, <1>15
  DEF RestoreNext, JobSteps, ToolSteps, GoingBack

LEMMA SizesKept == WInv /\ Sizes /\ primary \in Databases /\ [RestoreNext]_rvars => Sizes'
<1> SUFFICES ASSUME WInv, Sizes, primary \in Databases, [RestoreNext]_rvars PROVE Sizes'
  OBVIOUS
<1> USE RestoreConstants DEF Sizes, Ends, Fails, Opened, Idle
<1>1. ASSUME NEW j \in Jobs, Restore(j) \/ Recover(j) PROVE Sizes'
  BY <1>1 DEF Restore, Recover, TurnedAway
<1>2. CASE CreateBackup \/ BackupEnds \/ SavePhase
  BY <1>2 DEF CreateBackup, BackupEnds, SavePhase, TurnedAway
<1>3. CASE Rehearse \/ Dump
  BY <1>3 DEF Rehearse, Dump, WInv, Hands
<1>4. CASE Fence \/ Rename
  BY <1>4 DEF Fence, Rename
<1>5. CASE Allow \/ Complete \/ Close \/ GiveUp
  <2>1. CASE Allow
    BY <2>1 DEF Allow
  <2>2. CASE Complete \/ Close \/ GiveUp
    <3>1. UNCHANGED <<databases, deaths, watched>>
      BY <2>2 DEF Complete, Close, GiveUp
    <3>2. faults' = faults \/ (faults < MaxFaults /\ faults' = faults + 1)
      BY <2>2 DEF Complete, Close, GiveUp
    <3> QED
      BY <3>1, <3>2
  <2> QED
    BY <1>5, <2>1, <2>2
<1>6. ASSUME NEW p \in Processes, NEW there, StopServices(p, there) PROVE Sizes'
  BY <1>6 DEF StopServices
<1>7. ASSUME NEW p \in Processes, NEW from, NEW kinds, NEW there, StartServices(p, from, kinds, there) PROVE Sizes'
  BY <1>7 DEF StartServices, Resumed, WInv, Papers
<1>8. ASSUME NEW p \in Processes, Rollback(p) \/ RenameBack(p) \/ Reopen(p) PROVE Sizes'
  BY <1>8 DEF Rollback, AlreadyBack, FenceAgain, RenameBack, Reopen
<1>9. CASE ToolCloses \/ Unlock \/ FreeLock \/ StartsAgain
  BY <1>9 DEF ToolCloses, Unlock, FreeLock, StartsAgain
<1>10. ASSUME NEW p \in Processes, Die(p) PROVE Sizes'
  BY <1>10 DEF Die
<1>11. CASE Sale \/ Reconcile \/ UNCHANGED rvars
  BY <1>11 DEF Sale, Reconcile, rvars, WInv, Papers
<1> QED
  BY <1>1, <1>2, <1>3, <1>4, <1>5, <1>6, <1>7, <1>8, <1>9, <1>10, <1>11
  DEF RestoreNext, JobSteps, ToolSteps, GoingBack

(* The renaming gives each database a name of its own, and so does the one back. *)
LEMMA NamesKept == WInv /\ SInv /\ Names /\ [RestoreNext]_rvars => Names'
<1> SUFFICES ASSUME WInv, SInv, Names, [RestoreNext]_rvars PROVE Names'
  OBVIOUS
<1> USE RestoreConstants DEF Forward
<1>1. /\ \A j \in Jobs : job'[j].phase = "none" => job[j].phase = "none"
      /\ ManagerAt' \in Forward =>
           \/ ManagerAt \in Forward /\ ManagerJob' = ManagerJob
           \/ job[ManagerJob'].phase = "none" /\ ManagerJob' \in Jobs
  BY GoesForward
<1>2. CASE UNCHANGED <<primary, previous>>
  BY <1>1, <1>2 DEF Names
<1>3. CASE Rename
  <2>1. CASE UNCHANGED <<primary, previous>>
    BY <1>2, <2>1
  <2>2. CASE ~UNCHANGED <<primary, previous>>
    <3>1. PICK m \in Jobs : m = ManagerJob
      BY <1>3 DEF Rename, WInv, Hands
    <3>2. /\ primary' = m /\ previous' = [previous EXCEPT ![m] = primary]
          /\ previous[m] = Absent /\ job' = job /\ ManagerAt = "rename"
      BY <1>3, <2>2, <3>1 DEF Rename, Names
    <3>3. previous' = [k \in Jobs |-> IF k = m THEN primary ELSE previous[k]]
      BY <3>2 DEF WInv, Papers
    <3>4. primary # m /\ primary # Absent /\ \A k \in Jobs : previous[k] # m /\ previous[k] # primary
      BY <3>1, <3>2 DEF Names
    <3>5. ManagerAt' \notin Forward
      <4>1. \E ok \in BOOLEAN : Ends("manager", ok, "allow")
        BY <1>3 DEF Rename, Outcomes
      <4>2. ManagerAt' \in {"allow", "undo"}
        BY <3>2, <4>1, ManagerGoesTo, CaughtIn DEF WInv
      <4> QED
        BY <4>2
    <3>6. job[m].phase # "none"
      BY <3>1, <3>2 DEF WInv, OneAtWork
    <3>7. \A j \in Jobs : previous'[j] = Absent => primary' # j /\ \A k \in Jobs : previous'[k] # j
      BY <3>2, <3>3, <3>4 DEF Names
    <3>8. \A j, k \in Jobs : previous'[j] = previous'[k] /\ previous'[j] # Absent => j = k
      BY <3>3, <3>4 DEF Names
    <3> QED
      BY <3>2, <3>3, <3>4, <3>5, <3>6, <3>7, <3>8 DEF Names
  <2> QED
    BY <2>1, <2>2
<1>4. ASSUME NEW p \in Processes, RenameBack(p) PROVE Names'
  <2>1. CASE UNCHANGED <<primary, previous>>
    BY <1>2, <2>1
  <2>2. CASE ~UNCHANGED <<primary, previous>>
    <3>1. PICK m \in Jobs : m = Mine(p)
      BY <1>4 DEF RenameBack, WInv, Hands
    <3>2. /\ primary' = previous[m] /\ previous' = [previous EXCEPT ![m] = Absent]
          /\ primary = m /\ job' = job
      BY <1>4, <2>2, <3>1 DEF RenameBack, SInv, AtManager, AtTools
    <3>3. previous' = [k \in Jobs |-> IF k = m THEN Absent ELSE previous[k]]
      BY <3>2 DEF WInv, Papers
    <3>4. previous[m] # Absent /\ \A k \in Jobs : previous[k] # m
      BY <3>2 DEF Names
    <3>5. previous[m] \in Databases
      BY <3>4 DEF WInv, Papers
    <3>6. \A j \in Jobs : previous'[j] = Absent => primary' # j /\ \A k \in Jobs : previous'[k] # j
      BY <3>2, <3>3, <3>4 DEF Names
    <3>7. \A j \in Jobs : previous'[j] # primary'
      BY <3>2, <3>3, <3>4 DEF Names
    <3>8. ManagerAt' \notin Forward
      <4>1. CASE p = "manager"
        <5>1. \E ok \in BOOLEAN : Ends("manager", ok, "reopen")
          BY <1>4, <4>1 DEF RenameBack, Outcomes
        <5>2. ManagerAt = "back"
          BY <1>4, <4>1 DEF RenameBack
        <5>3. ManagerAt' \in {"reopen", "manual"}
          BY <5>1, <5>2, ManagerGoesTo, CaughtIn DEF WInv
        <5> QED
          BY <5>3
      <4>2. CASE p = "tool"
        <5>1. ToolWorks
          BY <1>4, <4>2, ToolKept
        <5> QED
          BY <5>1 DEF ToolWorks, WInv, OneAtWork
      <4> QED
        BY <4>1, <4>2
    <3>9. \A j, k \in Jobs : previous'[j] = previous'[k] /\ previous'[j] # Absent => j = k
      BY <3>3 DEF Names
    <3> QED
      BY <1>1, <3>2, <3>3, <3>5, <3>6, <3>7, <3>8, <3>9 DEF Names
  <2> QED
    BY <2>1, <2>2
<1>5. primary' # primary => Rename \/ RenameBack("manager") \/ RenameBack("tool")
  BY OnlyRenames
<1>6. previous' # previous => Rename \/ RenameBack("manager") \/ RenameBack("tool")
  BY OnlyRenames
<1> QED
  BY <1>2, <1>3, <1>4, <1>5, <1>6

(* The job files, the lock, the names of the databases and what the hook noted *)
(* keep their shapes.                                                        *)
THEOREM RestoreTypes == RestoreSpec => []RestoreTypeOK
<1>1. RestoreInit => WInv /\ SInv /\ NInv
  BY Began, SoldBegan, NamesBegan
<1>2. WInv /\ SInv /\ NInv /\ [RestoreNext]_rvars => (WInv /\ SInv /\ NInv)'
  BY WInvKept, SInvKept, SizesKept, NamesKept DEF NInv, Names
<1>3. WInv /\ NInv => RestoreTypeOK
  BY DEF WInv, Papers, NInv, Names, Sizes, RestoreTypeOK
<1> QED
  BY <1>1, <1>2, <1>3, PTL DEF RestoreSpec

=============================================================================
