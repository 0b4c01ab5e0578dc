----------------------------- MODULE RestoreJob ------------------------------
(* Restoring the core from a backup: the manager that runs a job, the driver   *)
(* that renames databases, the hook that stops and starts the services, and the *)
(* administrator's tool for a job whose manager died.                         *)
(*                                                                          *)
(* A database is known by its identity (oid): the first one, or the one that a *)
(* job builds from its backup.  Every step may fail, before or after it had its *)
(* effect, and both processes may die between any two steps.                  *)
EXTENDS Naturals

CONSTANTS
  Jobs,       \* operations, and the databases they build
  First,      \* the database the shop starts with
  Absent,    \* no database, no job
  MaxFaults,  \* how many steps fail
  MaxDeaths   \* how many times a process dies

ASSUME RestoreConstants ==
  /\ First \notin Jobs /\ Absent \notin Jobs \cup {First}
  /\ MaxFaults \in Nat /\ MaxDeaths \in Nat

VARIABLES
  job,        \* the job files: phase, and the database that was the primary
  lock,       \* operation.lock: none, of the living manager, or of a dead one
  primary,    \* the database that has the primary's name
  staged,     \* databases under the stage name of their job
  previous,   \* by job, the database under the job's previous name
  open,       \* databases that accept connections
  up,         \* services that run
  record,     \* writers.state of the hook: phase, and the services that ran
  doing,      \* what the manager and the tool are about to do, for which job
  faults, deaths,
  fresh,      \* databases with sales that no safety backup holds
  running     \* services that should run when no job is at work

files == <<job, lock>>
databases == <<primary, staged, previous, open>>
services == <<up, record>>
watched == <<fresh, running>>
rvars == <<files, databases, services, doing, faults, deaths, watched>>

Databases == Jobs \cup {First}
Services == {"api", "others"}         \* others: worker and scheduler
Closed == {"completed", "failed", "rolled_back"}
Processes == {"manager", "tool"}

RestoreInit ==
  /\ job = [j \in Jobs |-> [phase |-> "none", orig |-> Absent]]
  /\ lock = "none"
  /\ primary = First /\ staged = {} /\ open = {First}
  /\ previous = [j \in Jobs |-> Absent]
  /\ up = Services /\ record = [phase |-> "none", was |-> {}]
  /\ doing = [p \in Processes |-> [at |-> "idle", job |-> Absent, back |-> FALSE]]
  /\ faults = 0 /\ deaths = 0
  /\ fresh = {First} /\ running = Services

----------------------------------------------------------------------------
(* How a step ends.                                                          *)

At(p, where) == doing[p].at = where
Mine(p) == doing[p].job
Idle(p) == doing' = [doing EXCEPT ![p] = [at |-> "idle", job |-> Absent, back |-> FALSE]]
Goes(p, where) == doing' = [doing EXCEPT ![p].at = where]

(* Where the manager was when a step failed decides what it undoes.          *)
Untouched == {"verifying", "rehearsing", "rehearse", "quiescing"}
Stopped == {"stop", "safety_backup", "dump", "swapping"}
SwappingAndStarting == {"fence", "rename", "allow", "validating", "resuming", "start"}
Swapping == {"fence", "rename", "allow", "validating", "resuming"}

Caught(at) ==
  CASE at \in Untouched -> "close"
    [] at \in Stopped -> "restart"
    [] at \in Swapping -> "undo"
    [] OTHER -> "manual"

(* The manager catches a failure; the tool ends with it.                     *)
Fails(p) ==
  /\ faults < MaxFaults /\ faults' = faults + 1
  /\ IF p = "manager"
     THEN doing' = [doing EXCEPT ![p].at = Caught(@), ![p].back = doing[p].at \in Swapping \/ @]
     ELSE Idle(p)

Ends(p, ok, there) == IF ok THEN Goes(p, there) /\ UNCHANGED faults ELSE Fails(p)

(* A step that succeeds has its effect; one that fails may have it.           *)
Outcomes == {o \in [ok : BOOLEAN, done : BOOLEAN] : o.ok => o.done}

Saved(j, phase, done) == job' = IF done THEN [job EXCEPT ![j].phase = phase] ELSE job
Opened(d) == open' = open \cup {d}

----------------------------------------------------------------------------
(* Asking for an operation.                                                  *)

SomeOpen == \E j \in Jobs : job[j].phase \notin Closed \cup {"none"}

(* An unfinished job keeps the lock of whoever comes next.                    *)
TurnedAway == SomeOpen /\ lock' = "own" /\ UNCHANGED <<job, doing, faults>>

Restore(j) ==
  /\ At("manager", "idle") /\ lock = "none"
  /\ \/ TurnedAway
     \/ /\ ~SomeOpen /\ job[j].phase = "none"
        /\ \E out \in Outcomes :
             /\ Saved(j, "queued", out.done)
             /\ IF out.ok
                THEN /\ lock' = "own" /\ UNCHANGED faults
                     /\ doing' = [doing EXCEPT !["manager"] = [at |-> "verifying", job |-> j, back |-> FALSE]]
                ELSE faults < MaxFaults /\ faults' = faults + 1 /\ UNCHANGED <<lock, doing>>
  /\ UNCHANGED <<databases, services, deaths, watched>>

CreateBackup ==
  /\ At("manager", "idle") /\ lock = "none"
  /\ \/ TurnedAway
     \/ ~SomeOpen /\ lock' = "own" /\ Goes("manager", "backup") /\ UNCHANGED <<job, faults>>
  /\ UNCHANGED <<databases, services, deaths, watched>>

BackupEnds ==
  /\ At("manager", "backup") /\ Idle("manager") /\ lock' = "none"
  /\ UNCHANGED <<job, databases, services, faults, deaths, watched>>

----------------------------------------------------------------------------
(* A job of the manager, in order.                                           *)

Following ==
  [verifying |-> "rehearsing", rehearsing |-> "rehearse", quiescing |-> "stop", safety_backup |-> "dump",
   swapping |-> "fence", validating |-> "resuming", resuming |-> "start"]

(* A phase is saved before its work.  The checks of the backup, of the new     *)
(* database and of its books are failures after it.                          *)
SavePhase ==
  /\ doing["manager"].at \in DOMAIN Following
  /\ \E out \in Outcomes :
       /\ Saved(Mine("manager"), doing["manager"].at, out.done)
       /\ Ends("manager", out.ok, Following[doing["manager"].at])
  /\ UNCHANGED <<lock, databases, services, deaths, watched>>

Rehearse ==
  LET j == Mine("manager") IN
  /\ At("manager", "rehearse")
  /\ \E out \in Outcomes :
       /\ Ends("manager", out.ok, "quiescing")
       /\ IF out.done
          THEN staged' = staged \cup {j} /\ Opened(j) /\ job' = [job EXCEPT ![j].orig = primary]
          ELSE UNCHANGED <<staged, open, job>>
  /\ UNCHANGED <<lock, primary, previous, services, deaths, watched>>

Dump ==
  /\ At("manager", "dump")
  /\ \E ok \in BOOLEAN :
       /\ Ends("manager", ok, "swapping")
       /\ fresh' = IF ok THEN fresh \ {primary} ELSE fresh
  /\ UNCHANGED <<files, databases, services, deaths, running>>

Fence ==
  LET j == Mine("manager") IN
  /\ At("manager", "fence")
  /\ \/ /\ primary = job[j].orig /\ j \in staged
        /\ open' = open \ {primary, j} /\ Ends("manager", TRUE, "rename")
     \/ open' \in {open, open \ {primary}, open \ {primary, j}} /\ Fails("manager")
  /\ UNCHANGED <<files, primary, staged, previous, services, deaths, watched>>

Rename ==
  LET j == Mine("manager") IN
  /\ At("manager", "rename")
  /\ \E out \in Outcomes :
       /\ Ends("manager", out.ok, "allow")
       /\ IF out.done
          THEN primary' = j /\ staged' = staged \ {j} /\ previous' = [previous EXCEPT ![j] = primary]
          ELSE UNCHANGED <<primary, staged, previous>>
  /\ UNCHANGED <<files, open, services, deaths, watched>>

Allow ==
  /\ At("manager", "allow")
  /\ \E out \in Outcomes :
       /\ Ends("manager", out.ok, "validating")
       /\ IF out.done THEN Opened(primary) ELSE UNCHANGED open
  /\ UNCHANGED <<files, primary, staged, previous, services, deaths, watched>>

Complete ==
  /\ At("manager", "completed")
  /\ \/ /\ Saved(Mine("manager"), "completed", TRUE) /\ lock' = "none"
        /\ Idle("manager") /\ UNCHANGED faults
     \/ /\ \E done \in BOOLEAN : Saved(Mine("manager"), "completed", done)
        /\ Fails("manager") /\ UNCHANGED lock
  /\ UNCHANGED <<databases, services, deaths, watched>>

----------------------------------------------------------------------------
(* The hook, called by either process.  What it noted of an operation that was *)
(* cut short is not noted again.                                             *)

Noted == IF record.phase = "active" THEN record ELSE [phase |-> "active", was |-> up]

StopServices(p, there) ==
  /\ At(p, "stop")
  /\ \/ up' = {} /\ record' = Noted /\ Ends(p, TRUE, there)
     \/ up' = up /\ record' = record /\ Fails(p)
     \/ up' \in SUBSET up /\ record' = Noted /\ Fails(p)
  /\ UNCHANGED <<files, databases, deaths, watched>>

Resumed(kinds) == up \cup (record.was \cap kinds)

StartServices(p, from, kinds, there) ==
  /\ At(p, from)
  /\ \/ /\ record.phase # "none"
        /\ up' = Resumed(kinds) /\ record' = [record EXCEPT !.phase = "done"]
        /\ Ends(p, TRUE, there)
        /\ running' = IF from = "start" THEN up' ELSE running
     \/ /\ \E some \in SUBSET kinds : up' = Resumed(some)
        /\ Fails(p) /\ UNCHANGED <<record, running>>
  /\ UNCHANGED <<files, databases, deaths, fresh>>

----------------------------------------------------------------------------
(* Going back, by either process.                                            *)

AlreadyBackFenced(p) ==
  /\ primary = job[Mine(p)].orig /\ open' = open
  /\ \E out \in Outcomes : Ends(p, out.ok, "restart")

(* Nothing was renamed, or it was renamed back: the fence is lifted.          *)
AlreadyBack(p) ==
  /\ primary = job[Mine(p)].orig
  /\ \E out \in Outcomes :
       /\ Ends(p, out.ok, "restart")
       /\ IF out.done THEN Opened(primary) ELSE UNCHANGED open

(* The names prove which databases they are, or nothing is touched.           *)
FenceAgain(p) ==
  /\ primary = Mine(p) /\ previous[Mine(p)] = job[Mine(p)].orig
  /\ \E out \in Outcomes :
       /\ Ends(p, out.ok, "back")
       /\ open' = IF out.done THEN open \ {primary} ELSE open

Rollback(p) ==
  /\ At(p, "undo")
  /\ \/ AlreadyBack(p)
     \/ FenceAgain(p)
     \/ open' = open /\ Fails(p)
  /\ UNCHANGED <<files, primary, staged, previous, services, deaths, watched>>

RenameBack(p) ==
  LET j == Mine(p) IN
  /\ At(p, "back")
  /\ \E out \in Outcomes :
       /\ Ends(p, out.ok, "reopen")
       /\ IF out.done
          THEN primary' = previous[j] /\ previous' = [previous EXCEPT ![j] = Absent]
          ELSE UNCHANGED <<primary, previous>>
  /\ UNCHANGED <<files, staged, open, services, deaths, watched>>

Reopen(p) ==
  /\ At(p, "reopen")
  /\ \E out \in Outcomes :
       /\ Ends(p, out.ok, "restart")
       /\ IF out.done THEN Opened(primary) ELSE UNCHANGED open
  /\ UNCHANGED <<files, primary, staged, previous, services, deaths, watched>>

(* The manager's last save: the lock goes with it, or stays for a person.      *)
Close ==
  LET end == IF doing["manager"].back THEN "rolled_back" ELSE "failed" IN
  /\ At("manager", "close")
  /\ \/ /\ Saved(Mine("manager"), end, TRUE) /\ lock' = "none"
        /\ Idle("manager") /\ UNCHANGED faults
     \/ /\ \E done \in BOOLEAN : Saved(Mine("manager"), end, done)
        /\ Fails("manager") /\ UNCHANGED lock
  /\ UNCHANGED <<databases, services, deaths, watched>>

GiveUp ==
  /\ At("manager", "manual")
  /\ \/ Saved(Mine("manager"), "manual_recovery", TRUE) /\ UNCHANGED faults
     \/ job' = job /\ faults < MaxFaults /\ faults' = faults + 1
  /\ Idle("manager")
  /\ UNCHANGED <<lock, databases, services, deaths, watched>>

----------------------------------------------------------------------------
(* The administrator's tool.                                                 *)

Early == {"queued", "verifying", "rehearsing"}
Touched == {"quiescing", "safety_backup", "swapping", "validating"}
Recoverable == Early \cup Touched
Renames == {"swapping", "validating"}

Recover(j) ==
  /\ At("tool", "idle") /\ job[j].phase \in Recoverable /\ lock # "own"
  /\ doing' = [doing EXCEPT !["tool"] =
       [at |-> IF job[j].phase \in Early THEN "close" ELSE "stop", job |-> j, back |-> lock = "dead"]]
  /\ UNCHANGED <<files, databases, services, faults, deaths, watched>>

ToolCloses ==
  LET j == Mine("tool")
      end == IF job[j].phase \in Early THEN "failed" ELSE "rolled_back"
  IN
  /\ At("tool", "close")
  /\ \E out \in Outcomes :
       /\ Saved(j, end, out.done)
       /\ Ends("tool", out.ok, "unlock")
  /\ UNCHANGED <<lock, databases, services, deaths, watched>>

(* back of the tool: it found the lock of a dead process.                     *)
Unlock ==
  /\ At("tool", "unlock") /\ Idle("tool")
  /\ lock' = IF doing["tool"].back /\ lock = "dead" THEN "none" ELSE lock
  /\ UNCHANGED <<job, databases, services, faults, deaths, watched>>

FreeLock ==
  /\ lock = "dead" /\ ~SomeOpen /\ lock' = "none"
  /\ UNCHANGED <<job, databases, services, doing, faults, deaths, watched>>

----------------------------------------------------------------------------
(* Deaths, and the shop.                                                     *)

Die(p) ==
  /\ \/ doing[p].at \notin {"idle", "dead"}
     \/ p = "manager" /\ lock = "own" /\ At(p, "idle")
  /\ deaths < MaxDeaths /\ deaths' = deaths + 1
  /\ IF p = "manager"
     THEN /\ doing' = [doing EXCEPT ![p] = [at |-> "dead", job |-> Absent, back |-> FALSE]]
          /\ lock' = IF lock = "own" THEN "dead" ELSE lock
     ELSE Idle(p) /\ UNCHANGED lock
  /\ UNCHANGED <<job, databases, services, faults, watched>>

StartsAgain ==
  /\ At("manager", "dead") /\ Idle("manager")
  /\ UNCHANGED <<files, databases, services, faults, deaths, watched>>

Sale ==
  /\ "api" \in up /\ primary \in open /\ fresh' = fresh \cup {primary}
  /\ UNCHANGED <<files, databases, services, doing, faults, deaths, running>>

(* After a restore, a person starts the worker and the scheduler again.        *)
Reconcile ==
  /\ lock = "none" /\ ~SomeOpen /\ up # Services
  /\ up' = Services /\ running' = Services
  /\ UNCHANGED <<files, databases, record, doing, faults, deaths, fresh>>

----------------------------------------------------------------------------
JobSteps ==
  \/ SavePhase \/ Rehearse \/ StopServices("manager", "safety_backup") \/ Dump \/ Fence \/ Rename \/ Allow
  \/ StartServices("manager", "start", {"api"}, "completed") \/ Complete
ToolSteps ==
  \/ \E j \in Jobs : Recover(j)
  \/ StopServices("tool", IF job[Mine("tool")].phase \in Renames THEN "undo" ELSE "restart")
  \/ ToolCloses \/ Unlock \/ FreeLock
GoingBack ==
  \/ \E p \in Processes : Rollback(p) \/ RenameBack(p) \/ Reopen(p) \/ StartServices(p, "restart", Services, "close")
  \/ Close \/ GiveUp

RestoreNext ==
  \/ \E j \in Jobs : Restore(j)
  \/ CreateBackup \/ BackupEnds
  \/ JobSteps \/ ToolSteps \/ GoingBack
  \/ \E p \in Processes : Die(p)
  \/ StartsAgain \/ Sale \/ Reconcile

RestoreSpec == RestoreInit /\ [][RestoreNext]_rvars

----------------------------------------------------------------------------
RestoreTypeOK ==
  /\ job \in [Jobs -> [phase : Recoverable \cup Closed \cup {"none", "resuming", "manual_recovery"},
                       orig : Databases \cup {Absent}]]
  /\ lock \in {"none", "own", "dead"}
  /\ primary \in Databases /\ staged \subseteq Jobs /\ open \subseteq Databases
  /\ previous \in [Jobs -> Databases \cup {Absent}]
  /\ up \subseteq Services /\ running \subseteq Services /\ fresh \subseteq Databases
  /\ record \in [phase : {"none", "active", "done"}, was : SUBSET Services]
  /\ faults \in 0 .. MaxFaults /\ deaths \in 0 .. MaxDeaths

(* No entry is lost by a restore: a database stops being the primary only when *)
(* every sale made in it stands in a sealed safety backup or none was made    *)
(* since it became the primary.  (The services start after the phase that     *)
(* forbids going back is saved; the safety backup is made after they stop.)    *)
NoSaleIsUndone == [][primary' # primary => primary \notin fresh]_rvars

(* When every job is closed the shop is served: its database accepts          *)
(* connections and the services that ran, run.                              *)
Served == ~SomeOpen => primary \in open /\ running \subseteq up

(* A job that was cut short can go back: the databases are the ones it        *)
(* recorded, so that the rollback does not refuse.                           *)
CanGoBack ==
  \A j \in Jobs :
    job[j].phase \in Renames =>
      job[j].orig \in {primary} \cup (IF primary = j THEN {previous[j]} ELSE {})

(* Whatever step fails and whichever process dies, a restore leaves the shop   *)
(* served, or in a state from which the tool or the next try brings it back.   *)
LeavesAService == Served /\ CanGoBack

=============================================================================
