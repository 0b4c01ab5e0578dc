----------------------------- MODULE SiteQueue ------------------------------
(***************************************************************************)
(* The connector's durable queue (LMC_Queue) for one job: one hook with one  *)
(* order.  Rows of Action Scheduler, the WP-Cron event that stands in for    *)
(* them, the markers of deferred decisions, the record of a dead job, the    *)
(* failures counted and the watermark of healthy runs are rows of the site's *)
(* database; the processes that run the job hold its run lock (lmc_qx_).     *)
(*                                                                          *)
(* What is done under the queue lock (lmc_qe_) is one action, but for a      *)
(* drain, which keeps the lock between acting on a marker and deleting it:   *)
(* meanwhile others do without the lock.  A process may die between any two  *)
(* statements that matter.  Delays are not modelled: a pending row may be    *)
(* run at any time.                                                        *)
(***************************************************************************)
EXTENDS Integers, FiniteSets, FiniteSetsExt

CONSTANTS
  Runners,     \* processes that run jobs
  MaxCrashes,  \* LMC_Queue::MAX_CRASHES
  MaxRows,     \* bound: rows of Action Scheduler
  MaxFaults,   \* bound: statements the database refuses
  MaxKills,    \* bound: processes that die, rows taken for timed out
  MaxAsks      \* bound: requests to send, by the shop or by a human

ASSUME SiteQueueConstants ==
  /\ MaxCrashes \in Nat \ {0} /\ MaxRows \in Nat \ {0}
  /\ MaxFaults \in Nat /\ MaxKills \in Nat /\ MaxAsks \in Nat

Ids == 1..MaxRows
NoMark == [kind |-> "none", floor |-> 0]
NoFloor == MaxRows   \* a marker without a floor: no watermark is above it
NoDrain == [op |-> "none", id |-> 0, same |-> FALSE]

VARIABLES
  hook,    \* which handler the hook has
  failed,  \* the order carries an error: the shop queues it no more
  db,      \* the site's database, see Stores
  run,     \* what each process does
  drain,   \* the marker being drained under the queue lock, or NoDrain
  kills, asks,
  owed,    \* history: a request was accepted that no run has begun for
  stopped, \* history: the newest decision is a stop that was kept
  crashed, \* history: rows that failed since the last healthy run
  exposed, \* history: a decision was left to what an older run or decision erases
  trace    \* history: a decision left nothing but a log line or a failed row

qvars == <<hook, failed, db, run, drain, kills, asks, owed, stopped, crashed, exposed, trace>>

RowStates == {"none", "pending", "running", "complete", "failed", "canceled"}
Markers(kinds) == [kind : kinds, floor : 0..MaxRows]
Stores == [row : [Ids -> RowStates], cron : BOOLEAN,
           e : {NoMark} \cup Markers({"retry"}),          \* lmc_qp_e_: queue it
           r : {NoMark} \cup Markers({"retry", "stop"}),  \* lmc_qp_r_: the newest decision
           c : [Ids -> {"no", "busy", "crash"}],    \* lmc_qp_c_: a failure to deal with
           dead : BOOLEAN, counted : SUBSET Ids, succ : 0..MaxRows, faults : Nat]
Runs == [at : {"idle", "work", "done", "threw", "found"}, id : 0..MaxRows,
         why : {"busy", "crash"}, debt : BOOLEAN, keep : BOOLEAN]
NoRun == [at |-> "idle", id |-> 0, why |-> "crash", debt |-> FALSE, keep |-> FALSE]

(* The row of every dispatch, the one event, the markers and the failures keep  *)
(* the shapes Action Scheduler, the cron table and the options give them, and *)
(* no floor or watermark lies outside the rows of the job (class LMC_Queue).  *)
SiteQueueTypeOK ==
  /\ hook \in {"order", "reservation"} /\ failed \in BOOLEAN
  /\ db \in Stores
  /\ run \in [Runners -> Runs]
  /\ drain \in [op : {"none", "e", "r", "c"}, id : 0..MaxRows, same : BOOLEAN]
  /\ kills \in Nat /\ asks \in Nat
  /\ <<owed, stopped, exposed, trace>> \in BOOLEAN \X BOOLEAN \X BOOLEAN \X BOOLEAN
  /\ crashed \subseteq Ids

SiteQueueInit ==
  /\ hook \in {"order", "reservation"} /\ failed = FALSE
  /\ db = [row |-> [i \in Ids |-> "none"], cron |-> FALSE, e |-> NoMark, r |-> NoMark,
           c |-> [i \in Ids |-> "no"], dead |-> FALSE, counted |-> {}, succ |-> 0,
           faults |-> 0]
  /\ run = [p \in Runners |-> NoRun]
  /\ drain = NoDrain
  /\ kills = 0 /\ asks = 0
  /\ owed = FALSE /\ stopped = FALSE /\ exposed = FALSE /\ trace = FALSE
  /\ crashed = {}

-----------------------------------------------------------------------------
(* Statements.  An operator on a state of the database gives the set of its   *)
(* outcomes; n refused statements cost n faults.                            *)

Refused(d, n) ==
  IF d.faults + n <= MaxFaults THEN {[d EXCEPT !.faults = @ + n]} ELSE {}

Queued(d) == d.cron \/ \E i \in Ids : d.row[i] = "pending"

(* wrong: the WP-Cron event is left in place *)
CancelledRows(d) ==
  [d EXCEPT !.row = [i \in Ids |-> IF @[i] = "pending" THEN "canceled" ELSE @[i]]]
Cancelled(d) ==
  [d EXCEPT !.cron = FALSE,
            !.row = [i \in Ids |-> IF @[i] = "pending" THEN "canceled" ELSE @[i]]]

(* schedule: a row, else the WP-Cron event, else a marker with the decision,  *)
(* else the record of a dead job, else nothing but a log line.              *)
Scheduled(d, op, m) ==
  LET free == {i \in Ids : d.row[i] = "none"} IN
  IF free = {} THEN {}
  ELSE {[db |-> [d EXCEPT !.row[Min(free)] = "pending"], said |-> "queued"]}
    \cup {[db |-> [x EXCEPT !.cron = TRUE], said |-> "queued"] : x \in Refused(d, 1)}
    \cup {[db |-> [x EXCEPT ![op] = m], said |-> "marked"] : x \in Refused(d, 1)}
    \cup {[db |-> [x EXCEPT !.dead = TRUE], said |-> "dead"] : x \in Refused(d, 2)}
    \cup {[db |-> x, said |-> "lost"] : x \in Refused(d, 3)}

Retry(floor) == [kind |-> "retry", floor |-> floor]

Enqueued(d, floor) ==
  IF Queued(d) THEN {[db |-> d, said |-> "queued"]} ELSE Scheduled(d, "e", Retry(floor))

(* recover_locked: what is decided about the failure of row i.               *)
(* BUSY_MAX_AGE and DEFER_MAX_AGE have passed: no run lasts that long.       *)
TooLong == \A p \in Runners : run[p].at \notin {"work", "done"}
(* wrong: nothing tells of the job that is given up *)
BuriedSilently(d) == Cancelled(d)
Buried(d) == Cancelled([d EXCEPT !.dead = TRUE])
Decided(d, i, why, floor) ==
  LET counted == [d EXCEPT !.counted = @ \cup {i}]
      buried(x) == [db |-> Buried(x), said |-> "dead"]
      undone(x) == [db |-> x, said |-> "lost"]
      burials(x, n) == {buried(y) : y \in Refused(x, n)}
                  \cup {undone(y) : y \in Refused(x, n + 1)}
  IN {undone(y) : y \in Refused(d, 1)} \cup
     CASE d.dead -> {buried(d)}
       [] ~d.dead /\ why = "busy" ->
            Enqueued(d, floor) \cup (IF TooLong THEN burials(d, 0) ELSE {})
       [] ~d.dead /\ why = "crash" /\ i <= d.succ -> {[db |-> d, said |-> "old"]}
       [] OTHER -> burials(d, 1) \cup
            IF Cardinality(counted.counted) >= MaxCrashes THEN burials(counted, 0)
            ELSE Enqueued(counted, floor)

-----------------------------------------------------------------------------
(* Locks.  A run holds the run lock from before its handler to after it, or   *)
(* to the end of its own recovery.                                          *)
RunLockFree == \A p \in Runners : run[p].at \notin {"work", "done", "threw"}
QueueLock == drain = NoDrain
(* The lock was not had: somebody drains, or the statement was refused.      *)
NoLock(d) == IF drain # NoDrain THEN {d} ELSE Refused(d, 1)

(* A marker written without the lock is not the one a drain has acted on.    *)
(* wrong: a marker is deleted whatever it says by now *)
RewrittenUnseen(op) == drain' = drain
Rewritten(op) == drain' = IF drain.op = op THEN [drain EXCEPT !.same = FALSE] ELSE drain

Still == UNCHANGED <<hook, failed>>
Working(p) == run[p].at = "work"
(* wrong: a run of no row has a floor too, one below the row it is not *)
FloorOfRow(p) == run[p].id - 1
FloorOf(p) == IF run[p].id > 0 THEN run[p].id ELSE db.succ
(* A run that began before the decision ends well: it lifts the watermark     *)
(* above the marker's floor, and clears the record of a dead job.  A stop     *)
(* still in its marker cancels what is queued after it.                     *)
IsExposed(o, floor) ==
  \/ exposed
  \/ \E p \in Runners :
       /\ run[p].at \in {"work", "done"}
       /\ o.said = "dead" \/ (o.said = "marked" /\ run[p].id > floor)

-----------------------------------------------------------------------------
(* enqueue, by the shop: under the queue lock, or as a marker without it.    *)
Accept(d) ==
  \/ /\ QueueLock /\ drain' = drain
     /\ \E o \in Enqueued(d, d.succ) :
          /\ db' = o.db
          /\ owed' = (owed \/ o.said # "lost")
          /\ exposed' = (IsExposed(o, d.succ) \/ d.r.kind = "stop")
          /\ trace' = (trace \/ o.said = "lost")
  \/ \E x \in NoLock(d) :
       \/ /\ db' = [x EXCEPT !.e = Retry(NoFloor)]
          /\ owed' = TRUE /\ Rewritten("e")
          /\ exposed' = (exposed \/ d.r.kind = "stop")
          /\ trace' = trace
       \/ /\ db' \in Refused(x, 1)
          /\ trace' = TRUE
          /\ UNCHANGED <<drain, owed, exposed>>

Ask ==
  /\ Still /\ ~failed
  /\ asks < MaxAsks /\ asks' = asks + 1
  /\ Accept(db)
  /\ stopped' = FALSE
  /\ UNCHANGED <<run, kills, crashed>>

-----------------------------------------------------------------------------
(* A runner takes a pending row: Action Scheduler lets no other have it.     *)
Begin(p, id) ==
  /\ run' = [run EXCEPT ![p] = [NoRun EXCEPT !.at = "work", !.id = id, !.debt = owed]]
  /\ owed' = FALSE

TakeRow(p) ==
  /\ Still /\ run[p] = NoRun /\ RunLockFree
  /\ \E i \in Ids :
       /\ db.row[i] = "pending"
       /\ db' = [db EXCEPT !.row[i] = "running"]
       /\ Begin(p, i)
  /\ stopped' = FALSE
  /\ UNCHANGED <<drain, kills, asks, crashed, exposed, trace>>

(* before_execute raises: another run has the lock, or the lock cannot be had. *)
RowFails(p, i, at, why) ==
  /\ run' = [run EXCEPT ![p] = [NoRun EXCEPT !.at = at, !.id = i, !.why = why]]
  /\ crashed' = IF why = "crash" /\ i > db.succ THEN crashed \cup {i} ELSE crashed

StartFails(p) ==
  /\ Still /\ run[p] = NoRun
  /\ \E i \in Ids :
       /\ db.row[i] = "pending"
       /\ \/ /\ ~RunLockFree
             /\ db' = [db EXCEPT !.row[i] = "failed"]
             /\ RowFails(p, i, "found", "busy")
          \/ \E d \in Refused(db, 1) :
               /\ db' = [d EXCEPT !.row[i] = "failed"]
               /\ RowFails(p, i, "found", "crash")
  /\ UNCHANGED <<drain, kills, asks, owed, stopped, exposed, trace>>

(* The handler runs outside Action Scheduler, or is queued while it runs.    *)
Direct(p, d) ==
  \/ /\ RunLockFree /\ Begin(p, 0)
     /\ db' = d /\ UNCHANGED <<drain, exposed, trace>>
  \/ /\ run' = run
     /\ IF RunLockFree THEN \E x \in Refused(d, 1) : Accept(x) ELSE Accept(d)

(* The WP-Cron event: WordPress takes it away before it runs it.             *)
CronRun(p) ==
  /\ Still /\ run[p] = NoRun /\ db.cron
  /\ Direct(p, [db EXCEPT !.cron = FALSE])
  /\ stopped' = FALSE
  /\ UNCHANGED <<kills, asks, crashed>>

(* A human sends again: the failures are forgotten first.                    *)
Forgotten(d) ==
  {[d EXCEPT !.counted = {}, !.dead = FALSE, !.c = [i \in Ids |-> "no"]]} \cup Refused(d, 1)
Resend(p) ==
  /\ Still /\ run[p] = NoRun /\ asks < MaxAsks /\ asks' = asks + 1
  /\ \E d \in Forgotten(db) :
       /\ IF hook = "order" THEN Direct(p, d) ELSE run' = run /\ Accept(d)
       /\ crashed' = IF d.faults = db.faults THEN {} ELSE crashed
  /\ stopped' = FALSE
  /\ UNCHANGED kills

-----------------------------------------------------------------------------
(* The handler ends.                                                        *)
Ends(p, at) == run' = [run EXCEPT ![p] = IF run[p].id = 0 THEN NoRun ELSE [@ EXCEPT !.at = at]]

Finish(p) ==
  /\ Still /\ Working(p) /\ Ends(p, "done")
  /\ UNCHANGED <<db, drain, kills, asks, owed, stopped, crashed, exposed, trace>>

(* What a decision that was, or was not, kept leaves of the run.  One that    *)
(* left nothing is an exception when the run is a row's (DECISION_LOST).     *)
After(p, o) ==
  /\ run' = [run EXCEPT ![p] =
       IF run[p].id = 0 THEN NoRun
       ELSE [run[p] EXCEPT !.at = IF o.said = "lost" THEN "threw" ELSE "done",
                           !.keep = run[p].keep \/ o.said = "dead"]]
  /\ LET threw == o.said = "lost" /\ run[p].id > 0
     IN /\ db' = IF threw THEN [o.db EXCEPT !.row[run[p].id] = "failed"] ELSE o.db
        /\ crashed' = IF threw /\ run[p].id > db.succ THEN crashed \cup {run[p].id}
                      ELSE crashed
        /\ owed' = (owed \/ o.said # "lost" \/ threw)
        /\ trace' = (trace \/ (o.said = "lost" /\ ~threw))

(* The reservation's and the refund's handler: to be sent again after a while. *)
Again(p) ==
  /\ Still /\ hook = "reservation" /\ Working(p)
  /\ \/ /\ QueueLock
        /\ \E o \in Enqueued(db, FloorOf(p)) : After(p, o)
        /\ drain' = drain
     \/ \E d \in NoLock(db) :
          \/ /\ After(p, [db |-> [d EXCEPT !.e = Retry(NoFloor)], said |-> "marked"])
             /\ Rewritten("e")
          \/ /\ db' \in Refused(d, 1)
             /\ Ends(p, "done") /\ trace' = TRUE
             /\ UNCHANGED <<drain, owed, crashed>>
  /\ UNCHANGED <<kills, asks, stopped, exposed>>

(* supersede, by the order's handler: the newest decision takes the place of  *)
(* every older one.  An older marker is rewritten before the queue changes   *)
(* and forgotten after it.                                                  *)
Decision(p, kind) == [kind |-> kind, floor |-> FloorOf(p)]
Announced(d, m) == IF d.r = NoMark THEN d ELSE [d EXCEPT !.r = m]
CarriedOut(d, m) ==
  IF m.kind = "stop" THEN {[db |-> Cancelled(d), said |-> "queued"]}
  ELSE Scheduled(Cancelled(d), "r", m)
Cleared(d, op) == {[d EXCEPT ![op] = NoMark]} \cup Refused(d, 1)
Superseded(d, m) ==
  IF d.r = NoMark THEN CarriedOut(d, m)
  ELSE UNION {IF o.said \in {"marked", "lost"} THEN {o}
              ELSE {[o EXCEPT !.db = x] : x \in Cleared(o.db, "r")}
              : o \in CarriedOut(Announced(d, m), m)}

Keep(p, kind, o) ==
  IF kind = "retry" THEN After(p, o) /\ stopped' = FALSE
  ELSE /\ db' = o.db /\ Ends(p, "done")
       /\ owed' = FALSE /\ stopped' = TRUE
       /\ UNCHANGED <<crashed, trace>>

Supersede(p, kind) ==
  /\ hook = "order" /\ Working(p)
  /\ failed' = TRUE /\ hook' = hook
  /\ \/ /\ QueueLock
        /\ \E o \in Superseded(db, Decision(p, kind)) : Keep(p, kind, o)
        /\ drain' = drain
     \/ \E d \in NoLock(db) :
          /\ Keep(p, kind, [db |-> [d EXCEPT !.r = Decision(p, kind)], said |-> "marked"])
          /\ Rewritten("r")
     \/ /\ \/ QueueLock /\ db.r # NoMark /\ db' \in Refused(db, 1)
           \/ \E d \in NoLock(db) : db' \in Refused(d, 1)
        /\ Ends(p, "done") /\ trace' = TRUE
        /\ UNCHANGED <<drain, owed, stopped, crashed>>
  /\ UNCHANGED <<kills, asks, exposed>>

(* An exception: Action Scheduler fails the row.  Outside it nothing is left. *)
Throw(p) ==
  /\ Still /\ Working(p)
  /\ IF run[p].id = 0
     THEN /\ run' = [run EXCEPT ![p] = NoRun]
          /\ trace' = (trace \/ run[p].debt)
          /\ UNCHANGED <<db, owed, crashed>>
     ELSE /\ db' = [db EXCEPT !.row[run[p].id] = "failed"]
          /\ RowFails(p, run[p].id, "threw", "crash")
          /\ owed' = (owed \/ run[p].debt)
          /\ UNCHANGED trace
  /\ UNCHANGED <<drain, kills, asks, stopped, exposed>>

(* on_executed and the unlock; the row is then complete.                     *)
Healthy(d, p) ==
  [d EXCEPT !.succ = Max({@, run[p].id}), !.counted = {}, !.dead = @ /\ run[p].keep]
Complete(d, p) == [d EXCEPT !.row[run[p].id] = "complete"]
Executed(p) ==
  /\ Still /\ run[p].at = "done"
  /\ \/ db' = Complete(Healthy(db, p), p) /\ crashed' = {}
     \/ \E d \in Refused(db, 1) : db' = Complete(d, p) /\ UNCHANGED crashed
  /\ run' = [run EXCEPT ![p] = NoRun]
  /\ UNCHANGED <<drain, kills, asks, owed, stopped, exposed, trace>>

(* recover, by the process that saw the failure: a decision under the queue   *)
(* lock, or a marker that keeps the first failure it was written for.        *)
Deferred(d, i, why) == [d EXCEPT !.c[i] = IF @ = "no" THEN why ELSE @]
Settle(p) ==
  /\ Still /\ run[p].at \in {"threw", "found"}
  /\ LET i == run[p].id
         floor == IF run[p].at = "threw" THEN i ELSE db.succ
     IN \/ /\ QueueLock
           /\ \E o \in Decided(db, i, run[p].why, floor) :
                o.said # "lost" /\ db' = o.db /\ exposed' = IsExposed(o, floor)
           /\ UNCHANGED trace
        \/ /\ \E d \in NoLock(db) \cup {o.db : o \in
                        {o \in Decided(db, i, run[p].why, floor) : QueueLock /\ o.said = "lost"}} :
                \/ db' = Deferred(d, i, run[p].why) /\ UNCHANGED trace
                \/ db' \in Refused(d, 1) /\ trace' = TRUE
           /\ UNCHANGED exposed
  /\ run' = [run EXCEPT ![p] = NoRun]
  /\ stopped' = FALSE
  /\ UNCHANGED <<drain, kills, asks, owed, crashed>>

(* The cleaner of Action Scheduler fails a row that is in progress for longer *)
(* than a run lasts: its process is gone.                                   *)
Orphan(i) == db.row[i] = "running" /\ \A p \in Runners : run[p].id # i
Clean(p) ==
  /\ Still /\ run[p] = NoRun
  /\ \E i \in Ids :
       /\ Orphan(i)
       /\ db' = [db EXCEPT !.row[i] = "failed"]
       /\ RowFails(p, i, "found", "crash")
  /\ UNCHANGED <<drain, kills, asks, owed, stopped, exposed, trace>>

(* A process dies: its locks are free, its row stays as it is.  A handler may *)
(* be anywhere in supersede, a recovery just past the counting.              *)
Half(p) ==
  CASE run[p].at = "work" /\ QueueLock /\ hook = "order" ->
         {db} \cup UNION {LET m == Decision(p, kind)
                              b == Announced(db, m)
                          IN {b, Cancelled(b)} \cup {o.db : o \in CarriedOut(b, m)}
                          : kind \in {"retry", "stop"}}
    [] run[p].at = "done" -> {db, Healthy(db, p)}
    [] run[p].at \in {"threw", "found"} /\ QueueLock ->
         {db, [db EXCEPT !.counted = @ \cup {run[p].id}]}
    [] OTHER -> {db}
Die(p) ==
  /\ run[p] # NoRun /\ kills < MaxKills /\ kills' = kills + 1
  /\ db' \in Half(p)
  /\ hook' = hook /\ failed' = (failed \/ (Working(p) /\ db' # db))
  /\ crashed' = IF run[p].at = "done" /\ db' # db THEN {} ELSE crashed
  /\ run' = [run EXCEPT ![p] = NoRun]
  /\ owed' = (db'.r.kind # "stop" /\ (owed \/ (Working(p) /\ run[p].debt /\ run[p].id > 0)))
  /\ trace' = (trace \/ (Working(p) /\ run[p].id = 0 /\ (run[p].debt \/ db' # db))
                    \/ run[p].at \in {"threw", "found"})
  /\ stopped' = FALSE
  /\ UNCHANGED <<drain, asks, exposed>>

-----------------------------------------------------------------------------
(* drain: acts on a marker under the queue lock, then deletes it if it is     *)
(* still the one it acted on.                                               *)
Drains(op, i, o, floor) ==
  /\ db' = o.db
  /\ drain' = [op |-> op, id |-> i, same |-> o.said # "lost" /\ (o.said = "marked" => op = "c")]
  /\ exposed' = IsExposed(o, floor)

(* What was cancelled and could not be queued again is left to the marker.    *)
LeftMarked(o) == IF o.said = "lost" THEN [o EXCEPT !.said = "marked"] ELSE o

DrainMarker(op) ==
  /\ Still /\ drain = NoDrain /\ db[op] # NoMark
  /\ LET m == db[op]
         outcomes == IF db.succ > m.floor THEN {[db |-> db, said |-> "old"]}
                     ELSE IF op = "r" THEN {LeftMarked(o) : o \in CarriedOut(db, m)}
                     ELSE IF Queued(db) THEN {[db |-> db, said |-> "queued"]}
                     ELSE Scheduled(db, "e", m)
     IN \E o \in outcomes : Drains(op, 0, o, m.floor)
  /\ stopped' = (stopped /\ op = "r")
  /\ UNCHANGED <<run, kills, asks, owed, crashed, trace>>

DrainFailure(i) ==
  /\ Still /\ drain = NoDrain /\ db.c[i] # "no"
  /\ \E o \in Decided(db, i, db.c[i], db.succ) : Drains("c", i, o, db.succ)
  /\ stopped' = FALSE
  /\ UNCHANGED <<run, kills, asks, owed, crashed, trace>>

Without(d, op, i) == IF op = "c" THEN [d EXCEPT !.c[i] = "no"] ELSE [d EXCEPT ![op] = NoMark]
DrainForgets ==
  /\ Still /\ drain # NoDrain /\ drain' = NoDrain
  /\ \/ db' = IF drain.same THEN Without(db, drain.op, drain.id) ELSE db
     \/ drain.same /\ db' \in Refused(db, 1)
  /\ UNCHANGED <<run, kills, asks, owed, stopped, crashed, exposed, trace>>

DrainDies ==
  /\ Still /\ drain # NoDrain /\ drain' = NoDrain
  /\ kills < MaxKills /\ kills' = kills + 1
  /\ UNCHANGED <<db, run, asks, owed, stopped, crashed, exposed, trace>>

(* A marker that had no lock for too long is recorded as a dead job.         *)
DrainGivesUp(op) ==
  /\ Still /\ db[op] # NoMark /\ TooLong
  /\ \E d \in NoLock(db) : db' = Without([d EXCEPT !.dead = TRUE], op, 0)
  /\ Rewritten(op)
  /\ stopped' = (stopped /\ op # "r")
  /\ UNCHANGED <<run, kills, asks, owed, crashed, exposed, trace>>

-----------------------------------------------------------------------------
RunSteps(p) ==
  \/ TakeRow(p) \/ StartFails(p) \/ CronRun(p) \/ Resend(p)
  \/ Finish(p) \/ Again(p) \/ Throw(p)
  \/ Supersede(p, "retry") \/ Supersede(p, "stop")
  \/ Executed(p) \/ Settle(p) \/ Clean(p) \/ Die(p)
DrainSteps ==
  \/ \E op \in {"e", "r"} : DrainMarker(op) \/ DrainGivesUp(op)
  \/ \E i \in Ids : DrainFailure(i)
  \/ DrainForgets \/ DrainDies

SiteQueueNext ==
  \/ Ask \/ (\E p \in Runners : RunSteps(p)) \/ DrainSteps
SiteQueueSpec == SiteQueueInit /\ [][SiteQueueNext]_qvars

-----------------------------------------------------------------------------
(* What is left of a job that somebody or something can still find.          *)
Found ==
  \/ Queued(db) \/ db.dead
  \/ db.e # NoMark \/ db.r.kind = "retry" \/ \E i \in Ids : db.c[i] # "no"
  \/ \E i \in Ids : Orphan(i)
  \/ \E p \in Runners : run[p].at \in {"threw", "found"}

(* An accepted request that no run has begun for is never forgotten, whatever *)
(* lock or statement is refused and whatever dies: it is queued, marked,      *)
(* recorded as dead, or about to be recovered (class-lmc-queue.php:44-58).   *)
NothingForgotten == owed => Found \/ trace \/ exposed

(* The same, as the code promises it of any job: a decision that Action        *)
(* Scheduler and WP-Cron refuse is a marker that lasts until it is carried out *)
(* (:416-424).  Stated of the job that keeps a cancelled order's release.     *)
AcceptedIsKept == hook = "reservation" /\ owed => Found \/ trace

(* A job that failed MaxCrashes times in a row is not tried again in silence: *)
(* it is recorded as dead, or a failure is still to be dealt with (:633).    *)
DeadIsSeen ==
  Cardinality(crashed) >= MaxCrashes =>
    \/ db.dead \/ trace \/ \E i \in Ids : db.c[i] # "no" \/ Orphan(i)
    \/ \E p \in Runners : run[p].at \in {"threw", "found"}

(* A stop stands: no older decision brings the job back (:201-217).          *)
StopStands ==
  stopped => db.r.kind # "retry" /\ (Queued(db) => db.r.kind = "stop")
=============================================================================
