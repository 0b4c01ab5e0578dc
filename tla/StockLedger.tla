----------------------------- MODULE StockLedger -----------------------------
(***************************************************************************)
(* The stock number of one product on the WooCommerce site.  Core owns the *)
(* balance and numbers its versions (stockRev); the site shows Core's last *)
(* snapshot less the units its own orders took that the snapshot does not  *)
(* hold yet.  The ledger of those units (class-lmc-stock-ledger.php) is    *)
(* written around WooCommerce's own changes of _stock, which no product    *)
(* lock serializes: only the row lock of _stock does.                      *)
(*                                                                         *)
(* One order has one item of the product.  An order that closed does not   *)
(* reopen, one given back at Core takes no more units, and every order is  *)
(* newer than the ledger (no reconciliation of earlier orders).  Core      *)
(* keeps no sale between a restore of its database and the reset of the    *)
(* site, the procedure docs/STOCK-SYNC-PROTOCOL.md prescribes.  The push   *)
(* version grows with stockRev (both are written under the row lock of the *)
(* balance), so the watermark stands for both.                             *)
(***************************************************************************)
EXTENDS Integers, Sequences, FiniteSets, Functions

CONSTANTS
  Items,      \* order items of the product
  MaxQty,     \* largest quantity of an item
  Start,      \* units on sale in Core at first
  Failures,   \* what may go wrong, a subset of Mishaps
  Releases,   \* why a manager releases a hold, a subset of Reasons
  Carries,    \* whether he gives the time of the backup to a reset
  MaxRev,     \* bound: versions of the balance
  MaxOps,     \* bound: operations of WooCommerce on the items
  MaxEpoch,   \* bound: resets of the watermark, plus 1
  MaxMishaps  \* bound: failures and deaths together

Mishaps == {"move", "intent", "sync", "mark", "write", "refresh", "net", "crash"}
Reasons == {"recorded", "void"}

ASSUME StockConstants ==
  /\ IsFiniteSet(Items)
  /\ MaxQty \in Nat /\ Start \in Nat /\ MaxRev \in Nat /\ MaxOps \in Nat
  /\ MaxEpoch \in Nat /\ MaxMishaps \in Nat
  /\ Failures \subseteq Mishaps /\ Releases \subseteq Reasons
  /\ Carries \subseteq BOOLEAN

VARIABLES
  log,       \* Core: the balance at each stockRev
  backup,    \* Core: stockRev of the kept backup, 0 if none
  lost,      \* Core was restored and the site is not reset yet
  item,      \* WooCommerce: each item and the request working on it
  stock,     \* WooCommerce: _stock of the product
  hold,      \* lmc_stock_hold, by item
  early,     \* holds whose ack_at is before the backup
  backlog,   \* 'order' marks: items whose ledger write failed
  redo,      \* 'redo' marks of the product
  fault,     \* lmc_stock_fault
  epoch,     \* lmc_stock_epoch
  intent,    \* lmc_stock_reset_pending: the epoch it leads to, 0 if none
  state,     \* _lmc_stock_state: the snapshot the number is made from
  excess,    \* history: what max(0, .) added to the last number written, and
             \* what WooCommerce gave back twice since
  base,      \* history: Core's stockRev at the last reset
  job,       \* the holder of the product lock, writing _stock
  fix,       \* the reset's own write of _stock, which takes no product lock
  pull,      \* an answered GET /web/stock
  req,       \* an order on its way to Core, by item
  frozen,    \* quantity frozen in the payload of the order
  ops, mishaps

coreVars == <<log, backup, lost>>
ledgerVars == <<hold, early, backlog, redo, fault>>
siteVars == <<epoch, intent, state, excess, base>>
netVars == <<pull, req, frozen>>
vars == <<coreVars, item, stock, ledgerVars, siteVars, job, fix, netVars,
          ops, mishaps>>

Pos(n) == IF n > 0 THEN n ELSE 0
NoAck == -1
NoHold == [st |-> "none", q |-> 0, ack |-> NoAck, ep |-> 0, rel |-> "no", relEp |-> 0]
NoState == [e |-> 0, r |-> 0, c |-> 0, a |-> FALSE, has |-> [i \in Items |-> 0]]
NoJob == [by |-> "none", s |-> NoState, pub |-> FALSE, st |-> "none", n |-> 0, cl |-> 0]
NoFix == [e |-> 0, st |-> "none", n |-> 0, cl |-> 0]
NoReq == [st |-> "none", e |-> 0, q |-> 0, rev |-> 0]
NewItem == [meta |-> 0, sold |-> 0, open |-> TRUE, flag |-> FALSE,
            op |-> "none", pc |-> "idle", to |-> 0, gave |-> FALSE]

Balances == [n : Int, a : BOOLEAN, has : [Items -> Nat]]
Holds == [st : {"none", "intent", "confirmed", "adjust"}, q : Nat, ack : Int,
          ep : Nat, rel : {"no", "asked", "ripe"}, relEp : Nat]
States == [e : Nat, r : Nat, c : Nat, a : BOOLEAN, has : [Items -> Nat]]
ItemRecords == [meta : Nat, sold : Nat, open : BOOLEAN, flag : BOOLEAN,
                op : {"none", "reduce", "raise", "lower", "cancel"},
                pc : {"idle", "move", "meta", "sync", "recompute"},
                to : Nat, gave : BOOLEAN]
Jobs == [by : {"none", "recompute", "maintain", "pull", "push"}, s : States,
         pub : BOOLEAN, st : {"none", "held", "read"}, n : Nat, cl : Nat]
Fixes == [e : Nat, st : {"none", "read", "done"}, n : Nat, cl : Nat]
Requests == [st : {"none", "sent", "answered", "recompute"}, e : Nat, q : Nat, rev : Nat]

\* Every variable keeps its type.
TypeOK ==
  /\ log \in Seq(Balances) /\ log # <<>>
  /\ backup \in Nat /\ backup <= Len(log)
  /\ lost \in BOOLEAN
  /\ item \in [Items -> ItemRecords]
  /\ stock \in Int
  /\ hold \in [Items -> Holds]
  /\ early \in SUBSET Items
  /\ backlog \in SUBSET Items
  /\ redo \in {"none", "new", "seen"}
  /\ fault \in BOOLEAN
  /\ epoch \in Nat /\ intent \in Nat
  /\ state \in States
  /\ excess \in Nat /\ base \in Nat
  /\ job \in Jobs /\ fix \in Fixes
  /\ pull \in States
  /\ req \in [Items -> Requests]
  /\ frozen \in [Items -> Nat]
  /\ ops \in Nat /\ mishaps \in Nat

Init ==
  /\ log = <<[n |-> Start, a |-> TRUE, has |-> [i \in Items |-> 0]]>>
  /\ backup = 0 /\ lost = FALSE
  /\ item = [i \in Items |-> NewItem]
  /\ stock = Start
  /\ hold = [i \in Items |-> NoHold]
  /\ early = {} /\ backlog = {} /\ redo = "none" /\ fault = FALSE
  /\ epoch = 1 /\ intent = 0 /\ state = NoState /\ excess = 0 /\ base = 0
  /\ job = NoJob /\ fix = NoFix
  /\ pull = NoState
  /\ req = [i \in Items |-> NoReq]
  /\ frozen = [i \in Items |-> 0]
  /\ ops = 0 /\ mishaps = 0

-----------------------------------------------------------------------------
(* Core: inventory.stock_balance of the web warehouse.                      *)

Core == log[Len(log)]

\* Every change of on_hand, reserved or the variation's status advances
\* row_version by one, in the transaction of the change.
Versioned(b) ==
  /\ Len(log) < MaxRev
  /\ ~lost
  /\ log' = Append(log, b)
  /\ UNCHANGED <<backup, lost>>

\* What push_web_stock and GET /web/stock say of version r, asked for in epoch e.
Snapshot(r, e) ==
  [e |-> e, r |-> r, a |-> log[r].a, has |-> log[r].has,
   c |-> IF log[r].a THEN Pos(log[r].n) ELSE 0]

\* A sale, a receipt or a return at the counter.
InStore(d) ==
  /\ Versioned([Core EXCEPT !.n = @ + d])
  /\ UNCHANGED <<item, stock, ledgerVars, siteVars, job, fix, netVars, ops, mishaps>>

StatusFlips ==
  /\ Versioned([Core EXCEPT !.a = ~@])
  /\ UNCHANGED <<item, stock, ledgerVars, siteVars, job, fix, netVars, ops, mishaps>>

\* Core holds q units of the item out of the balance.
Recorded(b, i, q) ==
  [n |-> b.n + b.has[i] - q, a |-> b.a, has |-> [b.has EXCEPT ![i] = q]]

\* The order reaches Core, which records it once and answers with the
\* stockRev it reads after the commit; a replay answers only.
CoreRecords(i) ==
  /\ req[i].st = "sent"
  /\ IF Core.has[i] = 0
     THEN Versioned(Recorded(Core, i, req[i].q))
     ELSE ~lost /\ UNCHANGED coreVars
  /\ req' = [req EXCEPT ![i] = [@ EXCEPT !.st = "answered", !.rev = Len(log')]]
  /\ UNCHANGED <<item, stock, ledgerVars, siteVars, job, fix, pull, frozen, ops, mishaps>>

\* Core learns of a refund or a cancellation.  The plugin sends it when the
\* order is settled and after WooCommerce gave the units back.
CoreGivesBack(i) ==
  /\ req[i] = NoReq /\ frozen[i] > 0 /\ item[i].pc = "idle"
  /\ item[i].sold < Core.has[i]
  /\ Versioned(Recorded(Core, i, item[i].sold))
  /\ item' = [item EXCEPT ![i].gave = TRUE]
  /\ UNCHANGED <<stock, ledgerVars, siteVars, job, fix, netVars, ops, mishaps>>

Backup ==
  /\ MaxEpoch > 1 /\ backup = 0 /\ ~lost
  /\ backup' = Len(log)
  /\ early' = {i \in Items : hold[i].ack # NoAck}
  /\ UNCHANGED <<log, lost, item, stock, hold, backlog, redo, fault, siteVars,
                 job, fix, netVars, ops, mishaps>>

Restore ==
  /\ backup > 0 /\ ~lost /\ epoch < MaxEpoch
  /\ log' = SubSeq(log, 1, backup)
  /\ lost' = TRUE
  /\ UNCHANGED <<backup, item, stock, ledgerVars, siteVars, job, fix, netVars, ops, mishaps>>

-----------------------------------------------------------------------------
(* The number of the site.                                                  *)

\* A failure of one kind, and a step that meets none.
Fails(kind) ==
  /\ kind \in Failures /\ mishaps < MaxMishaps
  /\ mishaps' = mishaps + 1

\* The hold is still subtracted from a snapshot of version r in epoch e.
Counted(h, e, r) == h.st # "none" /\ ~(h.ack # NoAck /\ h.ep = e /\ h.ack <= r)

Pending(e, r) ==
  SumFunctionOnSet([i \in Items |-> hold[i].q], {i \in Items : Counted(hold[i], e, r)})

\* The number write_stock puts in _stock for snapshot s in epoch e, and what
\* max(0, .) adds to it.
Target(s, e) == IF s.a THEN Pos(s.c - Pending(e, s.r)) ELSE 0
Added(s, e) == Target(s, e) - (s.c - Pending(e, s.r))

\* SELECT ... FOR UPDATE on the row of _stock.
RowLocked == job.st = "read" \/ fix.st = "read"
\* drain_backlog emptied the marks and no fault is set.
Ready == ~fault /\ backlog = {}
Known == state.e = epoch

\* mark_redo: a mark that cannot be written becomes the fault.
MarkRedo ==
  \/ redo' = "new" /\ UNCHANGED <<fault, mishaps>>
  \/ Fails("mark") /\ fault' = TRUE /\ UNCHANGED redo

TakeLock(by, s, pub) ==
  /\ job = NoJob
  /\ job' = [NoJob EXCEPT !.by = by, !.s = s, !.pub = pub, !.st = "held"]

\* recompute: the number of the current snapshot again, or a mark to do it later.
Recompute ==
  \/ (~Ready \/ job # NoJob) /\ MarkRedo /\ UNCHANGED job
  \/ Ready /\ Known /\ TakeLock("recompute", state, FALSE) /\ UNCHANGED <<redo, fault, mishaps>>
  \/ Ready /\ ~Known /\ job = NoJob /\ UNCHANGED <<job, redo, fault, mishaps>>

\* Wrong: the epoch is not read again under the row lock.
JobReadsBlindly ==
  /\ job.st = "held" /\ ~RowLocked
  /\ job' = [job EXCEPT !.st = "read", !.n = Target(job.s, job.s.e), !.cl = Added(job.s, job.s.e)]
  /\ UNCHANGED <<coreVars, item, stock, ledgerVars, siteVars, fix, netVars, ops, mishaps>>

\* write_stock locks the row, then the epoch, then sums the holds.
JobReads ==
  /\ job.st = "held" /\ ~RowLocked /\ job.s.e = epoch
  /\ job' = [job EXCEPT !.st = "read", !.n = Target(job.s, epoch), !.cl = Added(job.s, epoch)]
  /\ UNCHANGED <<coreVars, item, stock, ledgerVars, siteVars, fix, netVars, ops, mishaps>>

\* ... and commits the number with the snapshot it publishes; then WooCommerce
\* refreshes what it derives from the number.
Published == IF job.pub THEN job.s ELSE state
\* Wrong: maintain deletes marks it did not read.
UnmarkedAll == IF job.by = "maintain" THEN "none" ELSE redo
Unmarked == IF job.by = "maintain" /\ redo = "seen" THEN "none" ELSE redo
JobCommits ==
  /\ job.st = "read"
  /\ stock' = job.n /\ excess' = job.cl /\ state' = Published
  /\ \/ redo' = Unmarked /\ UNCHANGED mishaps
     \/ Fails("refresh") /\ redo' = "new"
  /\ job' = NoJob
  /\ UNCHANGED <<coreVars, item, hold, early, backlog, fault, epoch, intent, base,
                 fix, netVars, ops>>

\* Wrong: recompute forgets the product when its write fails.
JobGivesUpSilently ==
  /\ \/ job.st = "held" /\ job.s.e # epoch /\ UNCHANGED mishaps
     \/ job.st # "none" /\ Fails("write")
  /\ job' = NoJob
  /\ UNCHANGED <<coreVars, item, stock, ledgerVars, siteVars, fix, netVars, ops>>

\* The write is given up, for a new epoch or an error: only recompute marks it.
JobGivesUp ==
  /\ \/ job.st = "held" /\ job.s.e # epoch /\ UNCHANGED mishaps
     \/ job.st # "none" /\ Fails("write")
  /\ redo' = IF job.by = "recompute" THEN "new" ELSE redo
  /\ job' = NoJob
  /\ UNCHANGED <<coreVars, item, stock, hold, early, backlog, fault, siteVars,
                 fix, netVars, ops>>

\* The process dies: the database rolls back and frees both locks.
JobDies ==
  /\ job # NoJob /\ Fails("crash")
  /\ job' = NoJob
  /\ UNCHANGED <<coreVars, item, stock, ledgerVars, siteVars, fix, netVars, ops>>

Maintain ==
  /\ redo # "none" /\ Ready /\ job = NoJob
  /\ IF Known
     THEN redo' = "seen" /\ TakeLock("maintain", state, FALSE)
     ELSE redo' = "none" /\ UNCHANGED job
  /\ UNCHANGED <<coreVars, item, stock, hold, early, backlog, fault, siteVars,
                 fix, netVars, ops, mishaps>>

-----------------------------------------------------------------------------
(* WooCommerce and the hooks of the ledger around its changes of _stock.    *)

Idle(i) == item[i].pc = "idle" /\ ops < MaxOps /\ ops' = ops + 1
Works(i, op, pc, to) == [item EXCEPT ![i] = [@ EXCEPT !.op = op, !.pc = pc, !.to = to]]
Rests(i, pc) == [item EXCEPT ![i] = [@ EXCEPT !.op = "none", !.pc = pc]]
Row(st, q) == [NoHold EXCEPT !.st = st, !.q = q]

\* Wrong: the row is written after WooCommerce took the units.
AdjustedLate(h, m, t) == h
\* record_intent: before WooCommerce takes the units of a new order.
Intended(h, t) == IF h.st \in {"none", "intent"} THEN Row("intent", t) ELSE h
\* record_adjust_intent: before it takes the units an edit adds.
Adjusted(h, m, t) ==
  IF t > (IF h.st = "none" THEN m ELSE h.q) THEN Row("adjust", t) ELSE h

\* The intent is written; if it cannot be, the fault is set and the units are
\* taken all the same.
Intends(i, h) ==
  \/ hold' = [hold EXCEPT ![i] = h] /\ UNCHANGED <<fault, mishaps>>
  \/ Fails("intent") /\ fault' = TRUE /\ UNCHANGED hold

\* sync_item: the row follows _reduced_stock once the change it announces has
\* ended; fin when the reduction did.
Waits(i, fin) ==
  LET h == hold[i]
      closed == ~item[i].open
  IN  \/ h.st = "intent" /\ item[i].meta = 0 /\ ~(fin \/ closed \/ item[i].flag)
      \/ h.st = "adjust" /\ item[i].meta < h.q /\ ~closed
Followed(h, m) ==
  IF m = 0 THEN NoHold
  ELSE IF h.st = "none" \/ (h.st = "confirmed" /\ m > h.q) THEN Row("confirmed", m)
  ELSE [h EXCEPT !.st = "confirmed", !.q = m]
Synced(i, fin) == IF Waits(i, fin) THEN hold[i] ELSE Followed(hold[i], item[i].meta)

BeginReduce(i, t) ==
  /\ Idle(i) /\ item[i].open /\ ~item[i].flag /\ ~item[i].gave /\ item[i].meta = 0
  /\ item[i].to \in {0, t}
  /\ Intends(i, Intended(hold[i], t))
  /\ item' = Works(i, "reduce", "move", t)
  /\ UNCHANGED <<coreVars, stock, early, backlog, redo, siteVars, job, fix, netVars>>

BeginRaise(i, t) ==
  /\ Idle(i) /\ item[i].open /\ item[i].flag /\ ~item[i].gave
  /\ 0 < item[i].meta /\ item[i].meta < t
  /\ Intends(i, Adjusted(hold[i], item[i].meta, t))
  /\ item' = Works(i, "raise", "move", t)
  /\ UNCHANGED <<coreVars, stock, early, backlog, redo, siteVars, job, fix, netVars>>

\* An edit or a refund lowers the item; the ledger hears of it afterwards.
BeginLower(i, t) ==
  /\ Idle(i) /\ item[i].open /\ item[i].flag
  /\ 0 < t /\ t < item[i].meta
  /\ item[i].gave => t <= item[i].sold
  /\ item' = Works(i, "lower", "move", t)
  /\ UNCHANGED <<coreVars, stock, ledgerVars, siteVars, job, fix, netVars, mishaps>>

\* What _reduced_stock does not say is not given back.
Attested(i) == IF item[i].sold < item[i].meta THEN item[i].sold ELSE item[i].meta
\* A closed order gives back what _reduced_stock says.
Cancel(i) ==
  /\ Idle(i) /\ item[i].open
  /\ item' = [item EXCEPT ![i] = [@ EXCEPT !.op = "cancel", !.to = 0, !.open = FALSE,
                                    !.pc = IF item[i].meta > 0 THEN "move" ELSE "sync",
                                    !.sold = Attested(i)]]
  /\ UNCHANGED <<coreVars, stock, ledgerVars, siteVars, job, fix, netVars, mishaps>>

\* UPDATE ... SET meta_value = meta_value -/+ n waits for the row lock.  It goes
\* by _reduced_stock: units a dead request gave back are given back again.
Move(i) ==
  /\ item[i].pc = "move" /\ ~RowLocked
  /\ stock' = stock - (item[i].to - item[i].meta)
  /\ excess' = excess + Pos(item[i].meta - item[i].sold)
  /\ item' = [item EXCEPT ![i] = [@ EXCEPT !.sold = item[i].to, !.pc = "meta"]]
  /\ UNCHANGED <<coreVars, ledgerVars, epoch, intent, state, base, job, fix, netVars,
                 ops, mishaps>>

MoveFails(i) ==
  /\ item[i].pc = "move" /\ Fails("move")
  /\ item' = IF item[i].op \in {"raise", "lower"}
             THEN Rests(i, "idle")
             ELSE [item EXCEPT ![i] = [@ EXCEPT !.sold = Attested(i), !.pc = "sync"]]
  /\ UNCHANGED <<coreVars, stock, ledgerVars, siteVars, job, fix, netVars, ops>>

WriteMeta(i) ==
  /\ item[i].pc = "meta"
  /\ item' = [item EXCEPT ![i] = [@ EXCEPT !.meta = item[i].to, !.pc = "sync"]]
  /\ UNCHANGED <<coreVars, stock, ledgerVars, siteVars, job, fix, netVars, ops, mishaps>>

\* sync_item_safe and sync_order_safe; a row that cannot be written leaves an
\* 'order' mark, and a mark that cannot be written the fault.
Sync(i) ==
  LET op == item[i].op
      flag == (item[i].flag \/ op = "reduce") /\ op # "cancel"
      Leaves(pc) == item' = [item EXCEPT ![i] =
                               [@ EXCEPT !.op = "none", !.pc = pc, !.flag = flag]]
  IN
  /\ item[i].pc = "sync"
  /\ \/ /\ hold' = [hold EXCEPT ![i] = Synced(i, op = "reduce")]
        /\ Leaves("recompute")
        /\ UNCHANGED <<backlog, fault, mishaps>>
     \/ /\ Fails("sync") /\ backlog' = backlog \cup {i}
        /\ Leaves("idle")
        /\ UNCHANGED <<hold, fault>>
     \/ /\ Fails("mark") /\ fault' = TRUE
        /\ Leaves("idle")
        /\ UNCHANGED <<hold, backlog>>
  /\ UNCHANGED <<coreVars, stock, early, redo, siteVars, job, fix, netVars, ops>>

ItemRecomputes(i) ==
  /\ item[i].pc = "recompute"
  /\ item' = [item EXCEPT ![i].pc = "idle"]
  /\ Recompute
  /\ UNCHANGED <<coreVars, stock, hold, early, backlog, siteVars, fix, netVars, ops>>

\* The PHP process of the item dies at any step.
ItemDies(i) ==
  /\ item[i].pc # "idle" /\ Fails("crash")
  /\ item' = Rests(i, "idle")
  /\ UNCHANGED <<coreVars, stock, ledgerVars, siteVars, job, fix, netVars, ops>>

\* drain_backlog: the next ready() writes the row the mark asks for.
Drain(i) ==
  /\ i \in backlog
  /\ hold' = [hold EXCEPT ![i] = Synced(i, FALSE)]
  /\ backlog' = backlog \ {i}
  /\ redo' = "new"
  /\ UNCHANGED <<coreVars, item, stock, early, fault, siteVars, job, fix, netVars,
                 ops, mishaps>>

-----------------------------------------------------------------------------
(* Snapshots and orders on the wire.                                        *)

\* GET /web/stock is answered; every release asked before it is ripe for it.
StartPull ==
  /\ pull = NoState
  /\ pull' = Snapshot(Len(log), epoch)
  /\ hold' = [i \in Items |->
                IF hold[i].rel = "asked" THEN [hold[i] EXCEPT !.rel = "ripe"] ELSE hold[i]]
  /\ UNCHANGED <<coreVars, item, stock, early, backlog, redo, fault, siteVars, job,
                 fix, req, frozen, ops, mishaps>>

\* bind_releases: the snapshot acknowledges the holds released before it was asked for.
Bindable ==
  {i \in Items : /\ hold[i].rel = "ripe" /\ hold[i].relEp = epoch
                 /\ ~(hold[i].ack # NoAck /\ hold[i].ep = epoch)}
Bound ==
  [i \in Items |->
     IF i \in Bindable
     THEN [hold[i] EXCEPT !.st = "confirmed", !.ack = pull.r, !.ep = epoch,
                          !.rel = "no", !.relEp = 0]
     ELSE hold[i]]

\* A snapshot no newer than the one the number is made from.
Stale(s) == Known /\ s.r <= state.r

ApplyPull ==
  /\ pull # NoState /\ pull.e = epoch /\ Ready /\ job = NoJob
  /\ hold' = Bound
  /\ early' = early \ Bindable
  /\ IF ~Stale(pull) THEN TakeLock("pull", pull, TRUE)
     ELSE IF Bindable # {} THEN TakeLock("pull", state, FALSE) ELSE UNCHANGED job
  /\ pull' = NoState
  /\ UNCHANGED <<coreVars, item, stock, backlog, redo, fault, siteVars, fix, req,
                 frozen, ops, mishaps>>

\* Busy, blocked, lost, or asked for in another epoch.
DropPull ==
  /\ pull # NoState
  /\ \/ (pull.e # epoch \/ ~Ready \/ job # NoJob) /\ UNCHANGED mishaps
     \/ Fails("net")
  /\ pull' = NoState
  /\ UNCHANGED <<coreVars, item, stock, ledgerVars, siteVars, job, fix, req, frozen, ops>>

\* A push of version r arrives, late or twice.  Until the first snapshot the
\* site takes the bare number; once the protocol is active, a product whose
\* epoch is over waits for a pull.
Push(r) ==
  /\ Ready /\ job = NoJob
  /\ LET s == Snapshot(r, epoch)
     IN \/ Known /\ ~Stale(s) /\ TakeLock("push", s, TRUE) /\ UNCHANGED stock
        \/ state = NoState /\ ~RowLocked /\ stock' = s.c /\ stock # s.c /\ UNCHANGED job
  /\ UNCHANGED <<coreVars, item, ledgerVars, siteVars, fix, netVars, ops, mishaps>>

\* The quantity of the payload is frozen when the order is first sent; sending
\* it again counts as an operation.
Send(i) ==
  /\ item[i].open /\ item[i].to > 0 /\ ~item[i].gave
  /\ req[i] = NoReq
  /\ frozen' = [frozen EXCEPT ![i] = IF @ = 0 THEN item[i].to ELSE @]
  /\ req' = [req EXCEPT ![i] = [st |-> "sent", e |-> epoch, q |-> frozen'[i], rev |-> 0]]
  /\ IF frozen[i] = 0 THEN UNCHANGED ops ELSE ops < MaxOps /\ ops' = ops + 1
  /\ UNCHANGED <<coreVars, item, stock, ledgerVars, siteVars, job, fix, pull, mishaps>>

RequestLost(i) ==
  /\ req[i].st \in {"sent", "answered"} /\ Fails("net")
  /\ req' = [req EXCEPT ![i] = NoReq]
  /\ UNCHANGED <<coreVars, item, stock, ledgerVars, siteVars, job, fix, pull, frozen, ops>>

\* ack_order: the answer acknowledges the hold if it covers all of it and
\* belongs to the epoch of the request; any other answer only recomputes.
Acknowledged(i) ==
  IF hold[i].st = "confirmed" /\ hold[i].ack = NoAck /\ hold[i].q <= req[i].q
  THEN [hold[i] EXCEPT !.ack = req[i].rev, !.ep = epoch]
  ELSE hold[i]
\* Wrong: the epoch of the request does not matter.
AckArrivesLate(i) ==
  /\ req[i].st = "answered"
  /\ hold' = [hold EXCEPT ![i] = Acknowledged(i)]
  /\ early' = IF hold' = hold THEN early ELSE early \ {i}
  /\ req' = [req EXCEPT ![i].st = "recompute"]
  /\ UNCHANGED <<coreVars, item, stock, backlog, redo, fault, siteVars, job, fix, pull,
                 frozen, ops, mishaps>>
AckArrives(i) ==
  /\ req[i].st = "answered"
  /\ IF req[i].e = epoch
     THEN /\ hold' = [hold EXCEPT ![i] = Acknowledged(i)]
          /\ early' = IF hold' = hold THEN early ELSE early \ {i}
          /\ req' = [req EXCEPT ![i].st = "recompute"]
     ELSE req' = [req EXCEPT ![i] = NoReq] /\ UNCHANGED <<hold, early>>
  /\ UNCHANGED <<coreVars, item, stock, backlog, redo, fault, siteVars, job, fix, pull,
                 frozen, ops, mishaps>>

AckRecomputes(i) ==
  /\ req[i].st = "recompute"
  /\ req' = [req EXCEPT ![i] = NoReq]
  /\ Recompute
  /\ UNCHANGED <<coreVars, item, stock, hold, early, backlog, siteVars, fix, pull,
                 frozen, ops>>

\* A manager releases a hold the site cannot resolve: Core recorded the order
\* all the same, or the order never took the units.  The hold counts until the
\* next snapshot asked for after this.
Unresolved(i) ==
  /\ hold[i].st # "none" /\ hold[i].rel = "no"
  /\ hold[i].st # "confirmed" \/ hold[i].ack = NoAck \/ hold[i].ep # epoch
ReleaseHold(i, reason) ==
  /\ Unresolved(i) /\ item[i].pc = "idle" /\ ~lost
  /\ CASE reason = "recorded" -> hold[i].q <= Core.has[i]
       [] reason = "void"     -> item[i].sold = 0
  /\ hold' = [hold EXCEPT ![i] = [@ EXCEPT !.rel = "asked", !.relEp = epoch]]
  /\ UNCHANGED <<coreVars, item, stock, early, backlog, redo, fault, siteVars, job,
                 fix, netVars, ops, mishaps>>

-----------------------------------------------------------------------------
(* A manager resets the watermark after Core was restored from its backup.  *)

\* An acknowledgement older than the backup holds for it, whatever its versions.
Carried(h) == [h EXCEPT !.ack = 0, !.ep = epoch + 1]
\* Wrong: every acknowledgement is carried, those after the backup too.
ResetCarriesAll(carry) ==
  /\ epoch < MaxEpoch /\ lost /\ ~RowLocked
  /\ epoch' = epoch + 1 /\ intent' = epoch + 1
  /\ hold' = [i \in Items |->
                IF carry /\ hold[i].ack # NoAck /\ hold[i].ep = epoch
                THEN Carried(hold[i]) ELSE hold[i]]
  /\ fault' = FALSE
  /\ lost' = FALSE /\ base' = Len(log)
  /\ UNCHANGED <<log, backup, item, stock, early, backlog, redo, state, excess, job,
                 fix, netVars, ops, mishaps>>
Reset(carry) ==
  /\ epoch < MaxEpoch /\ lost /\ ~RowLocked
  /\ epoch' = epoch + 1 /\ intent' = epoch + 1
  /\ hold' = [i \in Items |->
                IF carry /\ i \in early /\ hold[i].ack # NoAck /\ hold[i].ep = epoch
                THEN Carried(hold[i]) ELSE hold[i]]
  /\ fault' = FALSE
  /\ lost' = FALSE /\ base' = Len(log)
  /\ UNCHANGED <<log, backup, item, stock, early, backlog, redo, state, excess, job,
                 fix, netVars, ops, mishaps>>

\* resume_reset writes the number of the old snapshot again, with the holds the
\* new epoch counts, under the row lock only.
Reopened == [state EXCEPT !.e = epoch]
FixReads ==
  /\ intent = epoch /\ fix = NoFix /\ ~RowLocked
  /\ fix' = IF Known \/ state = NoState \/ \A i \in Items : hold[i].st = "none"
            THEN [NoFix EXCEPT !.e = epoch, !.st = "done"]
            ELSE [e |-> epoch, st |-> "read", n |-> Target(Reopened, epoch),
                  cl |-> Added(Reopened, epoch)]
  /\ UNCHANGED <<coreVars, item, stock, ledgerVars, siteVars, job, netVars, ops, mishaps>>

FixCommits ==
  /\ fix.st = "read"
  /\ stock' = fix.n /\ excess' = fix.cl
  /\ fix' = [fix EXCEPT !.st = "done"]
  /\ UNCHANGED <<coreVars, item, ledgerVars, epoch, intent, state, base, job, netVars,
                 ops, mishaps>>

\* The intent is deleted only if no later reset replaced it.
FixEnds ==
  /\ fix.st = "done"
  /\ intent' = IF intent = fix.e THEN 0 ELSE intent
  /\ fix' = NoFix
  /\ UNCHANGED <<coreVars, item, stock, ledgerVars, epoch, state, excess, base, job,
                 netVars, ops, mishaps>>

FixDies ==
  /\ fix # NoFix /\ (Fails("crash") \/ Fails("write"))
  /\ fix' = NoFix
  /\ UNCHANGED <<coreVars, item, stock, ledgerVars, siteVars, job, netVars, ops>>

-----------------------------------------------------------------------------
ItemStep(i) ==
  Move(i) \/ WriteMeta(i) \/ Sync(i) \/ ItemRecomputes(i)
Order(i) ==
  \/ \E t \in 1..MaxQty : BeginReduce(i, t) \/ BeginRaise(i, t) \/ BeginLower(i, t)
  \/ Cancel(i)
Wire == StartPull \/ ApplyPull \/ DropPull \/ \E r \in 1..Len(log) : Push(r)
Exchange(i) ==
  Send(i) \/ RequestLost(i) \/ AckArrives(i) \/ AckRecomputes(i) \/ CoreRecords(i)
Writers == JobReads \/ JobCommits \/ Maintain
FixStep == FixReads \/ FixCommits \/ FixEnds

Next ==
  \/ \E d \in {-1, 1} : InStore(d)
  \/ StatusFlips \/ Backup \/ Restore
  \/ \E i \in Items :
       \/ Order(i) \/ ItemStep(i) \/ Exchange(i) \/ CoreGivesBack(i)
       \/ MoveFails(i) \/ ItemDies(i) \/ Drain(i)
       \/ \E reason \in Releases : ReleaseHold(i, reason)
  \/ Wire \/ Writers \/ JobGivesUp \/ JobDies
  \/ FixStep \/ FixDies
  \/ \E carry \in Carries : Reset(carry)

Spec == Init /\ [][Next]_vars

\* The site polls Core and retries, every request of PHP runs to its end, and
\* the order queue delivers: what the cron of the plugin does.  The manager,
\* the shop and the customers owe nothing.
Fairness ==
  /\ WF_vars(StartPull) /\ SF_vars(ApplyPull)
  /\ WF_vars(Writers) /\ WF_vars(JobGivesUp) /\ SF_vars(Maintain)
  /\ WF_vars(FixStep)
  /\ \A i \in Items : WF_vars(ItemStep(i)) /\ WF_vars(Drain(i))
                      /\ WF_vars(AckArrives(i)) /\ WF_vars(AckRecomputes(i))
LiveSpec == Spec /\ Fairness

-----------------------------------------------------------------------------
SumOver(f) == SumFunctionOnSet(f, Items)

\* What Core's snapshot leaves when the units the orders took beyond it are gone.
Left == state.c + SumOver([i \in Items |-> state.has[i] - item[i].sold])

\* The number never shows a unit twice: it is at most what the snapshot leaves,
\* but for what max(0, .) added when the site owed more than it had and what
\* WooCommerce gave back twice, and unless the fault stopped the ledger
\* (class-lmc-stock-ledger.php:45, :1006).
NeverAbove == Known /\ ~fault => stock <= Left + excess

\* Units WooCommerce took are covered by a hold, whatever failed in between,
\* unless the fault stopped the ledger (write order of lines 384-426, 513-576).
HoldsCover == \A i \in Items : item[i].sold <= hold[i].q \/ fault

\* An acknowledged item is in every version of Core from its acknowledgement
\* on, in the epoch it was acknowledged in (lines 720-768, 1285-1298, 1388-1394).
Acked(i) == hold[i].ack # NoAck /\ hold[i].ep = epoch
AckIsProof ==
  \A i \in Items : Acked(i) /\ ~lost /\ ~fault =>
    \A r \in 1..Len(log) : r >= hold[i].ack /\ r >= base => item[i].sold <= log[r].has[i]

\* A snapshot is only ever replaced by one of the current epoch, newer than the
\* last of that epoch and not older than the reset (lines 888-944).
WatermarkAdvances ==
  [][state' # state => /\ state'.e = epoch' /\ state'.r >= base
                       /\ state.e = state'.e => state.r < state'.r]_vars

\* No step of the site's own writers shows units the ledger hides: when the
\* number is below its target, somebody still has to write it.
HiddenUnitsAreOwned ==
  Known /\ stock < Target(state, epoch) =>
    \/ redo # "none" \/ backlog # {} \/ fault \/ job # NoJob \/ fix # NoFix
    \/ intent = epoch
    \/ \E i \in Items : item[i].pc # "idle" \/ req[i].st = "recompute"

\* When the shop is quiet the site ends at Core's balance less the holds the
\* balance does not have, unless the fault stopped it.
Settled == stock = Target(Snapshot(Len(log), epoch), epoch)
SiteCatchesUp == <>[](Settled \/ fault \/ lost)
=============================================================================
