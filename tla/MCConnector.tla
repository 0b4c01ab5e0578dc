---------------------------- MODULE MCConnector -----------------------------
(* Small instances of StockLedger, SiteQueue and WebOrders.  They share no     *)
(* state, so a behaviour runs one of them, its part, and leaves the others at *)
(* their start.                                                             *)
EXTENDS StockLedger, SiteQueue, WebOrders, TLC
CONSTANTS i1, i2, p1, p2, o1, o2, Parts

VARIABLE part

MCInit ==
  /\ part \in Parts
  /\ Init /\ SiteQueueInit /\ WebOrdersInit
  /\ part # "queue" => hook = "order"
  /\ part # "orders" => \A o \in Orders : shop[o].cod

(* The actions of StockLedger, SiteQueue and WebOrders, one by one, so that    *)
(* TLC counts each of them.  Drain follows a failed sync and CoreGivesBack a  *)
(* third version of the balance: no run of this module has them, MCStock has. *)
Ledger(Act) == part = "ledger" /\ Act /\ part' = part /\ UNCHANGED <<qvars, wovars>>
LedgerNext ==
  \/ Ledger(\E d \in {-1, 1} : InStore(d))
  \/ Ledger(StatusFlips)
  \/ Ledger(Backup)
  \/ Ledger(Restore)
  \/ Ledger(\E i \in Items, t \in 1..MaxQty : BeginReduce(i, t))
  \/ Ledger(\E i \in Items, t \in 1..MaxQty : BeginRaise(i, t))
  \/ Ledger(\E i \in Items, t \in 1..MaxQty : BeginLower(i, t))
  \/ Ledger(\E i \in Items : Cancel(i))
  \/ Ledger(\E i \in Items : Move(i))
  \/ Ledger(\E i \in Items : MoveFails(i))
  \/ Ledger(\E i \in Items : WriteMeta(i))
  \/ Ledger(\E i \in Items : Sync(i))
  \/ Ledger(\E i \in Items : ItemRecomputes(i))
  \/ Ledger(\E i \in Items : ItemDies(i))
  \/ Ledger(\E i \in Items : Send(i))
  \/ Ledger(\E i \in Items : RequestLost(i))
  \/ Ledger(\E i \in Items : AckArrives(i))
  \/ Ledger(\E i \in Items : AckRecomputes(i))
  \/ Ledger(\E i \in Items : CoreRecords(i))
  \/ Ledger(\E i \in Items, reason \in Releases : ReleaseHold(i, reason))
  \/ Ledger(StartPull)
  \/ Ledger(ApplyPull)
  \/ Ledger(DropPull)
  \/ Ledger(\E r \in 1..Len(log) : Push(r))
  \/ Ledger(JobReads)
  \/ Ledger(JobCommits)
  \/ Ledger(Maintain)
  \/ Ledger(JobGivesUp)
  \/ Ledger(JobDies)
  \/ Ledger(FixReads)
  \/ Ledger(FixCommits)
  \/ Ledger(FixEnds)
  \/ Ledger(FixDies)
  \/ Ledger(\E carry \in Carries : Reset(carry))

(* Two requests, two refusals and a death are never all in one behaviour.    *)
Queue(Act) ==
  /\ part = "queue" /\ Act /\ part' = part /\ UNCHANGED <<vars, wovars>>
  /\ asks' + kills' + db'.faults <= 4
QueueNext ==
  \/ Queue(Ask)
  \/ Queue(\E p \in Runners : TakeRow(p))
  \/ Queue(\E p \in Runners : StartFails(p))
  \/ Queue(\E p \in Runners : CronRun(p))
  \/ Queue(\E p \in Runners : Resend(p))
  \/ Queue(\E p \in Runners : Finish(p))
  \/ Queue(\E p \in Runners : Again(p))
  \/ Queue(\E p \in Runners : Throw(p))
  \/ Queue(\E p \in Runners : Supersede(p, "retry"))
  \/ Queue(\E p \in Runners : Supersede(p, "stop"))
  \/ Queue(\E p \in Runners : Executed(p))
  \/ Queue(\E p \in Runners : Settle(p))
  \/ Queue(\E p \in Runners : Clean(p))
  \/ Queue(\E p \in Runners : Die(p))
  \/ Queue(\E op \in {"e", "r"} : DrainMarker(op))
  \/ Queue(\E op \in {"e", "r"} : DrainGivesUp(op))
  \/ Queue(\E i \in Ids : DrainFailure(i))
  \/ Queue(DrainForgets)
  \/ Queue(DrainDies)

(* Much happens to one order, or less to both.                                 *)
Bounded ==
  \/ changes' + troubles' <= 3
  \/ \E o \in Orders : shop'[o].status = "pending" /\ ~shop'[o].paid
Web(Act) == part = "orders" /\ Act /\ Bounded /\ part' = part /\ UNCHANGED <<vars, qvars>>
WebNext ==
  \/ Web(\E o \in Orders, status \in Statuses, ok \in BOOLEAN : SetStatus(o, status, ok))
  \/ Web(\E o \in Orders, ok \in BOOLEAN : SendAgain(o, ok))
  \/ Web(\E o \in Orders : ChangeMethod(o))
  \/ Web(\E o \in Orders : PaymentComplete(o))
  \/ Web(\E o \in Orders : ConfirmPayment(o))
  \/ Web(\E o \in Orders, j \in JobKinds : RunJob(o, j))
  \/ Web(\E o \in Orders, j \in JobKinds : Answered(o, j))
  \/ Web(\E o \in Orders, j \in JobKinds : TurnedAway(o, j))
  \/ Web(\E o \in Orders, j \in JobKinds : Unanswered(o, j))
  \/ Web(\E o \in Orders, j \in JobKinds : RunDies(o, j))
  \/ Web(\E o \in Orders, what \in Kinds : Late(o, what))
  \/ Web(ShelfSale)
  \/ Web(Arrival)

MCNext == LedgerNext \/ QueueNext \/ WebNext
MCSpec == MCInit /\ [][MCNext]_<<vars, qvars, wovars, part>>

(* Nothing tells one process, or one order, from another.                    *)
Alike == Permutations(Runners) \cup Permutations(Orders)
=============================================================================
