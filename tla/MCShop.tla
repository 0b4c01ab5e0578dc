------------------------------- MODULE MCShop -------------------------------
(* Small instances of Purchasing, Warehouse, CashDay, Treasury and RestoreJob. *)
(* They share no state, so a behaviour runs one of them, its part, and leaves  *)
(* the others at their start.  Purchasing has two parts: receipts for an order *)
(* under one costing method, and receipts without one while the method         *)
(* changes.  Warehouse has two: transfers with the counts and sales around     *)
(* them, and sales with their returns while the method changes.  CashDay has   *)
(* three: two drawers with one POS and one Instagram sale, one drawer with two *)
(* POS sales of one customer, and one drawer with two Instagram sales over two *)
(* days.  Treasury has two, a received and an issued cheque.                   *)
EXTENDS Purchasing, Warehouse, CashDay, Treasury, RestoreJob, TLC
CONSTANTS r1, r2, t1, c1, s1, d1, d2, p1, p2, w1, w2, q1, q2, k1, k2, in1, out1, j1, j2, Parts

VARIABLE part

MCPrice == (r1 :> 10) @@ (r2 :> 4)
MCFreight == (r1 :> 1) @@ (r2 :> 0)
MCUserOf == [d \in Shifts |-> d]

MCInit ==
  /\ part \in Parts
  /\ PurchasingInit /\ WarehouseInit /\ CashDayInit /\ TreasuryInit /\ RestoreInit
  /\ part = "ordering" => method = "last_purchase"
  /\ part \notin {"ordering", "buying"} => method = "average"
  /\ part \notin {"moving", "stores"} => way = "average"

(* The actions of Purchasing, Warehouse, CashDay, Treasury and RestoreJob, one *)
(* by one, so that TLC counts each of them.                                 *)
Buying(Act) ==
  part \in {"ordering", "buying"} /\ Act /\ part' = part /\ UNCHANGED <<wvars, dvars, tvars, rvars>>
BuyingNext ==
  \/ Buying(part = "ordering" /\ \E n \in BuyQty : SetOrderLine(n))
  \/ Buying(part = "ordering" /\ SendOrder)
  \/ Buying(part = "ordering" /\ \E reason \in BOOLEAN : CloseOrder(reason))
  \/ Buying(part = "ordering" /\ \E r \in Receipts : AskReceipt(r))
  \/ Buying(part = "ordering" /\ \E r \in Receipts : OpenForOrder(r))
  \/ Buying(\E r \in Receipts, linked \in BOOLEAN : OpenReceipt(r, linked))
  \/ Buying(\E r \in Receipts, k \in Kinds, n \in 1..MaxBuy : AddLine(r, k, n))
  \/ Buying(\E r \in Receipts, k \in Kinds, n \in 1..MaxBuy : SetLine(r, k, n))
  \/ Buying(\E r \in Receipts, k \in Kinds : RemoveLine(r, k))
  \/ Buying(\E r \in Receipts : AddCharge(r))
  \/ Buying(\E r \in Receipts : RemoveCharge(r))
  \/ Buying(\E r \in Receipts : CancelReceipt(r))
  \/ Buying(\E r \in Receipts : PostReceipt(r))
  \/ Buying(\E r \in Receipts, n \in [Kinds -> BuyQty] : ReturnGoods(r, n))
  \/ Buying(\E n \in 1..MaxSold : SellBought(n))
  \/ Buying(BookBought)
  \/ Buying(part = "buying" /\ \E m \in BuyMethods : SetMethod(m))

Stores(Act) ==
  part \in {"moving", "stores"} /\ Act /\ part' = part /\ UNCHANGED <<pvars, dvars, tvars, rvars>>
StoresNext ==
  \/ Stores(\E p \in Places, n \in 1..MaxQty, cost \in Costs : Arrive(p, n, cost))
  \/ Stores(\E p \in Places : Lose(p))
  \/ Stores(\E s \in Sales, n \in 1..MaxQty : Sell(s, n))
  \/ Stores(BookSales)
  \/ Stores(part = "stores" /\ \E s \in Sales, n \in 1..MaxQty, restock \in BOOLEAN,
                  p \in Places : TakeBack(s, n, restock, p))
  \/ Stores(part = "stores" /\ \E m \in Methods : SetWay(m))
  \/ Stores(part = "moving" /\ \E t \in Transfers, p \in Places : CreateTransfer(t, p))
  \/ Stores(\E t \in Transfers, op \in {"add", "set", "remove"}, n \in 1..MaxQty :
                  /\ transfer[t].qty + n <= MaxQty \/ op # "add"
                  /\ op = "remove" => n = 1
                  /\ SeeDraft([t |-> t, op |-> op, qty |-> n]))
  \/ Stores(EditLands)
  \/ Stores(\E t \in Transfers : Discard(t))
  \/ Stores(\E t \in Transfers : PostTransfer(t))
  \/ Stores(\E c \in Counts, p \in Places : OpenCount(c, p))
  \/ Stores(\E c \in Counts : CountShelf(c))
  \/ Stores(\E c \in Counts : Unlist(c))
  \/ Stores(\E c \in Counts : CancelCount(c))
  \/ Stores(\E c \in Counts : PostCount(c))

(* The sales, drawers and returns of each part of CashDay. *)
Till(Act) ==
  part \in {"drawers", "debts", "days"} /\ Act /\ part' = part /\ UNCHANGED <<pvars, wvars, tvars, rvars>>
Bills == CASE part = "drawers" -> {p1, w1} [] part = "debts" -> Pos [] OTHER -> Sites
Drawers == IF part = "drawers" THEN Shifts ELSE {d1}
Backs == CASE part = "drawers" -> {q1} [] part = "debts" -> Returns [] OTHER -> {}
TillNext ==
  \/ Till(\E s \in Drawers : OpenShift(s))
  \/ Till(\E s \in Drawers : CloseSums(s))
  \/ Till(\E s \in Drawers : CloseEnds(s))
  \/ Till(\E s \in Drawers : CloseRefused(s))
  \/ Till(\E i \in Bills, s \in Shifts : AskDraft(i, s))
  \/ Till(\E i \in Bills : InsertDraft(i))
  \/ Till(\E i \in Bills, n \in 0..MaxUnits : EditLines(i, n))
  \/ Till(\E i \in Bills, s \in Shifts, n \in 1..MaxCash : Pay(i, s, n))
  \/ Till(\E i \in Bills : FinalizeBegins(i))
  \/ Till(\E i \in Bills : FinalizeCommits(i))
  \/ Till(\E i \in Bills : FinalizeFails(i))
  \/ Till(\E i \in Bills : CancelDraft(i))
  \/ Till(\E i \in Bills : RefundDraft(i))
  \/ Till(\E r \in Backs, i \in Bills, n \in 1..MaxUnits, refund \in 0..MaxUnits,
             s \in Shifts \cup {None} : AskReturn(r, i, n, refund, s))
  \/ Till(\E r \in Backs : PostReturn(r))
  \/ Till(\E d \in Days : CloseDay(d))
  \/ Till(part # "debts" /\ NextDay)

(* Cheques have nothing in common: the requests of a part are about one.      *)
Office(Act) ==
  part \in {"received", "issued"} /\ Act /\ part' = part /\ UNCHANGED <<pvars, wvars, dvars, rvars>>
Cheque == IF part = "received" THEN in1 ELSE out1
OfficeNext ==
  \/ Office(\E k \in Keys, op \in Ops : (op.kind # "move" => op.c = Cheque) /\ Ask(k, op))
  \/ Office(\E k \in Keys : Retry(k))
  \/ Office(\E k \in Keys : Refused(k))
  \/ Office(\E k \in Keys : Seal(k))
  \/ Office(\E k \in Keys : Crash(k))
  \/ Office(\E k \in Keys : CreateAndPost(k))
  \/ Office(\E k \in Keys : CreateCheque(k))
  \/ Office(\E k \in Keys : PostEvent(k))
  \/ Office(\E k \in Keys : RepeatEvent(k))

Backup(Act) ==
  part = "restore" /\ Act /\ part' = part /\ UNCHANGED <<pvars, wvars, dvars, tvars>>
BackupNext ==
  \/ Backup(\E j \in Jobs : Restore(j))
  \/ Backup(CreateBackup)
  \/ Backup(BackupEnds)
  \/ Backup(SavePhase)
  \/ Backup(Rehearse)
  \/ Backup(StopServices("manager", "safety_backup"))
  \/ Backup(Dump)
  \/ Backup(Fence)
  \/ Backup(Rename)
  \/ Backup(Allow)
  \/ Backup(StartServices("manager", "start", {"api"}, "completed"))
  \/ Backup(Complete)
  \/ Backup(\E j \in Jobs : Recover(j))
  \/ Backup(StopServices("tool", IF job[Mine("tool")].phase \in Renames THEN "undo" ELSE "restart"))
  \/ Backup(ToolCloses)
  \/ Backup(Unlock)
  \/ Backup(FreeLock)
  \/ Backup(\E p \in Processes : Rollback(p))
  \/ Backup(\E p \in Processes : RenameBack(p))
  \/ Backup(\E p \in Processes : Reopen(p))
  \/ Backup(\E p \in Processes : StartServices(p, "restart", Services, "close"))
  \/ Backup(Close)
  \/ Backup(GiveUp)
  \/ Backup(\E p \in Processes : Die(p))
  \/ Backup(StartsAgain)
  \/ Backup(Sale)
  \/ Backup(Reconcile)

MCNext == BuyingNext \/ StoresNext \/ TillNext \/ OfficeNext \/ BackupNext
MCSpec == MCInit /\ [][MCNext]_<<pvars, wvars, dvars, tvars, rvars, part>>

(* Nothing tells one key from another. *)
Alike == Permutations(Keys)
=============================================================================
