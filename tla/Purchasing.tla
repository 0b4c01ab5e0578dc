----------------------------- MODULE Purchasing -----------------------------
(***************************************************************************)
(* One variation bought into one warehouse: an order sent to the supplier,  *)
(* receipts (some filled from what the order still lacks, some by hand),     *)
(* purchase returns, and the sales that use the goods up meanwhile, with     *)
(* the value of the stock and the inventory account of the ledger.          *)
(*                                                                          *)
(* Every posting is one transaction under FOR UPDATE of its document and of  *)
(* the stock row, hence one action; what a route reads before it opens the   *)
(* transaction is an action of its own.                                      *)
(***************************************************************************)
EXTENDS Costing

CONSTANTS
  Receipts,   \* idempotency keys of requests that open a receipt; the receipt
              \* a key opens is named by it
  Price,      \* unit price on each receipt
  Freight,    \* charge that goes into the cost of each receipt's goods
  BuyMethods, \* values platform.setting costing.method takes here
  MaxBuy,     \* bound: pieces on one document
  MaxSold     \* bound: pieces sold

ASSUME PurchasingConstants ==
  /\ Price \in [Receipts -> Nat] /\ Freight \in [Receipts -> Nat]
  /\ BuyMethods \subseteq CostingMethods
  /\ MaxBuy \in Nat /\ MaxSold \in Nat

VARIABLES
  goods,     \* inventory.stock_balance and the cost layers of the variation
  method,    \* platform.setting costing.method
  books,     \* ledger: balance of the inventory account
  owed,      \* cost of finalized invoices no posting batch has booked yet
  sold,      \* pieces sold so far
  order,     \* purchasing.purchase_order and its line
  receipt,   \* purchasing.receipt, its lines and its charge
  asked      \* what a request to open a receipt read of the order, by key

pvars == <<goods, method, books, owed, sold, order, receipt, asked>>

(* A receipt has at most one line bought for the order and one scanned        *)
(* besides, since a repeated scan at the same price adds to the line; last    *)
(* is the one created later.                                                *)
Kinds == {"ordered", "loose"}
BuyQty == 0..MaxBuy
Lines == [qty : Nat, returned : Nat, given : Int]
NoLine == [qty |-> 0, returned |-> 0, given |-> 0]
ReceiptRecords == [status : {"none", "draft", "posted", "cancelled"},
                   linked : BOOLEAN, line : [Kinds -> Lines], last : Kinds,
                   freight : BOOLEAN]
NoReceipt == [status |-> "none", linked |-> FALSE, line |-> [k \in Kinds |-> NoLine],
              last |-> "loose", freight |-> FALSE]

PurchasingTypeOK ==
  /\ goods \in Balances
  /\ method \in BuyMethods
  /\ books \in Int
  /\ owed \in Nat
  /\ sold \in Nat
  /\ order \in [status : {"draft", "sent", "closed", "cancelled"}, qty : BuyQty]
  /\ receipt \in [Receipts -> ReceiptRecords]
  /\ asked \in [Receipts -> Nat]

PurchasingInit ==
  /\ goods = NoStock
  /\ method \in BuyMethods
  /\ books = 0 /\ owed = 0 /\ sold = 0
  /\ order = [status |-> "draft", qty |-> 0]
  /\ receipt = [r \in Receipts |-> NoReceipt]
  /\ asked = [r \in Receipts |-> 0]

-----------------------------------------------------------------------------
(* The order.                                                               *)

(* purchasing.order_progress: what posted receipts brought and kept. *)
CameFor(r) == IF receipt[r].status = "posted"
               THEN receipt[r].line["ordered"].qty - receipt[r].line["ordered"].returned
               ELSE 0
Remaining == LET came == FoldFunction(+, 0, [r \in Receipts |-> CameFor(r)])
             IN IF order.qty > came THEN order.qty - came ELSE 0

(* setLine and removeLine: the number a line carries is replaced; 0 here is  *)
(* an order without the line, which receipt lines keep from being removed.   *)
SetOrderLine(n) ==
  /\ order.status = "draft" /\ n # order.qty
  /\ n = 0 => \A r \in Receipts : receipt[r].line["ordered"].qty = 0
  /\ order' = [order EXCEPT !.qty = n]
  /\ UNCHANGED <<goods, method, books, owed, sold, receipt, asked>>

SendOrder ==
  /\ order.status = "draft" /\ order.qty > 0
  /\ order' = [order EXCEPT !.status = "sent"]
  /\ UNCHANGED <<goods, method, books, owed, sold, receipt, asked>>

(* Closing an order that still lacks goods takes a reason; a draft is        *)
(* cancelled instead.                                                       *)
CloseOrder(reason) ==
  /\ order.status \in {"draft", "sent"}
  /\ Remaining > 0 => reason
  /\ order' = [order EXCEPT !.status = IF @ = "draft" THEN "cancelled" ELSE "closed"]
  /\ UNCHANGED <<goods, method, books, owed, sold, receipt, asked>>

(* POST /purchase-orders/:id/receipt reads the order outside a transaction; it *)
(* must lack something, at most all of it..                                  *)
AskReceipt(r) ==
  /\ order.status = "sent" /\ Remaining \in 1..order.qty
  /\ receipt[r].status = "none"
  /\ asked' = [asked EXCEPT ![r] = Remaining]
  /\ UNCHANGED <<goods, method, books, owed, sold, order, receipt>>

(* ..and opens the draft from what it read: neither the order's status nor   *)
(* what came meanwhile is looked at again.                                   *)
OpenForOrder(r) ==
  /\ asked[r] > 0 /\ receipt[r].status = "none"
  /\ receipt' = [receipt EXCEPT ![r].status = "draft", ![r].linked = TRUE,
                                ![r].line["ordered"].qty = asked[r],
                                ![r].last = "ordered"]
  /\ asked' = [asked EXCEPT ![r] = 0]
  /\ UNCHANGED <<goods, method, books, owed, sold, order>>

-----------------------------------------------------------------------------
(* The receipt while it is a draft.                                         *)

(* By hand, for the order (whatever its status) or for none. *)
OpenReceipt(r, linked) ==
  /\ receipt[r].status = "none"
  /\ receipt' = [receipt EXCEPT ![r].status = "draft", ![r].linked = linked]
  /\ UNCHANGED <<goods, method, books, owed, sold, order, asked>>

(* assertDraft: every edit locks the receipt and finds it still a draft. *)
Edit(r, new) ==
  /\ receipt[r].status = "draft"
  /\ receipt' = [receipt EXCEPT ![r] = new]
  /\ UNCHANGED <<goods, method, books, owed, sold, order, asked>>

Pieces(r) == receipt[r].line["ordered"].qty + receipt[r].line["loose"].qty

Other(k) == IF k = "loose" THEN "ordered" ELSE "loose"

(* addLine: a scan adds to the line of the same price and order line. *)
AddLine(r, k, n) ==
  /\ Pieces(r) + n <= MaxBuy
  /\ k = "ordered" => receipt[r].linked /\ order.qty > 0
  /\ Edit(r, [receipt[r] EXCEPT !.line[k].qty = @ + n,
                                !.last = IF receipt[r].line[k].qty = 0 THEN k ELSE @])

SetLine(r, k, n) ==
  /\ receipt[r].line[k].qty \notin {0, n}
  /\ Pieces(r) - receipt[r].line[k].qty + n <= MaxBuy
  /\ Edit(r, [receipt[r] EXCEPT !.line[k].qty = n])

RemoveLine(r, k) ==
  /\ receipt[r].line[k].qty > 0
  /\ Edit(r, [receipt[r] EXCEPT !.line[k] = NoLine, !.last = Other(k)])

(* A charge of nothing would change nothing. *)
AddCharge(r) == /\ ~receipt[r].freight /\ Freight[r] > 0
                /\ Edit(r, [receipt[r] EXCEPT !.freight = TRUE])

RemoveCharge(r) == /\ receipt[r].freight
                   /\ Edit(r, [receipt[r] EXCEPT !.freight = FALSE])

CancelReceipt(r) == Edit(r, [receipt[r] EXCEPT !.status = "cancelled"])

-----------------------------------------------------------------------------
(* Posting it.                                                              *)

Charge(r) == IF receipt[r].freight THEN Freight[r] ELSE 0
Amount(r, k) == receipt[r].line[k].qty * Price[r]

(* The charge is spread over the lines by rounding; the last line takes what *)
(* is left, so that the parts add up to the charge.  The lines have one      *)
(* price here, so by_value and by_qty give the same parts.                   *)
Part(r, k) == RoundDiv(Charge(r) * receipt[r].line[k].qty, Pieces(r))
(* wrong: the remainder of the rounding is left out *)
ShareRounded(r, k) == Part(r, k)
Share(r, k) == IF k = receipt[r].last THEN Charge(r) - Part(r, Other(k)) ELSE Part(r, k)

Landed(r, k) == Amount(r, k) + Share(r, k)
UnitCost(r, k) == RoundDiv(Landed(r, k), receipt[r].line[k].qty)

(* One variation with two landed costs is refused. *)
OneRate(r) == (\A k \in Kinds : receipt[r].line[k].qty > 0)
                => UnitCost(r, "ordered") = UnitCost(r, "loose")

(* Under last_purchase what is on hand is first brought to the new rate; the  *)
(* line then enters at its exact extended cost.                             *)
AtNewRate(b, r, k) ==
  IF method = "last_purchase" /\ receipt[r].line[k].qty > 0
  THEN Revalued(b, UnitCost(r, k)) ELSE b
Arrived(b, r, k) ==
  IF receipt[r].line[k].qty = 0 THEN b
  ELSE Entered(AtNewRate(b, r, k), receipt[r].line[k].qty, UnitCost(r, k), Landed(r, k))
Revaluation(b, r, k) == AtNewRate(b, r, k).value - b.value

PostReceipt(r) ==
  LET first == Arrived(goods, r, "ordered")
  IN /\ receipt[r].status = "draft"
     /\ Pieces(r) > 0 /\ OneRate(r)
     /\ goods' = Arrived(first, r, "loose")
     /\ books' = books + Pieces(r) * Price[r] + Charge(r)
                 + Revaluation(goods, r, "ordered") + Revaluation(first, r, "loose")
     /\ receipt' = [receipt EXCEPT ![r].status = "posted"]
     /\ UNCHANGED <<method, owed, sold, order, asked>>

-----------------------------------------------------------------------------
(* Giving goods back to the supplier: draft and posting are one request.     *)

(* wrong: every piece takes its rounded share *)
CostOfRounded(r, k, n) ==
  IF n = 0 THEN 0 ELSE RoundDiv(Landed(r, k) * n, receipt[r].line[k].qty)
(* The last piece of a line takes what is left of its landed cost. *)
CostOf(r, k, n) ==
  LET l == receipt[r].line[k]
  IN IF n = 0 THEN 0
     ELSE IF l.returned + n = l.qty THEN Landed(r, k) - l.given
     ELSE RoundDiv(Landed(r, k) * n, l.qty)

Back(r, k, n) ==
  [receipt[r].line[k] EXCEPT !.returned = @ + n, !.given = @ + CostOf(r, k, n)]

ReturnGoods(r, n) ==
  LET one == Left(goods, n["ordered"], CostOf(r, "ordered", n["ordered"]))
      two == Left(one, n["loose"], CostOf(r, "loose", n["loose"]))
  IN /\ receipt[r].status = "posted"
     /\ \E k \in Kinds : n[k] > 0
     /\ \A k \in Kinds : receipt[r].line[k].returned + n[k] <= receipt[r].line[k].qty
     /\ Lawful(one) /\ Lawful(two)
     /\ goods' = two
     /\ books' = books - CostOf(r, "ordered", n["ordered"]) - CostOf(r, "loose", n["loose"])
     /\ receipt' = [receipt EXCEPT ![r].line = [k \in Kinds |-> Back(r, k, n[k])]]
     /\ UNCHANGED <<method, owed, sold, order, asked>>

-----------------------------------------------------------------------------
(* Around it: a sale (finalize_invoice takes the goods and keeps their cost  *)
(* on the invoice), the posting batch that books it, and the setting.        *)

CanSell(n) == goods.on >= n /\ Lawful(Issued(goods, n, method))

SellBought(n) ==
  /\ sold + n <= MaxSold
  /\ CanSell(n)
  /\ goods' = Issued(goods, n, method)
  /\ owed' = owed + OutValue(goods, n, method)
  /\ sold' = sold + n
  /\ UNCHANGED <<method, books, order, receipt, asked>>

BookBought ==
  /\ owed > 0
  /\ books' = books - owed /\ owed' = 0
  /\ UNCHANGED <<goods, method, sold, order, receipt, asked>>

SetMethod(m) ==
  /\ m # method
  /\ method' = m
  /\ UNCHANGED <<goods, books, owed, sold, order, receipt, asked>>

OrderSteps == \/ \E n \in BuyQty : SetOrderLine(n)
              \/ SendOrder
              \/ \E reason \in BOOLEAN : CloseOrder(reason)
DraftSteps(r) == \/ AskReceipt(r) \/ OpenForOrder(r)
                 \/ \E linked \in BOOLEAN : OpenReceipt(r, linked)
                 \/ \E k \in Kinds, n \in 1..MaxBuy : AddLine(r, k, n)
                 \/ \E k \in Kinds, n \in 1..MaxBuy : SetLine(r, k, n)
                 \/ \E k \in Kinds : RemoveLine(r, k)
                 \/ AddCharge(r) \/ RemoveCharge(r) \/ CancelReceipt(r)
PostSteps(r) == \/ PostReceipt(r)
                \/ \E n \in [Kinds -> BuyQty] : ReturnGoods(r, n)
ShopSteps == \/ \E n \in 1..MaxSold : SellBought(n)
             \/ BookBought
             \/ \E m \in BuyMethods : SetMethod(m)

PurchasingNext ==
  \/ OrderSteps
  \/ \E r \in Receipts : DraftSteps(r) \/ PostSteps(r)
  \/ ShopSteps

PurchasingSpec == PurchasingInit /\ [][PurchasingNext]_pvars

-----------------------------------------------------------------------------
(* The inventory account is worth what the shelf is, plus the cost of sales   *)
(* the books do not have yet: no receipt, revaluation, return or sale writes  *)
(* one side and not the other, not to a rial (078:188, 062:822).             *)
BooksMatchGoods == books = goods.value + owed

(* However the pieces of a receipt line are sent back, they never exceed what  *)
(* came and the whole line carries away exactly its landed cost (062:799).   *)
ReturnsAddUp ==
  \A r \in Receipts, k \in Kinds :
    LET l == receipt[r].line[k]
    IN /\ l.returned <= l.qty
       /\ receipt[r].status = "posted" /\ l.qty > 0 /\ l.returned = l.qty
            => l.given = Landed(r, k)

(* What is on the shelf can be sold at the average or the last purchase: no    *)
(* purchase return or revaluation leaves a row whose next piece costs more     *)
(* than the row is worth, which the CHECK of stock_balance (001:371) would     *)
(* turn into a sale refused at the till.                                     *)
ShelfSells == method # "fifo" /\ goods.on > 0 => CanSell(1)

=============================================================================
