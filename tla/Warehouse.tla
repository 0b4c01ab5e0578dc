----------------------------- MODULE Warehouse ------------------------------
(***************************************************************************)
(* One variation on the shelves of two warehouses: transfers, stock counts,  *)
(* sales and goods taken back, with what the shelf really holds beside what  *)
(* inventory.stock_balance says, and the inventory account of the ledger.    *)
(*                                                                          *)
(* A posting locks its document and the stock rows and is one action.  An    *)
(* edit of a transfer looks at the sheet's status without a lock             *)
(* (TransferService.#requireDraft, trigger transfer_immutable), so what it    *)
(* saw and what it does are two actions.                                     *)
(***************************************************************************)
EXTENDS Costing

CONSTANTS
  Transfers, Counts, Sales,  \* inventory.transfer, inventory.stock_count, invoice lines
  Methods,    \* values of costing.method here
  Costs,      \* unit costs goods arrive at
  MaxQty,    \* bound: pieces on one document
  MaxArrived, \* bound: pieces that arrive
  MaxLost     \* bound: pieces that vanish from a shelf

ASSUME WarehouseConstants ==
  /\ Methods \subseteq CostingMethods /\ Costs \subseteq Nat
  /\ MaxQty \in Nat /\ MaxArrived \in Nat /\ MaxLost \in Nat

VARIABLES
  stock,     \* inventory.stock_balance and the cost layers, by warehouse
  lastIn,    \* unit cost of the last movement into each warehouse, 0 if none
  way,       \* platform.setting costing.method
  account,   \* ledger: balance of the inventory account
  unbooked,  \* cost of finalized invoices no posting batch has booked yet
  shelf,     \* pieces really there
  transfer,  \* inventory.transfer and its line
  edit,      \* an edit of a transfer that saw a draft and has not landed
  count,     \* inventory.stock_count and its line
  sale,      \* sales.invoice_line of finalized invoices
  arrived, lost   \* pieces so far

wvars == <<stock, lastIn, way, account, unbooked, shelf, transfer, edit, count,
           sale, arrived, lost>>
paper == <<transfer, edit, count, sale>>

Places == {"shop", "store"}
Opposite(p) == IF p = "shop" THEN "store" ELSE "shop"

TransferRecords == [status : {"none", "draft", "posted"}, from : Places, qty : Nat]
NoTransfer == [status |-> "none", from |-> "shop", qty |-> 0]
Edits == [t : Transfers, op : {"add", "set", "remove"}, qty : Nat]
NoEdit == [op |-> "none"]
CountRecords == [status : {"none", "draft", "posted", "cancelled"}, at : Places,
                 listed : BOOLEAN, counted : Nat,
                 still : BOOLEAN]   \* history: nothing moved there since it was counted
NoCount == [status |-> "none", at |-> "shop", listed |-> FALSE, counted |-> 0,
            still |-> FALSE]
SaleRecords == [qty : Nat, cogs : Nat, back : Nat, given : Nat, kept : BOOLEAN]
NoSale == [qty |-> 0, cogs |-> 0, back |-> 0, given |-> 0, kept |-> TRUE]

WarehouseTypeOK ==
  /\ stock \in [Places -> Balances]
  /\ lastIn \in [Places -> Nat]
  /\ way \in Methods
  /\ account \in Int
  /\ unbooked \in Nat
  /\ shelf \in [Places -> Nat]
  /\ transfer \in [Transfers -> TransferRecords]
  /\ edit \in Edits \cup {NoEdit}
  /\ count \in [Counts -> CountRecords]
  /\ sale \in [Sales -> SaleRecords]
  /\ arrived \in Nat /\ lost \in Nat

WarehouseInit ==
  /\ stock = [p \in Places |-> NoStock]
  /\ lastIn = [p \in Places |-> 0]
  /\ way \in Methods
  /\ account = 0 /\ unbooked = 0
  /\ shelf = [p \in Places |-> 0]
  /\ transfer = [t \in Transfers |-> NoTransfer]
  /\ edit = NoEdit
  /\ count = [c \in Counts |-> NoCount]
  /\ sale = [s \in Sales |-> NoSale]
  /\ arrived = 0 /\ lost = 0

-----------------------------------------------------------------------------
(* Goods come (a receipt is posted), go astray, or are sold and taken back.  *)

Disturbed(places) ==
  [c \in Counts |-> [count[c] EXCEPT !.still = @ /\ count[c].at \notin places]]

Arrive(p, n, cost) ==
  /\ arrived + n <= MaxArrived
  /\ arrived' = arrived + n
  /\ stock' = [stock EXCEPT ![p] = Entered(@, n, cost, n * cost)]
  /\ lastIn' = [lastIn EXCEPT ![p] = cost]
  /\ account' = account + n * cost
  /\ shelf' = [shelf EXCEPT ![p] = @ + n]
  /\ count' = Disturbed({p})
  /\ UNCHANGED <<way, unbooked, transfer, edit, sale, lost>>

Lose(p) ==
  /\ lost < MaxLost /\ shelf[p] > 0
  /\ lost' = lost + 1
  /\ shelf' = [shelf EXCEPT ![p] = @ - 1]
  /\ count' = Disturbed({p})
  /\ UNCHANGED <<stock, lastIn, way, account, unbooked, transfer, edit, sale, arrived>>

(* finalize_invoice: the goods leave and their cost stays on the line. *)
Sell(s, n) ==
  LET value == OutValue(stock["shop"], n, way)
      rest == Issued(stock["shop"], n, way)
  IN /\ sale[s].qty = 0
     /\ stock["shop"].on >= n /\ shelf["shop"] >= n /\ Lawful(rest)
     /\ stock' = [stock EXCEPT !["shop"] = rest]
     /\ unbooked' = unbooked + value
     /\ sale' = [sale EXCEPT ![s] = [NoSale EXCEPT !.qty = n, !.cogs = value]]
     /\ shelf' = [shelf EXCEPT !["shop"] = @ - n]
     /\ count' = Disturbed({"shop"})
     /\ UNCHANGED <<lastIn, way, account, transfer, edit, arrived, lost>>

BookSales ==
  /\ unbooked > 0
  /\ account' = account - unbooked /\ unbooked' = 0
  /\ UNCHANGED <<stock, lastIn, way, shelf, paper, arrived, lost>>

(* wrong: each part rounded alone *)
CostBackAlone(s, n) == RoundDiv(sale[s].cogs * n, sale[s].qty)
(* The cost that comes back with n more pieces: rounded cumulatively, so that *)
(* the parts of a line add up to the line.                                   *)
CostBack(s, n) == RoundDiv(sale[s].cogs * (sale[s].back + n), sale[s].qty)
                  - RoundDiv(sale[s].cogs * sale[s].back, sale[s].qty)

(* post_return: what is restocked goes to the shop's warehouse or, when       *)
(* defective, to another; what is not brings no cost back.                   *)
TakeBack(s, n, restock, p) ==
  LET part == CostBack(s, n)
  IN /\ sale[s].back + n <= sale[s].qty
     /\ sale' = [sale EXCEPT ![s].back = @ + n,
                             ![s].given = IF restock THEN @ + part ELSE @,
                             ![s].kept = @ /\ restock]
     /\ IF restock
        THEN /\ stock' = [stock EXCEPT ![p] = Entered(@, n, RoundDiv(part, n), part)]
             /\ lastIn' = [lastIn EXCEPT ![p] = RoundDiv(part, n)]
             /\ account' = account + part
             /\ shelf' = [shelf EXCEPT ![p] = @ + n]
             /\ count' = Disturbed({p})
        ELSE UNCHANGED <<stock, lastIn, account, shelf, count>>
     /\ UNCHANGED <<way, unbooked, transfer, edit, arrived, lost>>

SetWay(m) ==
  /\ m # way
  /\ way' = m
  /\ UNCHANGED <<stock, lastIn, account, unbooked, shelf, paper, arrived, lost>>

-----------------------------------------------------------------------------
(* Transfers.                                                               *)

OnPaper == UNCHANGED <<stock, lastIn, way, account, unbooked, shelf, sale, arrived, lost>>

CreateTransfer(t, p) ==
  /\ transfer[t].status = "none"
  /\ transfer' = [transfer EXCEPT ![t] = [status |-> "draft", from |-> p, qty |-> 0]]
  /\ OnPaper /\ UNCHANGED <<edit, count>>

(* addLine, setLineQty, removeLine see that the sheet is a draft.. *)
SeeDraft(e) ==
  /\ edit = NoEdit
  /\ transfer[e.t].status = "draft"
  /\ edit' = e
  /\ OnPaper /\ UNCHANGED <<transfer, count>>

(* ..and change the line, whatever the sheet is by then: the foreign key or   *)
(* the row lock only makes them wait for a posting under way.  A second scan  *)
(* adds; an edit of a line that is not there changes nothing.                *)
LineAfter(q, e) ==
  CASE e.op = "add" -> q + e.qty
    [] e.op = "set" -> IF q = 0 THEN 0 ELSE e.qty
    [] OTHER -> 0

EditLands ==
  /\ edit # NoEdit
  /\ edit' = NoEdit
  /\ transfer' = IF transfer[edit.t].status = "none" THEN transfer
                 ELSE [transfer EXCEPT ![edit.t].qty = LineAfter(@, edit)]
  /\ OnPaper /\ UNCHANGED count

(* The trigger of the header sees the row it deletes, so this is safe. *)
Discard(t) ==
  /\ transfer[t].status = "draft"
  /\ transfer' = [transfer EXCEPT ![t] = NoTransfer]
  /\ OnPaper /\ UNCHANGED <<edit, count>>

(* wrong: valued again at the rounded unit cost *)
LandingAtCost(b, n, cost, value) == Entered(b, n, cost, n * cost)
(* The goods enter the other warehouse at exactly the value they left with.  *)
Landing(b, n, cost, value) == Entered(b, n, cost, value)

PostTransfer(t) ==
  LET n == transfer[t].qty
      from == transfer[t].from
      to == Opposite(from)
      value == OutValue(stock[from], n, way)
      cost == RoundDiv(value, n)
      rest == Issued(stock[from], n, way)
  IN /\ transfer[t].status = "draft" /\ n > 0
     /\ stock[from].on >= n /\ shelf[from] >= n /\ Lawful(rest)
     /\ transfer' = [transfer EXCEPT ![t].status = "posted"]
     /\ stock' = [stock EXCEPT ![from] = rest, ![to] = Landing(@, n, cost, value)]
     /\ lastIn' = [lastIn EXCEPT ![to] = cost]
     /\ shelf' = [shelf EXCEPT ![from] = @ - n, ![to] = @ + n]
     /\ count' = Disturbed(Places)
     /\ UNCHANGED <<way, account, unbooked, edit, sale, arrived, lost>>

-----------------------------------------------------------------------------
(* Stock counts.                                                            *)

OpenCount(c, p) ==
  /\ count[c].status = "none"
  /\ count' = [count EXCEPT ![c] = [NoCount EXCEPT !.status = "draft", !.at = p]]
  /\ OnPaper /\ UNCHANGED <<transfer, edit>>

(* wrong: a second scan adds, as it does on a transfer *)
WrittenAdded(r, n) == [r EXCEPT !.listed = TRUE, !.counted = @ + n, !.still = TRUE]
(* setLine: the number just counted replaces what the line said. *)
Written(r, n) == [r EXCEPT !.listed = TRUE, !.counted = n, !.still = TRUE]

CountShelf(c) ==
  /\ count[c].status = "draft"
  /\ count' = [count EXCEPT ![c] = Written(@, shelf[count[c].at])]
  /\ OnPaper /\ UNCHANGED <<transfer, edit>>

Unlist(c) ==
  /\ count[c].status = "draft" /\ count[c].listed
  /\ count' = [count EXCEPT ![c] = [NoCount EXCEPT !.status = "draft", !.at = count[c].at]]
  /\ OnPaper /\ UNCHANGED <<transfer, edit>>

CancelCount(c) ==
  /\ count[c].status = "draft"
  /\ count' = [count EXCEPT ![c].status = "cancelled"]
  /\ OnPaper /\ UNCHANGED <<transfer, edit>>

(* A surplus enters at the average, or at the last rate in when the row is    *)
(* empty; a shortage leaves at whatever the costing method says.             *)
SurplusCost(p) == IF stock[p].on > 0 THEN RoundDiv(stock[p].value, stock[p].on)
                  ELSE lastIn[p]

Counted(p, n) ==
  IF n > stock[p].on
  THEN Entered(stock[p], n - stock[p].on, SurplusCost(p),
               (n - stock[p].on) * SurplusCost(p))
  ELSE IF n < stock[p].on THEN Issued(stock[p], stock[p].on - n, way)
  ELSE stock[p]

(* post_stock_count compares with the stock of this moment, not with that of  *)
(* the moment the line was written.                                         *)
PostCount(c) ==
  LET p == count[c].at
      new == Counted(p, count[c].counted)
  IN /\ count[c].status = "draft" /\ count[c].listed
     /\ Lawful(new)
     /\ stock' = [stock EXCEPT ![p] = new]
     /\ lastIn' = IF count[c].counted > stock[p].on
                  THEN [lastIn EXCEPT ![p] = SurplusCost(p)] ELSE lastIn
     /\ account' = account + new.value - stock[p].value
     /\ count' = [Disturbed({p}) EXCEPT ![c].status = "posted", ![c].still = FALSE]
     /\ UNCHANGED <<way, unbooked, shelf, transfer, edit, sale, arrived, lost>>

-----------------------------------------------------------------------------
GoodsMove ==
  \/ \E p \in Places, n \in 1..MaxQty, cost \in Costs : Arrive(p, n, cost)
  \/ \E p \in Places : Lose(p)
  \/ \E s \in Sales, n \in 1..MaxQty : Sell(s, n)
  \/ BookSales
  \/ \E s \in Sales, n \in 1..MaxQty, restock \in BOOLEAN, p \in Places :
       TakeBack(s, n, restock, p)
  \/ \E m \in Methods : SetWay(m)
TransferSteps(t) ==
  \/ \E p \in Places : CreateTransfer(t, p)
  \/ \E op \in {"add", "set", "remove"}, n \in 1..MaxQty :
       /\ transfer[t].qty + n <= MaxQty \/ op # "add"
       /\ op = "remove" => n = 1
       /\ SeeDraft([t |-> t, op |-> op, qty |-> n])
  \/ Discard(t) \/ PostTransfer(t)
CountSteps(c) ==
  \/ \E p \in Places : OpenCount(c, p)
  \/ CountShelf(c) \/ Unlist(c) \/ CancelCount(c) \/ PostCount(c)

WarehouseNext ==
  \/ GoodsMove
  \/ \E t \in Transfers : TransferSteps(t)
  \/ EditLands
  \/ \E c \in Counts : CountSteps(c)

WarehouseSpec == WarehouseInit /\ [][WarehouseNext]_wvars

-----------------------------------------------------------------------------
(* The inventory account is worth what both shelves are, plus the cost of     *)
(* sales not booked yet: a transfer moves value and neither makes nor loses   *)
(* a rial of it, a count and goods taken back write both sides (039:1000).   *)
AccountMatchesStock ==
  account = stock["shop"].value + stock["store"].value + unbooked

(* The layers of a warehouse hold as many units as the warehouse (064:156).  *)
LayersMatchStock == \A p \in Places : Len(stock[p].layers) = stock[p].on

(* However the pieces of a sold line come back, they never exceed what was    *)
(* sold, and when all came back to a shelf their cost did too (095:287).     *)
SoldComesBackWhole ==
  \A s \in Sales : /\ sale[s].back <= sale[s].qty
                   /\ sale[s].qty > 0 /\ sale[s].back = sale[s].qty /\ sale[s].kept
                        => sale[s].given = sale[s].cogs

(* A count posted before anything else moved in its warehouse leaves the      *)
(* system saying what the shelf holds, however often it was counted and       *)
(* whatever moved before (039:880, stock-count.ts:228).                      *)
CountSettles ==
  [][\A c \in Counts :
       count[c].still /\ count[c].status = "draft" /\ count'[c].status = "posted"
         => LET p == count[c].at IN stock'[p].on = shelf[p]]_wvars

=============================================================================
