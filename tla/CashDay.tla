------------------------------ MODULE CashDay -------------------------------
(***************************************************************************)
(* The cash drawers of one branch and the sales around them: shifts open and *)
(* close, POS invoices belong to a shift, Instagram invoices to none but put *)
(* their cash into whatever drawer is open; finalized invoices are booked by *)
(* the posting batch of their shift or of their day; goods come back for     *)
(* cash, against a debt or for credit.                                       *)
(*                                                                          *)
(* close_shift reads and writes in several statements and finalization waits  *)
(* for locks halfway, so these are two actions each; what a route reads       *)
(* before it opens its transaction is an action of its own.  A piece costs 1; *)
(* all payments are cash; the invoices of Known belong to one customer.       *)
(***************************************************************************)
EXTENDS Integers, FiniteSets, Functions

CONSTANTS
  Shifts, UserOf,      \* sales.cash_shift and the user of each
  Pos, Sites,          \* sales.invoice of channel pos, of channel instagram
  Known,               \* invoices with a customer
  None,                \* no shift, no batch, no invoice (NULL)
  Returns,             \* sales.sale_return
  Limit,               \* credit_limit of the customer
  MaxUnits,            \* bound: pieces on an invoice
  MaxCash,             \* bound: cash received for an invoice
  LastDay              \* bound: business days

Sold == Pos \cup Sites
Days == 1..LastDay
Batches == Shifts \cup Days

ASSUME CashDayConstants ==
  /\ IsFiniteSet(Shifts) /\ IsFiniteSet(Pos) /\ IsFiniteSet(Sites)
  /\ Pos \cap Sites = {} /\ Sold \cap Returns = {} /\ Shifts \cap Days = {}
  /\ None \notin Sold \cup Batches
  /\ Known \subseteq Sold
  /\ Limit \in Nat /\ MaxUnits \in Nat /\ MaxCash \in Nat /\ LastDay \in Nat \ {0}

VARIABLES
  shift,      \* sales.cash_shift.status; "closing" is close_shift under way
  counted,    \* what close_shift summed for expected_cash, document by document
  batch,      \* ledger.posting_batch.status
  booked,     \* invoices in the entry of a posted batch
  bill,       \* sales.invoice and its lines
  cash,       \* succeeded cash payments of an invoice, by drawer
  change,     \* change paid out when it was finalized
  ret,        \* sales.sale_return
  receivable, \* ledger: balance of the customer's receivable
  today       \* business date

dvars == <<shift, counted, batch, booked, bill, cash, change, ret, receivable, today>>
sales == <<bill, cash, change>>
ledger == <<batch, booked, receivable>>

Docs == Sold \cup Returns
BillRecords ==
  [status : {"none", "asked", "draft", "finalizing", "final", "cancelled"},
   shift : Shifts \cup {None}, batch : Batches \cup {None},
   due : Nat, back : Nat, refunded : Nat, settled : Nat, credit : Nat]
NoBill == [status |-> "none", shift |-> None, batch |-> None,
           due |-> 0, back |-> 0, refunded |-> 0, settled |-> 0, credit |-> 0]
RetRecords == [status : {"none", "asked", "posted", "late"}, of : Sold \cup {None},
               units : Nat, refund : Nat, drawer : Shifts \cup {None}]
NoRet == [status |-> "none", of |-> None, units |-> 0, refund |-> 0, drawer |-> None]

CashDayTypeOK ==
  /\ shift \in [Shifts -> {"none", "open", "closing", "closed"}]
  /\ counted \in [Shifts -> [Docs -> Int]]
  /\ batch \in [Batches -> {"none", "open", "posted"}]
  /\ booked \in [Batches -> SUBSET Sold]
  /\ bill \in [Sold -> BillRecords]
  /\ cash \in [Sold -> [Shifts -> Nat]]
  /\ change \in [Sold -> Nat]
  /\ ret \in [Returns -> RetRecords]
  /\ receivable \in Int
  /\ today \in Days

Nothing == [d \in Docs |-> 0]

CashDayInit ==
  /\ shift = [s \in Shifts |-> "none"]
  /\ counted = [s \in Shifts |-> Nothing]
  /\ batch = [b \in Batches |-> "none"]
  /\ booked = [b \in Batches |-> {}]
  /\ bill = [i \in Sold |-> NoBill]
  /\ cash = [i \in Sold |-> [s \in Shifts |-> 0]]
  /\ change = [i \in Sold |-> 0]
  /\ ret = [r \in Returns |-> NoRet]
  /\ receivable = 0
  /\ today = 1

-----------------------------------------------------------------------------
(* Money.                                                                   *)

Received(i) == SumFunctionOnSet(cash[i], Shifts) - change[i]
Unfinished(i) == bill[i].status \in {"draft", "finalizing"}
Over(a, b) == IF a > b THEN a - b ELSE 0

(* treasury.payment rows of kind cash whose shift_id is s: change leaves the  *)
(* drawer of the invoice's shift, a refund the drawer named by the return.   *)
SaleCash(i, s) == cash[i][s] - (IF bill[i].shift = s THEN change[i] ELSE 0)
ReturnCash(r, s) == IF ret[r].status \in {"posted", "late"} /\ ret[r].drawer = s
                    THEN -ret[r].refund ELSE 0
DrawerCash(s) == [d \in Docs |-> IF d \in Sold THEN SaleCash(d, s) ELSE ReturnCash(d, s)]

-----------------------------------------------------------------------------
(* Shifts.                                                                  *)

(* One open shift per user and branch (uq_open_shift). *)
OpenShift(s) ==
  /\ shift[s] = "none"
  /\ \A t \in Shifts : UserOf[t] = UserOf[s] => shift[t] \notin {"open", "closing"}
  /\ shift' = [shift EXCEPT ![s] = "open"]
  /\ UNCHANGED <<counted, ledger, sales, ret, today>>

(* close_shift: the shift is locked, its unfinished invoices refuse it, then   *)
(* the cash is summed.                                                      *)
CloseSums(s) ==
  /\ shift[s] = "open"
  /\ \A i \in Pos : bill[i].shift = s => ~Unfinished(i)
  /\ shift' = [shift EXCEPT ![s] = "closing"]
  /\ counted' = [counted EXCEPT ![s] = DrawerCash(s)]
  /\ UNCHANGED <<ledger, sales, ret, today>>

HoldsDraftCash(s) == \E i \in Sold : Unfinished(i) /\ cash[i][s] > 0

(* post_batch: what is in the batch by now is booked; for the customer, what  *)
(* was not received in cash.                                                *)
InBatch(b) == {i \in Sold : bill[i].status = "final" /\ bill[i].batch = b}
Credit(i) == bill[i].due - Received(i)
PostBatch(b) ==
  /\ batch' = [batch EXCEPT ![b] = "posted"]
  /\ booked' = [booked EXCEPT ![b] = InBatch(b)]
  /\ receivable' = receivable + SumFunctionOnSet([i \in Sold |-> Credit(i)], InBatch(b) \cap Known)

(* The row is updated last; the trigger cash_shift_open_draft_cash_guard      *)
(* looks for unfinished invoices of any channel with cash in this drawer.    *)
CloseEnds(s) ==
  /\ shift[s] = "closing" /\ ~HoldsDraftCash(s)
  /\ shift' = [shift EXCEPT ![s] = "closed"]
  /\ PostBatch(s)
  /\ UNCHANGED <<counted, sales, ret, today>>

CloseRefused(s) ==
  /\ shift[s] = "closing" /\ HoldsDraftCash(s)
  /\ shift' = [shift EXCEPT ![s] = "open"]
  /\ counted' = [counted EXCEPT ![s] = Nothing]
  /\ UNCHANGED <<ledger, sales, ret, today>>

-----------------------------------------------------------------------------
(* Invoices.                                                                *)

SaleStep == UNCHANGED <<shift, counted, ledger, ret, today>>

(* POST /invoices finds the open shift before its transaction (a closing one   *)
(* still reads as open)..                                                   *)
AskDraft(i, s) ==
  /\ i \in Pos /\ bill[i].status = "none"
  /\ shift[s] \in {"open", "closing"}
  /\ bill' = [bill EXCEPT ![i].status = "asked", ![i].shift = s]
  /\ SaleStep /\ UNCHANGED <<cash, change>>

(* ..and inserts the draft, waiting for a closing shift but not looking at it. *)
InsertDraft(i) ==
  /\ \/ /\ bill[i].status = "asked"
        /\ shift[bill[i].shift] # "closing"
     \/ i \in Sites /\ bill[i].status = "none"
  /\ bill' = [bill EXCEPT ![i].status = "draft"]
  /\ SaleStep /\ UNCHANGED <<cash, change>>

(* assertInvoiceInScope: a POS draft is worked on only in its open shift. *)
InScope(i) == bill[i].status = "draft"
              /\ (i \in Pos => shift[bill[i].shift] = "open")

(* Lines come, go and change in number, paid or not. *)
EditLines(i, n) ==
  /\ InScope(i) /\ n # bill[i].due
  /\ bill' = [bill EXCEPT ![i].due = n]
  /\ SaleStep /\ UNCHANGED <<cash, change>>

(* addPaymentIn; the cash of an Instagram sale needs a drawer that is still    *)
(* open under lock and is never more than what is due.                       *)
(* wrong: the drawer is taken as the route saw it *)
CanPayUnlocked(i, s, n) ==
  IF i \in Pos THEN bill[i].shift = s
  ELSE shift[s] \in {"open", "closing"} /\ n <= Over(bill[i].due, Received(i))
CanPay(i, s, n) ==
  IF i \in Pos THEN bill[i].shift = s
  ELSE shift[s] = "open" /\ n <= Over(bill[i].due, Received(i))

Pay(i, s, n) ==
  /\ InScope(i) /\ CanPay(i, s, n)
  /\ Received(i) + n <= MaxCash
  /\ cash' = [cash EXCEPT ![i][s] = @ + n]
  /\ SaleStep /\ UNCHANGED <<bill, change>>

(* finalize: the invoice is locked, refused when it needs more money than it   *)
(* may owe, and holds a share lock on its batch until it commits.            *)
BatchOf(i) == IF i \in Pos THEN bill[i].shift ELSE today

FinalizeBegins(i) ==
  /\ InScope(i) /\ bill[i].due > 0
  /\ Received(i) < bill[i].due => i \in Pos \cap Known
  /\ batch[BatchOf(i)] # "posted"
  /\ bill' = [bill EXCEPT ![i].status = "finalizing", ![i].batch = BatchOf(i)]
  /\ SaleStep /\ UNCHANGED <<cash, change>>

(* What the customer owes already: the ledger and the sales it does not have   *)
(* yet; read under the customer's lock.                                     *)
Unbooked == {i \in Known : bill[i].status = "final" /\ batch[bill[i].batch] # "posted"}
(* wrong: the sales of open batches are forgotten *)
OwesBooked == Over(receivable, 0)
Owes == Over(receivable + SumFunctionOnSet([i \in Sold |-> Over(Credit(i), 0)], Unbooked), 0)

FinalizeCommits(i) ==
  /\ bill[i].status = "finalizing"
  /\ Credit(i) > 0 => Owes + Credit(i) <= Limit
  /\ bill' = [bill EXCEPT ![i].status = "final"]
  /\ change' = [change EXCEPT ![i] = Over(Received(i), bill[i].due)]
  /\ batch' = [batch EXCEPT ![bill[i].batch] = "open"]
  /\ UNCHANGED <<shift, counted, booked, receivable, cash, ret, today>>

FinalizeFails(i) ==
  /\ bill[i].status = "finalizing"
  /\ bill' = [bill EXCEPT ![i].status = "draft", ![i].batch = None]
  /\ SaleStep /\ UNCHANGED <<cash, change>>

CancelDraft(i) ==
  /\ bill[i].status = "draft" /\ Received(i) = 0
  /\ bill' = [bill EXCEPT ![i].status = "cancelled"]
  /\ SaleStep /\ UNCHANGED <<cash, change>>

(* refundDraftIn locks the shift of a POS draft; that of an Instagram draft's  *)
(* cash it does not look at.                                                *)
RefundDraft(i) ==
  /\ bill[i].status = "draft" /\ Received(i) > 0
  /\ i \in Pos => shift[bill[i].shift] = "open"
  /\ bill' = [bill EXCEPT ![i].status = "cancelled"]
  /\ cash' = [cash EXCEPT ![i] = [s \in Shifts |-> 0]]
  /\ SaleStep /\ UNCHANGED change

-----------------------------------------------------------------------------
(* Days.                                                                    *)

NextDay ==
  /\ today < LastDay
  /\ today' = today + 1
  /\ UNCHANGED <<shift, counted, ledger, sales, ret>>

(* wrong: the batch is posted without waiting for finalizations that hold it *)
DayIsFreeUnlocked(d) == batch[d] = "open"
(* Closing a channel day, by hand or when due, waits for the finalizations     *)
(* that hold its batch.                                                     *)
DayIsFree(d) == /\ batch[d] = "open"
                /\ \A i \in Sold : bill[i].status = "finalizing" => bill[i].batch # d

CloseDay(d) ==
  /\ DayIsFree(d)
  /\ PostBatch(d)
  /\ UNCHANGED <<shift, counted, sales, ret, today>>

-----------------------------------------------------------------------------
(* Returns.                                                                 *)

(* returnGate and createDraftIn: cash needs a drawer that is open when asked.. *)
AskReturn(r, i, n, refund, s) ==
  /\ ret[r].status = "none"
  /\ bill[i].status = "final" /\ bill[i].back < bill[i].due
  /\ IF refund > 0 THEN s \in Shifts /\ shift[s] \in {"open", "closing"} ELSE s = None
  /\ ret' = [ret EXCEPT ![r] = [status |-> "asked", of |-> i, units |-> n,
                                refund |-> refund, drawer |-> s]]
  /\ UNCHANGED <<shift, counted, ledger, sales, today>>

(* wrong: money given back before is not owed again *)
DebtForgetful(i) == Over(bill[i].due, bill[i].back + Received(i))
(* What is still owed for the invoice: v_outstanding of post_return. *)
Debt(i) == Over(bill[i].due + bill[i].refunded, bill[i].back + Received(i))
Settles(i, worth) == IF worth < Debt(i) THEN worth ELSE Debt(i)

(* ..post_return, in a transaction of its own, does not look at the drawer.    *)
PostReturn(r) ==
  LET i == ret[r].of
      n == ret[r].units
      refund == ret[r].refund
      settled == Settles(i, n - refund)
      credit == n - refund - settled
  IN /\ ret[r].status = "asked"
     /\ bill[i].status = "final" /\ bill[i].back + n <= bill[i].due
     /\ refund <= n /\ refund <= Received(i) - bill[i].refunded
     /\ credit > 0 => i \in Known
     /\ refund > 0 => shift[ret[r].drawer] # "closing"
     /\ ret' = [ret EXCEPT ![r].status =
                  IF refund > 0 /\ shift[ret[r].drawer] = "closed" THEN "late" ELSE "posted"]
     /\ bill' = [bill EXCEPT ![i].back = @ + n, ![i].refunded = @ + refund,
                             ![i].settled = @ + settled, ![i].credit = @ + credit]
     /\ receivable' = receivable - settled
     /\ UNCHANGED <<shift, counted, batch, booked, cash, change, today>>

-----------------------------------------------------------------------------
ShiftSteps(s) == OpenShift(s) \/ CloseSums(s) \/ CloseEnds(s) \/ CloseRefused(s)
BillSteps(i) == \/ \E s \in Shifts : AskDraft(i, s)
                \/ InsertDraft(i)
                \/ \E n \in 0..MaxUnits : EditLines(i, n)
                \/ \E s \in Shifts, n \in 1..MaxCash : Pay(i, s, n)
                \/ FinalizeBegins(i) \/ FinalizeCommits(i) \/ FinalizeFails(i)
                \/ CancelDraft(i) \/ RefundDraft(i)
ReturnSteps(r) ==
  \/ \E i \in Sold, n \in 1..MaxUnits, refund \in 0..MaxUnits, s \in Shifts \cup {None} :
       AskReturn(r, i, n, refund, s)
  \/ PostReturn(r)

CashDayNext ==
  \/ \E s \in Shifts : ShiftSteps(s)
  \/ \E i \in Sold : BillSteps(i)
  \/ \E r \in Returns : ReturnSteps(r)
  \/ \E d \in Days : CloseDay(d)
  \/ NextDay

CashDaySpec == CashDayInit /\ [][CashDayNext]_dvars

-----------------------------------------------------------------------------
(* The entry of a posted batch has every invoice finalized into it and no       *)
(* other, however closing and finalization overlap, and a closed shift leaves *)
(* none of its invoices unbooked (082:56-65, 085:553).                      *)
BatchBooksItsSales ==
  /\ \A b \in Batches : booked[b] = IF batch[b] = "posted" THEN InBatch(b) ELSE {}
  /\ \A s \in Shifts : shift[s] = "closed" => batch[s] = "posted"

(* The expected cash of a closed shift has the cash and the change of every     *)
(* finalized sale of its drawer, Instagram sales too, and every refund posted *)
(* before it closed; and no cash of an unfinished sale lies in it (106:12,    *)
(* 106:17).                                                                 *)
DrawerCountsSales ==
  \A s \in Shifts : shift[s] = "closed" =>
    /\ \A i \in Sold : /\ bill[i].status = "final" => counted[s][i] = SaleCash(i, s)
                       /\ Unfinished(i) => cash[i][s] = 0
    /\ \A r \in Returns : ret[r].status = "posted" => counted[s][r] = ReturnCash(r, s)

(* When everything sold on an invoice came back, in however many returns with   *)
(* whatever refunds, nothing is owed for it any more and what was received    *)
(* was either refunded or credited (095:354-370).                            *)
ReturnSettles ==
  \A i \in Sold : bill[i].status = "final" /\ bill[i].back = bill[i].due =>
    /\ Credit(i) = bill[i].settled
    /\ Received(i) = bill[i].refunded + bill[i].credit

(* What the customer owes for finalized sales, booked or not, less what returns *)
(* settled, is never more than the credit limit (096:94-106).                *)
CreditWithinLimit ==
  SumFunctionOnSet([i \in Sold |-> Credit(i) - bill[i].settled],
                   {i \in Known : bill[i].status = "final"}) <= Limit

(* 106:14-17: the cash an Instagram sale takes is never more than what is due,  *)
(* so that no change leaves a drawer without being counted in it: the drawers *)
(* together say of a finalized sale what it received.                        *)
SaleCashHasDrawer ==
  \A i \in Sold : bill[i].status = "final" =>
    SumFunctionOnSet([s \in Shifts |-> SaleCash(i, s)], Shifts) = Received(i)

=============================================================================
