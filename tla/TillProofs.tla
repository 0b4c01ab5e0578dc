----------------------------- MODULE TillProofs -----------------------------
(* Proofs about CashDay for any shifts, invoices, returns, days and amounts,  *)
(* and about Treasury for any cheques, keys and number of crashes.           *)
(* What a batch books and what a drawer counts is compared invoice by         *)
(* invoice; what a customer owes is a sum over his invoices, and the ledger   *)
(* with the sales it does not have yet is that sum.                         *)
EXTENDS CashDay, Treasury, Sums, TLAPS

USE DEF dvars, sales, ledger, Sold, Batches, Docs

(* The types without the sums of money: an invoice is a record whose status,  *)
(* shift and batch have theirs.                                             *)
Fields == {"status", "shift", "batch", "due", "back", "refunded", "settled", "credit"}
IsBill(r) ==
  /\ DOMAIN r = Fields /\ r = [f \in Fields |-> r[f]]
  /\ r.status \in {"none", "asked", "draft", "finalizing", "final", "cancelled"}
  /\ r.shift \in Shifts \cup {None}
  /\ r.batch \in Batches \cup {None}

Shapes ==
  /\ shift \in [Shifts -> {"none", "open", "closing", "closed"}]
  /\ DOMAIN counted = Shifts /\ counted = [s \in Shifts |-> counted[s]]
  /\ batch \in [Batches -> {"none", "open", "posted"}]
  /\ DOMAIN booked = Batches /\ booked = [b \in Batches |-> booked[b]]
  /\ DOMAIN bill = Sold /\ bill = [i \in Sold |-> bill[i]]
  /\ \A i \in Sold : IsBill(bill[i])
  /\ cash \in [Sold -> [Shifts -> Nat]]
  /\ DOMAIN change = Sold /\ change = [i \in Sold |-> change[i]]
  /\ ret \in [Returns -> RetRecords]
  /\ today \in Days

(* An Instagram sale has no shift; a POS sale beyond none has one, and takes   *)
(* its cash there.                                                          *)
OwnShift ==
  /\ \A i \in Sites : bill[i].shift = None
  /\ \A i \in Pos : /\ bill[i].status # "none" => bill[i].shift \in Shifts
                    /\ \A s \in Shifts : cash[i][s] # 0 => bill[i].shift = s

(* A sale that is not begun has no cash, one that is not final no change.     *)
Fresh ==
  \A i \in Sold :
    /\ bill[i].status \in {"none", "asked"} => \A s \in Shifts : cash[i][s] = 0
    /\ bill[i].status # "final" => change[i] = 0

(* While its drawer is being closed no POS sale of it is at work. *)
Quiet ==
  \A s \in Shifts, i \in Pos :
    shift[s] = "closing" /\ bill[i].shift = s => ~Unfinished(i)

(* A finalization under way holds a batch that is not posted; that of a POS    *)
(* sale is the one of its shift, that of an Instagram sale one of a day.      *)
Held ==
  \A i \in Sold : bill[i].status = "finalizing" =>
    /\ bill[i].batch \in Batches /\ batch[bill[i].batch] # "posted"
    /\ IF i \in Pos THEN bill[i].batch = bill[i].shift ELSE bill[i].batch \in Days

(* A return is of an invoice, and names a drawer if money is given back.      *)
Refunds == \A r \in Returns : /\ ret[r].status # "none" => ret[r].of \in Sold
                              /\ IF ret[r].refund > 0 THEN ret[r].drawer \in Shifts
                                 ELSE ret[r].drawer = None

(* What was summed for a drawer stays true of every document it may still be   *)
(* asked about, from the sum on.                                            *)
SumsHold ==
  \A s \in Shifts : shift[s] \in {"closing", "closed"} =>
    /\ \A i \in Sold : bill[i].status # "cancelled" => counted[s][i] = SaleCash(i, s)
    /\ \A r \in Returns : ret[r].status # "late" => counted[s][r] = ReturnCash(r, s)
NoLooseCash ==
  \A s \in Shifts, i \in Sold : shift[s] = "closed" /\ Unfinished(i) => cash[i][s] = 0

DInv == /\ Shapes /\ OwnShift /\ Fresh /\ Quiet /\ Held /\ Refunds
        /\ BatchBooksItsSales /\ SumsHold /\ NoLooseCash

-----------------------------------------------------------------------------
(* What an action does to the one invoice it changes.                       *)

BillStatuses == {"none", "asked", "draft", "finalizing", "final", "cancelled"}

(* Invoice i becomes one with this status, shift and batch; the others stay.  *)
Turns(i, st, sh, ba) ==
  /\ DOMAIN bill' = Sold /\ bill' = [j \in Sold |-> bill'[j]]
  /\ \A j \in Sold : IsBill(bill'[j])
  /\ bill'[i].status = st /\ bill'[i].shift = sh /\ bill'[i].batch = ba
  /\ \A j \in Sold \ {i} : bill'[j] = bill[j]

LEMMA TurnsTo ==
  ASSUME Shapes, NEW i \in Sold, NEW r, IsBill(r), bill' = [bill EXCEPT ![i] = r]
  PROVE  Turns(i, r.status, r.shift, r.batch)
BY DEF Shapes, Turns

LEMMA StatusTurns ==
  ASSUME Shapes, NEW i \in Sold, NEW st \in BillStatuses, bill' = [bill EXCEPT ![i].status = st]
  PROVE  Turns(i, st, bill[i].shift, bill[i].batch)
<1> DEFINE n == [bill[i] EXCEPT !.status = st]
<1>0. IsBill(bill[i])
  BY DEF Shapes
<1>1. IsBill(n) /\ n.status = st /\ n.shift = bill[i].shift /\ n.batch = bill[i].batch
  BY <1>0 DEF IsBill, Fields, BillStatuses
<1>2. bill' = [bill EXCEPT ![i] = n]
  OBVIOUS
<1> HIDE DEF n
<1> QED
  BY <1>1, <1>2, TurnsTo

LEMMA ShiftTurns ==
  ASSUME Shapes, NEW i \in Sold, NEW st \in BillStatuses, NEW s \in Shifts,
         bill' = [bill EXCEPT ![i].status = st, ![i].shift = s]
  PROVE  Turns(i, st, s, bill[i].batch)
<1> DEFINE n == [bill[i] EXCEPT !.status = st, !.shift = s]
<1>0. IsBill(bill[i])
  BY DEF Shapes
<1>1. IsBill(n) /\ n.status = st /\ n.shift = s /\ n.batch = bill[i].batch
  BY <1>0 DEF IsBill, Fields, BillStatuses
<1>2. bill' = [bill EXCEPT ![i] = n]
  BY DEF Shapes, IsBill, Fields
<1> HIDE DEF n
<1> QED
  BY <1>1, <1>2, TurnsTo

LEMMA BatchTurns ==
  ASSUME Shapes, NEW i \in Sold, NEW st \in BillStatuses, NEW b \in Batches \cup {None},
         bill' = [bill EXCEPT ![i].status = st, ![i].batch = b]
  PROVE  Turns(i, st, bill[i].shift, b)
<1> DEFINE n == [bill[i] EXCEPT !.status = st, !.batch = b]
<1>0. IsBill(bill[i])
  BY DEF Shapes
<1>1. IsBill(n) /\ n.status = st /\ n.shift = bill[i].shift /\ n.batch = b
  BY <1>0 DEF IsBill, Fields, BillStatuses
<1>2. bill' = [bill EXCEPT ![i] = n]
  BY DEF Shapes, IsBill, Fields
<1> HIDE DEF n
<1> QED
  BY <1>1, <1>2, TurnsTo

LEMMA DueTurns ==
  ASSUME Shapes, NEW i \in Sold, NEW v, bill' = [bill EXCEPT ![i].due = v]
  PROVE  Turns(i, bill[i].status, bill[i].shift, bill[i].batch)
<1> DEFINE n == [bill[i] EXCEPT !.due = v]
<1>0. IsBill(bill[i])
  BY DEF Shapes
<1>1. /\ IsBill(n) /\ n.status = bill[i].status
      /\ n.shift = bill[i].shift /\ n.batch = bill[i].batch
  BY <1>0 DEF IsBill, Fields, BillStatuses
<1>2. bill' = [bill EXCEPT ![i] = n]
  OBVIOUS
<1> HIDE DEF n
<1> QED
  BY <1>1, <1>2, TurnsTo

LEMMA BackTurns ==
  ASSUME Shapes, NEW i \in Sold, NEW v, NEW w, NEW x, NEW y,
         bill' = [bill EXCEPT ![i].back = @ + v, ![i].refunded = @ + w,
                              ![i].settled = @ + x, ![i].credit = @ + y]
  PROVE  Turns(i, bill[i].status, bill[i].shift, bill[i].batch)
<1> DEFINE n == [bill[i] EXCEPT !.back = @ + v, !.refunded = @ + w,
                                !.settled = @ + x, !.credit = @ + y]
<1>0. IsBill(bill[i])
  BY DEF Shapes
<1>1. /\ IsBill(n) /\ n.status = bill[i].status
      /\ n.shift = bill[i].shift /\ n.batch = bill[i].batch
  BY <1>0 DEF IsBill, Fields, BillStatuses
<1>2. bill' = [bill EXCEPT ![i] = n]
  BY DEF Shapes, IsBill, Fields
<1> HIDE DEF n
<1> QED
  BY <1>1, <1>2, TurnsTo

-----------------------------------------------------------------------------
(* The steps of a sale that is not final yet keep the invariant for one and    *)
(* the same reason: what may be counted already they leave alone.            *)

(* Sale i, not final, becomes another that is not, with cash that moves only   *)
(* through its own open drawer or with the cancellation.                     *)
Works(i, st, sh, ba) ==
  /\ Turns(i, st, sh, ba) /\ SaleStep /\ change' = change
  /\ bill[i].status \in {"none", "asked", "draft", "finalizing"}
  /\ st \in {"asked", "draft", "finalizing", "cancelled"}
  /\ IF i \in Pos THEN sh \in Shifts /\ (bill[i].status # "none" => sh = bill[i].shift)
                  ELSE sh = None
  /\ st \in {"draft", "finalizing"} /\ i \in Pos => shift[sh] # "closing"
  /\ st = "asked" => bill[i].status = "none"
  /\ st = "finalizing" => /\ ba \in Batches /\ batch[ba] # "posted"
                          /\ IF i \in Pos THEN ba = sh ELSE ba \in Days
  /\ cash' \in [Sold -> [Shifts -> Nat]]
  /\ \A j \in Sold \ {i} : cash'[j] = cash[j]
  /\ \/ cash'[i] = cash[i]
     \/ st = "cancelled" /\ \A s \in Shifts : cash'[i][s] = 0
     \/ /\ st = "draft"
        /\ \A s \in Shifts : cash'[i][s] # cash[i][s] =>
             shift[s] = "open" /\ (i \in Pos => s = sh)

LEMMA BatchesStay ==
  ASSUME Shapes, BatchBooksItsSales, NEW i \in Sold, NEW st, NEW sh, NEW ba,
         Turns(i, st, sh, ba), UNCHANGED <<shift, batch, booked>>,
         st = "final" <=> bill[i].status = "final",
         st = "final" => ba = bill[i].batch
  PROVE  BatchBooksItsSales'
<1>1. \A j \in Sold : /\ bill'[j].status = "final" <=> bill[j].status = "final"
                      /\ bill[j].status = "final" => bill'[j].batch = bill[j].batch
  BY DEF Turns
<1>2. \A b \in Batches : InBatch(b)' = InBatch(b)
  BY <1>1 DEF InBatch
<1> QED
  BY <1>2 DEF BatchBooksItsSales

LEMMA WorkKeeps ==
  ASSUME DInv, NEW i \in Sold, NEW st, NEW sh, NEW ba, Works(i, st, sh, ba)
  PROVE  DInv'
<1> USE DEF DInv
<1>0. Turns(i, st, sh, ba)
  BY DEF Works
<1>1. Shapes'
  BY <1>0 DEF Works, Turns, SaleStep, Shapes
<1>2. OwnShift'
  <2>1. /\ bill'[i].shift = sh
        /\ \A j \in Sold \ {i} : bill'[j] = bill[j] /\ cash'[j] = cash[j]
    BY <1>0 DEF Works, Turns
  <2>2. ASSUME NEW j \in Sites PROVE bill'[j].shift = None
    BY <2>1, CashDayConstants DEF Works, OwnShift
  <2>3. ASSUME NEW j \in Pos
        PROVE  /\ bill'[j].status # "none" => bill'[j].shift \in Shifts
               /\ \A s \in Shifts : cash'[j][s] # 0 => bill'[j].shift = s
    <3>1. CASE j # i
      BY <2>1, <3>1 DEF OwnShift
    <3>2. CASE j = i
      <4>1. sh \in Shifts /\ (bill[i].status # "none" => sh = bill[i].shift)
        BY <3>2 DEF Works
      <4>2. \A s \in Shifts : cash[i][s] # 0 => sh = s
        BY <3>2, <4>1 DEF OwnShift, Fresh
      <4>3. \A s \in Shifts : cash'[i][s] # 0 => sh = s
        BY <3>2, <4>2 DEF Works
      <4> QED
        BY <2>1, <3>2, <4>1, <4>3
    <3> QED
      BY <3>1, <3>2
  <2> QED
    BY <2>2, <2>3 DEF OwnShift
<1>3. Fresh'
  <2>1. ASSUME NEW j \in Sold
        PROVE  /\ bill'[j].status \in {"none", "asked"} => \A s \in Shifts : cash'[j][s] = 0
               /\ bill'[j].status # "final" => change'[j] = 0
    <3>1. CASE j # i
      BY <1>0, <3>1 DEF Works, Turns, Fresh
    <3>2. CASE j = i
      <4>1. bill'[i].status = st /\ change'[i] = 0
        BY <1>0 DEF Works, Turns, Fresh
      <4>2. st = "asked" => cash'[i] = cash[i] /\ \A s \in Shifts : cash[i][s] = 0
        BY DEF Works, Fresh
      <4>3. st # "none"
        BY DEF Works
      <4> QED
        BY <3>2, <4>1, <4>2, <4>3
    <3> QED
      BY <3>1, <3>2
  <2> QED
    BY <2>1 DEF Fresh
<1>4. Quiet'
  <2>1. ASSUME NEW s \in Shifts, NEW j \in Pos, shift[s] = "closing", bill'[j].shift = s
        PROVE  bill'[j].status \notin {"draft", "finalizing"}
    <3>1. CASE j # i
      BY <1>0, <2>1, <3>1 DEF Turns, Quiet, Unfinished
    <3>2. CASE j = i
      BY <1>0, <2>1, <3>2 DEF Turns, Works
    <3> QED
      BY <3>1, <3>2
  <2> QED
    BY <2>1 DEF Works, SaleStep, Quiet, Unfinished
<1>5. Held'
  BY <1>0 DEF Works, Turns, SaleStep, Held
<1>6. Refunds'
  BY DEF Works, SaleStep, Refunds
<1>7. BatchBooksItsSales'
  BY <1>0, BatchesStay DEF Works, SaleStep
<1>8. SumsHold'
  <2>1. ASSUME NEW s \in Shifts, shift[s] \in {"closing", "closed"}, NEW j \in Sold,
               bill'[j].status # "cancelled"
        PROVE  counted[s][j] = SaleCash(j, s)'
    <3>1. CASE j # i
      BY <1>0, <2>1, <3>1 DEF Works, Turns, SumsHold, SaleCash
    <3>2. CASE j = i
      <4>1. cash'[i][s] = cash[i][s] /\ cash[i][s] \in Nat
        BY <1>0, <2>1, <3>2 DEF Works, Turns, Shapes
      <4>2. counted[s][i] = cash[i][s]
        BY <2>1, <4>1 DEF Works, SumsHold, SaleCash, Fresh
      <4>3. change'[i] = 0
        BY DEF Works, Fresh
      <4> QED
        BY <3>2, <4>1, <4>2, <4>3 DEF SaleCash
    <3> QED
      BY <3>1, <3>2
  <2>2. \A s \in Shifts, r \in Returns : ReturnCash(r, s)' = ReturnCash(r, s)
    BY DEF Works, SaleStep, ReturnCash
  <2> QED
    BY <2>1, <2>2 DEF Works, SaleStep, SumsHold
<1>9. NoLooseCash'
  <2>1. ASSUME NEW s \in Shifts, NEW j \in Sold, shift[s] = "closed", Unfinished(j)'
        PROVE  cash'[j][s] = 0
    <3>1. CASE j # i
      BY <1>0, <2>1, <3>1 DEF Works, Turns, NoLooseCash, Unfinished
    <3>2. CASE j = i
      <4>1. cash'[i][s] = cash[i][s]
        BY <1>0, <2>1, <3>2 DEF Works, Turns, Shapes, Unfinished
      <4> QED
        BY <2>1, <3>2, <4>1 DEF Works, Fresh, NoLooseCash, Unfinished
    <3> QED
      BY <3>1, <3>2
  <2> QED
    BY <2>1 DEF Works, SaleStep, NoLooseCash
<1> QED
  BY <1>1, <1>2, <1>3, <1>4, <1>5, <1>6, <1>7, <1>8, <1>9

LEMMA SaleWorks ==
  ASSUME DInv, NEW i \in Sold,
         \/ \E s \in Shifts : AskDraft(i, s)
         \/ InsertDraft(i)
         \/ \E n \in 0..MaxUnits : EditLines(i, n)
         \/ \E s \in Shifts, n \in 1..MaxCash : Pay(i, s, n)
         \/ FinalizeBegins(i) \/ FinalizeFails(i) \/ CancelDraft(i) \/ RefundDraft(i)
  PROVE  DInv'
<1> USE DEF DInv
<1>0. /\ i \in Pos <=> i \notin Sites
      /\ bill[i].status # "none" /\ i \in Pos => bill[i].shift \in Shifts
      /\ i \in Sites => bill[i].shift = None
      /\ cash \in [Sold -> [Shifts -> Nat]]
  BY CashDayConstants DEF OwnShift, Shapes
<1>1. ASSUME NEW s \in Shifts, AskDraft(i, s)
      PROVE  DInv'
  <2>1. Turns(i, "asked", s, bill[i].batch)
    BY <1>1, ShiftTurns DEF AskDraft, BillStatuses
  <2>2. Works(i, "asked", s, bill[i].batch)
    BY <1>0, <1>1, <2>1 DEF Works, AskDraft
  <2> QED
    BY <2>2, WorkKeeps
<1>2. ASSUME InsertDraft(i)
      PROVE  DInv'
  <2>1. Turns(i, "draft", bill[i].shift, bill[i].batch)
    BY <1>2, StatusTurns DEF InsertDraft, BillStatuses
  <2>2. Works(i, "draft", bill[i].shift, bill[i].batch)
    BY <1>0, <1>2, <2>1 DEF Works, InsertDraft
  <2> QED
    BY <2>2, WorkKeeps
<1>3. ASSUME NEW n \in 0..MaxUnits, EditLines(i, n)
      PROVE  DInv'
  <2>1. Turns(i, bill[i].status, bill[i].shift, bill[i].batch)
    BY <1>3, DueTurns DEF EditLines
  <2>2. Works(i, "draft", bill[i].shift, bill[i].batch)
    BY <1>0, <1>3, <2>1 DEF Works, EditLines, InScope
  <2> QED
    BY <2>2, WorkKeeps
<1>4. ASSUME NEW s \in Shifts, NEW n \in 1..MaxCash, Pay(i, s, n)
      PROVE  DInv'
  <2>1. Turns(i, "draft", bill[i].shift, bill[i].batch)
    BY <1>4 DEF Pay, SaleStep, InScope, Turns, Shapes
  <2>2. n \in Nat
    BY <1>4, CashDayConstants
  <2>3. /\ cash' \in [Sold -> [Shifts -> Nat]]
        /\ \A j \in Sold \ {i} : cash'[j] = cash[j]
        /\ \A t \in Shifts : cash'[i][t] # cash[i][t] => t = s
    BY <1>0, <1>4, <2>2 DEF Pay
  <2>4. shift[s] = "open" /\ (i \in Pos => s = bill[i].shift)
    BY <1>0, <1>4 DEF Pay, CanPay, InScope
  <2>5. Works(i, "draft", bill[i].shift, bill[i].batch)
    BY <1>0, <1>4, <2>1, <2>3, <2>4 DEF Works, Pay, InScope
  <2> QED
    BY <2>5, WorkKeeps
<1>5. ASSUME FinalizeBegins(i)
      PROVE  DInv'
  <2>1. bill[i].status = "draft" /\ (i \in Pos => shift[bill[i].shift] = "open")
    BY <1>5 DEF FinalizeBegins, InScope
  <2>2. /\ BatchOf(i) \in Batches
        /\ IF i \in Pos THEN BatchOf(i) = bill[i].shift ELSE BatchOf(i) \in Days
    BY <1>0, <2>1 DEF BatchOf, Shapes
  <2>3. Turns(i, "finalizing", bill[i].shift, BatchOf(i))
    BY <1>5, <2>2, BatchTurns DEF FinalizeBegins, BillStatuses
  <2>4. Works(i, "finalizing", bill[i].shift, BatchOf(i))
    BY <1>0, <1>5, <2>1, <2>2, <2>3 DEF Works, FinalizeBegins
  <2> QED
    BY <2>4, WorkKeeps
<1>6. ASSUME FinalizeFails(i)
      PROVE  DInv'
  <2>1. Turns(i, "draft", bill[i].shift, None)
    BY <1>6, BatchTurns DEF FinalizeFails, BillStatuses
  <2>2. i \in Pos => shift[bill[i].shift] # "closing"
    BY <1>0, <1>6 DEF FinalizeFails, Quiet, Unfinished
  <2>3. Works(i, "draft", bill[i].shift, None)
    BY <1>0, <1>6, <2>1, <2>2 DEF Works, FinalizeFails
  <2> QED
    BY <2>3, WorkKeeps
<1>7. ASSUME CancelDraft(i)
      PROVE  DInv'
  <2>1. Turns(i, "cancelled", bill[i].shift, bill[i].batch)
    BY <1>7, StatusTurns DEF CancelDraft, BillStatuses
  <2>2. Works(i, "cancelled", bill[i].shift, bill[i].batch)
    BY <1>0, <1>7, <2>1 DEF Works, CancelDraft
  <2> QED
    BY <2>2, WorkKeeps
<1>8. ASSUME RefundDraft(i)
      PROVE  DInv'
  <2>1. Turns(i, "cancelled", bill[i].shift, bill[i].batch)
    BY <1>8, StatusTurns DEF RefundDraft, BillStatuses
  <2>2. /\ cash' \in [Sold -> [Shifts -> Nat]]
        /\ \A j \in Sold \ {i} : cash'[j] = cash[j]
        /\ \A t \in Shifts : cash'[i][t] = 0
    BY <1>0, <1>8 DEF RefundDraft
  <2>3. Works(i, "cancelled", bill[i].shift, bill[i].batch)
    BY <1>0, <1>8, <2>1, <2>2 DEF Works, RefundDraft
  <2> QED
    BY <2>3, WorkKeeps
<1> QED
  BY <1>1, <1>2, <1>3, <1>4, <1>5, <1>6, <1>7, <1>8

-----------------------------------------------------------------------------
(* The sale becomes final: its batch is not posted, so the shift of a POS sale *)
(* is neither closed (closed shifts are posted) nor being closed (Quiet).    *)
LEMMA CommitKeeps ==
  ASSUME DInv, NEW i \in Sold, FinalizeCommits(i)
  PROVE  DInv'
<1> USE DEF DInv
<1> DEFINE b == bill[i].batch
<1>0. /\ bill[i].status = "finalizing" /\ b \in Batches /\ batch[b] # "posted"
      /\ IF i \in Pos THEN b = bill[i].shift ELSE b \in Days
  BY DEF FinalizeCommits, Held
<1>1. Turns(i, "final", bill[i].shift, b)
  BY StatusTurns DEF FinalizeCommits, BillStatuses
<1>2. /\ UNCHANGED <<shift, counted, booked, receivable, cash, ret, today>>
      /\ batch' = [batch EXCEPT ![b] = "open"]
      /\ DOMAIN change' = Sold /\ change' = [j \in Sold |-> change'[j]]
      /\ \A j \in Sold \ {i} : change'[j] = change[j]
  BY DEF FinalizeCommits, Shapes
<1> HIDE DEF b
<1>3. Shapes'
  BY <1>0, <1>1, <1>2 DEF Turns, Shapes
<1>4. OwnShift'
  BY <1>0, <1>1, <1>2 DEF Turns, OwnShift
<1>5. Fresh'
  BY <1>1, <1>2 DEF Turns, Fresh
<1>6. Quiet'
  BY <1>1, <1>2 DEF Turns, Quiet, Unfinished
<1>7. Held'
  <2>1. \A c \in Batches : batch'[c] = "posted" <=> batch[c] = "posted"
    BY <1>0, <1>2 DEF Shapes
  <2>2. \A j \in Sold : bill'[j].status = "finalizing" => bill'[j] = bill[j]
    BY <1>1 DEF Turns
  <2> QED
    BY <2>1, <2>2 DEF Held
<1>8. Refunds'
  BY <1>2 DEF Refunds
<1>9. BatchBooksItsSales'
  <2>1. \A c \in Batches : batch'[c] = "posted" <=> batch[c] = "posted"
    BY <1>0, <1>2 DEF Shapes
  <2>2. \A c \in Batches : batch[c] = "posted" => InBatch(c)' = InBatch(c)
    BY <1>0, <1>1 DEF Turns, InBatch
  <2> QED
    BY <1>2, <2>1, <2>2 DEF BatchBooksItsSales
<1>10. SumsHold'
  <2>1. ASSUME NEW s \in Shifts, shift[s] \in {"closing", "closed"}
        PROVE  SaleCash(i, s)' = SaleCash(i, s)
    <3>1. bill[i].shift # s
      <4>1. CASE i \in Pos
        BY <1>0, <2>1, <4>1 DEF BatchBooksItsSales, Quiet, Unfinished
      <4>2. CASE i \notin Pos
        BY <4>2, CashDayConstants DEF OwnShift
      <4> QED
        BY <4>1, <4>2
    <3> QED
      BY <1>1, <1>2, <3>1 DEF Turns, SaleCash
  <2>2. \A s \in Shifts, j \in Sold \ {i} : SaleCash(j, s)' = SaleCash(j, s)
    BY <1>1, <1>2 DEF Turns, SaleCash
  <2>3. \A s \in Shifts, r \in Returns : ReturnCash(r, s)' = ReturnCash(r, s)
    BY <1>2 DEF ReturnCash
  <2>4. \A j \in Sold : bill'[j].status # "cancelled" => bill[j].status # "cancelled"
    BY <1>0, <1>1 DEF Turns
  <2>5. \A s \in Shifts, j \in Sold :
          shift[s] \in {"closing", "closed"} => SaleCash(j, s)' = SaleCash(j, s)
    BY <2>1, <2>2
  <2> QED
    BY <1>2, <2>3, <2>4, <2>5 DEF SumsHold
<1>11. NoLooseCash'
  BY <1>1, <1>2 DEF Turns, NoLooseCash, Unfinished
<1> QED
  BY <1>3, <1>4, <1>5, <1>6, <1>7, <1>8, <1>9, <1>10, <1>11

-----------------------------------------------------------------------------
(* Returns: the drawer of a refund is open or it is late.                    *)
LEMMA ReturnKeeps ==
  ASSUME DInv, NEW r \in Returns, ReturnSteps(r)
  PROVE  DInv'
<1> USE DEF DInv
<1>1. ASSUME NEW i \in Sold, NEW n \in 1..MaxUnits, NEW refund \in 0..MaxUnits,
             NEW s \in Shifts \cup {None}, AskReturn(r, i, n, refund, s)
      PROVE  DInv'
  <2>0. n \in Nat /\ refund \in Nat
    BY CashDayConstants
  <2>1. Shapes'
    <3> DEFINE new == [status |-> "asked", of |-> i, units |-> n, refund |-> refund, drawer |-> s]
    <3>1. new \in RetRecords
      BY <2>0 DEF RetRecords
    <3>2. ret' = [ret EXCEPT ![r] = new]
      BY <1>1 DEF AskReturn
    <3> HIDE DEF new
    <3>3. ret' \in [Returns -> RetRecords]
      BY <3>1, <3>2 DEF Shapes
    <3>4. UNCHANGED <<shift, counted, ledger, sales, today>>
      BY <1>1 DEF AskReturn
    <3> QED
      BY <3>3, <3>4 DEF Shapes
  <2>2. Refunds'
    BY <1>1, <2>0, CashDayConstants DEF AskReturn, Refunds, Shapes, RetRecords
  <2>3. \A t \in Shifts, q \in Returns : ReturnCash(q, t)' = ReturnCash(q, t)
    BY <1>1 DEF AskReturn, ReturnCash, Shapes, RetRecords
  <2>7. \A q \in Returns : ret[q].status = "late" => ret'[q].status = "late"
    BY <1>1 DEF AskReturn, Shapes, RetRecords
  <2>4. \A t \in Shifts, j \in Sold : SaleCash(j, t)' = SaleCash(j, t)
    BY <1>1 DEF AskReturn, SaleCash
  <2>5. UNCHANGED <<shift, counted, batch, booked, bill, cash, change, today>>
    BY <1>1 DEF AskReturn
  <2>6. SumsHold'
    <3>1. ASSUME NEW t \in Shifts, shift[t] \in {"closing", "closed"}, NEW j \in Sold,
                 bill'[j].status # "cancelled"
          PROVE  counted[t][j] = SaleCash(j, t)'
      <4>1. counted[t][j] = SaleCash(j, t)
        BY <2>5, <3>1 DEF SumsHold
      <4> QED
        BY <2>4, <4>1
    <3>2. ASSUME NEW t \in Shifts, shift[t] \in {"closing", "closed"}, NEW q \in Returns,
                 ret'[q].status # "late"
          PROVE  counted[t][q] = ReturnCash(q, t)'
      <4>1. counted[t][q] = ReturnCash(q, t)
        BY <2>7, <3>2 DEF SumsHold
      <4> QED
        BY <2>3, <4>1
    <3> QED
      BY <2>5, <3>1, <3>2 DEF SumsHold
  <2> QED
    BY <2>1, <2>2, <2>5, <2>6
    DEF OwnShift, Fresh, Quiet, Held, BatchBooksItsSales, InBatch, NoLooseCash, Unfinished
<1>2. ASSUME PostReturn(r)
      PROVE  DInv'
  <2> DEFINE i == ret[r].of
             st == IF ret[r].refund > 0 /\ shift[ret[r].drawer] = "closed" THEN "late" ELSE "posted"
  <2>1. /\ ret[r].status = "asked" /\ bill[i].status = "final"
        /\ ret[r].refund > 0 => shift[ret[r].drawer] # "closing"
        /\ ret' = [ret EXCEPT ![r].status = st]
        /\ UNCHANGED <<shift, counted, batch, booked, cash, change, today>>
    BY <1>2 DEF PostReturn
  <2>2. i \in Sold
    BY <2>1 DEF Refunds
  <2>3. Turns(i, bill[i].status, bill[i].shift, bill[i].batch)
    BY <1>2, <2>2, BackTurns DEF PostReturn
  <2>4. \A j \in Sold : /\ bill'[j].status = bill[j].status /\ bill'[j].shift = bill[j].shift
                        /\ bill'[j].batch = bill[j].batch
    BY <2>3 DEF Turns
  <2>5. st \in {"posted", "late"}
    OBVIOUS
  <2> HIDE DEF i, st
  <2>6. Shapes'
    <3>0. ret[r] \in RetRecords
      BY DEF Shapes
    <3>2. [ret[r] EXCEPT !.status = st] \in RetRecords
      BY <2>5, <3>0 DEF RetRecords
    <3>1. ret' \in [Returns -> RetRecords]
      BY <2>1, <3>2 DEF Shapes
    <3> QED
      BY <2>1, <2>3, <3>1 DEF Turns, Shapes
  <2>7. OwnShift' /\ Fresh' /\ Quiet' /\ Held' /\ NoLooseCash'
    BY <2>1, <2>4 DEF OwnShift, Fresh, Quiet, Held, NoLooseCash, Unfinished
  <2>8. \A q \in Returns : /\ ret'[q].refund = ret[q].refund /\ ret'[q].drawer = ret[q].drawer
                           /\ ret'[q].of = ret[q].of
                           /\ ret'[q].status # "none" => ret[q].status # "none"
    BY <2>1 DEF Shapes, RetRecords
  <2>9. Refunds'
    BY <2>8 DEF Refunds
  <2>10. BatchBooksItsSales'
    BY <2>1, <2>2, <2>3, BatchesStay
  <2>11. SumsHold'
    <3>1. \A s \in Shifts, j \in Sold : SaleCash(j, s)' = SaleCash(j, s)
      BY <2>1, <2>4 DEF SaleCash
    <3>2. ASSUME NEW s \in Shifts, shift[s] \in {"closing", "closed"}, NEW q \in Returns,
                 ret'[q].status # "late"
          PROVE  counted[s][q] = ReturnCash(q, s)'
      <4>1. CASE q # r
        BY <2>1, <3>2, <4>1 DEF SumsHold, ReturnCash, Shapes
      <4>2. CASE q = r
        <5>1. counted[s][r] = 0
          BY <2>1, <3>2 DEF SumsHold, ReturnCash
        <5>2. ret'[r].status = st
          BY <2>1 DEF Shapes, RetRecords
        <5>3. ret[r].drawer # s
          BY <2>1, <3>2, <4>2, <5>2, CashDayConstants DEF st, Refunds
        <5> QED
          BY <2>8, <4>2, <5>1, <5>3 DEF ReturnCash
      <4> QED
        BY <4>1, <4>2
    <3> QED
      BY <2>1, <2>4, <3>1, <3>2 DEF SumsHold
  <2> QED
    BY <2>6, <2>7, <2>9, <2>10, <2>11
<1> QED
  BY <1>1, <1>2 DEF ReturnSteps

-----------------------------------------------------------------------------
(* Drawers and days.                                                        *)
LEMMA OpenKeeps ==
  ASSUME DInv, NEW s \in Shifts, OpenShift(s)
  PROVE  DInv'
<1> USE DEF DInv
<1>1. /\ shift' = [shift EXCEPT ![s] = "open"]
      /\ UNCHANGED <<counted, batch, booked, bill, cash, change, ret, today>>
  BY DEF OpenShift
<1>2. \A t \in Shifts : shift'[t] \in {"closing", "closed"} => shift'[t] = shift[t]
  BY <1>1 DEF Shapes
<1>3. Shapes' /\ OwnShift' /\ Fresh' /\ Held' /\ Refunds'
  <2>1. Shapes'
    BY <1>1 DEF Shapes
  <2>2. OwnShift' /\ Fresh' /\ Held' /\ Refunds'
    BY <1>1 DEF OwnShift, Fresh, Held, Refunds
  <2> QED
    BY <2>1, <2>2
<1>4. Quiet' /\ NoLooseCash'
  BY <1>1, <1>2 DEF Quiet, NoLooseCash, Unfinished
<1>5. BatchBooksItsSales'
  BY <1>1, <1>2 DEF BatchBooksItsSales, InBatch
<1>6. SumsHold'
  BY <1>1, <1>2 DEF SumsHold, SaleCash, ReturnCash
<1> QED
  BY <1>3, <1>4, <1>5, <1>6

LEMMA SumKeeps ==
  ASSUME DInv, NEW s \in Shifts, CloseSums(s)
  PROVE  DInv'
<1> USE DEF DInv
<1>1. /\ \A i \in Pos : bill[i].shift = s => ~Unfinished(i)
      /\ shift' = [shift EXCEPT ![s] = "closing"]
      /\ counted' = [counted EXCEPT ![s] = DrawerCash(s)]
      /\ UNCHANGED <<batch, booked, bill, cash, change, ret, today>>
  BY DEF CloseSums
<1>2. /\ \A i \in Sold : counted'[s][i] = SaleCash(i, s)
      /\ \A r \in Returns : counted'[s][r] = ReturnCash(r, s)
  BY <1>1, CashDayConstants DEF Shapes, DrawerCash
<1>3. \A t \in Shifts \ {s} : shift'[t] = shift[t] /\ counted'[t] = counted[t]
  BY <1>1 DEF Shapes
<1>4. shift'[s] = "closing"
  BY <1>1 DEF Shapes
<1>5. Shapes' /\ OwnShift' /\ Fresh' /\ Held' /\ Refunds'
  <2>1. Shapes'
    BY <1>1 DEF Shapes
  <2>2. OwnShift' /\ Fresh' /\ Held' /\ Refunds'
    BY <1>1 DEF OwnShift, Fresh, Held, Refunds
  <2> QED
    BY <2>1, <2>2
<1>6. Quiet' /\ NoLooseCash'
  BY <1>1, <1>3, <1>4 DEF Quiet, NoLooseCash, Unfinished
<1>7. BatchBooksItsSales'
  BY <1>1, <1>3, <1>4 DEF BatchBooksItsSales, InBatch
<1>8. SumsHold'
  BY <1>1, <1>2, <1>3 DEF SumsHold, SaleCash, ReturnCash
<1> QED
  BY <1>5, <1>6, <1>7, <1>8

LEMMA RefuseKeeps ==
  ASSUME DInv, NEW s \in Shifts, CloseRefused(s)
  PROVE  DInv'
<1> USE DEF DInv
<1>1. /\ shift' = [shift EXCEPT ![s] = "open"]
      /\ counted' = [counted EXCEPT ![s] = Nothing]
      /\ UNCHANGED <<batch, booked, bill, cash, change, ret, today>>
  BY DEF CloseRefused
<1>2. \A t \in Shifts : shift'[t] \in {"closing", "closed"} =>
        shift'[t] = shift[t] /\ counted'[t] = counted[t]
  BY <1>1 DEF Shapes
<1>3. Shapes' /\ OwnShift' /\ Fresh' /\ Held' /\ Refunds'
  <2>1. Shapes'
    BY <1>1 DEF Shapes
  <2>2. OwnShift' /\ Fresh' /\ Held' /\ Refunds'
    BY <1>1 DEF OwnShift, Fresh, Held, Refunds
  <2> QED
    BY <2>1, <2>2
<1>4. Quiet' /\ NoLooseCash'
  BY <1>1, <1>2 DEF Quiet, NoLooseCash, Unfinished
<1>5. BatchBooksItsSales'
  BY <1>1, <1>2 DEF BatchBooksItsSales, InBatch
<1>6. SumsHold'
  BY <1>1, <1>2 DEF SumsHold, SaleCash, ReturnCash
<1> QED
  BY <1>3, <1>4, <1>5, <1>6

(* Posting a batch no finalization holds. *)
LEMMA PostKeeps ==
  ASSUME DInv, NEW b \in Batches, PostBatch(b), UNCHANGED <<bill, cash, change, ret, today>>,
         \A i \in Sold : bill[i].status = "finalizing" => bill[i].batch # b
  PROVE  /\ batch'[b] = "posted"
         /\ \A c \in Batches : /\ batch'[c] \in {"none", "open", "posted"}
                               /\ batch[c] = "posted" => batch'[c] = "posted"
                               /\ booked'[c] = IF batch'[c] = "posted" THEN InBatch(c)' ELSE {}
         /\ batch' \in [Batches -> {"none", "open", "posted"}]
         /\ DOMAIN booked' = Batches /\ booked' = [c \in Batches |-> booked'[c]]
         /\ Held'
<1> USE DEF DInv
<1>1. /\ batch' = [batch EXCEPT ![b] = "posted"]
      /\ booked' = [booked EXCEPT ![b] = InBatch(b)]
  BY DEF PostBatch
<1>2. \A c \in Batches : InBatch(c)' = InBatch(c)
  BY DEF InBatch
<1>3. Held'
  BY <1>1 DEF Held, Shapes
<1>4. /\ batch'[b] = "posted" /\ booked'[b] = InBatch(b)
      /\ \A c \in Batches \ {b} : batch'[c] = batch[c] /\ booked'[c] = booked[c]
  BY <1>1 DEF Shapes
<1>5. /\ batch' \in [Batches -> {"none", "open", "posted"}]
      /\ DOMAIN booked' = Batches /\ booked' = [c \in Batches |-> booked'[c]]
  BY <1>1 DEF Shapes
<1> QED
  BY <1>2, <1>3, <1>4, <1>5 DEF BatchBooksItsSales

LEMMA CloseKeeps ==
  ASSUME DInv, NEW s \in Shifts, CloseEnds(s)
  PROVE  DInv'
<1> USE DEF DInv
<1>1. /\ shift[s] = "closing" /\ ~HoldsDraftCash(s)
      /\ shift' = [shift EXCEPT ![s] = "closed"]
      /\ PostBatch(s) /\ UNCHANGED <<counted, bill, cash, change, ret, today>>
  BY DEF CloseEnds
<1>2. \A i \in Sold : bill[i].status = "finalizing" => bill[i].batch # s
  BY <1>1, CashDayConstants DEF Held, Quiet, Unfinished
<1>3. /\ batch'[s] = "posted"
      /\ \A c \in Batches : /\ batch[c] = "posted" => batch'[c] = "posted"
                            /\ booked'[c] = IF batch'[c] = "posted" THEN InBatch(c)' ELSE {}
      /\ batch' \in [Batches -> {"none", "open", "posted"}]
      /\ DOMAIN booked' = Batches /\ booked' = [c \in Batches |-> booked'[c]]
      /\ Held'
  BY <1>1, <1>2, PostKeeps
<1>4. shift'[s] = "closed" /\ \A t \in Shifts \ {s} : shift'[t] = shift[t]
  BY <1>1 DEF Shapes
<1>5. Shapes' /\ OwnShift' /\ Fresh' /\ Refunds'
  <2>1. Shapes'
    BY <1>1, <1>3 DEF Shapes
  <2>2. OwnShift' /\ Fresh' /\ Refunds'
    BY <1>1, <1>3 DEF OwnShift, Fresh, Refunds
  <2> QED
    BY <2>1, <2>2
<1>6. Quiet'
  BY <1>1, <1>4 DEF Quiet, Unfinished
<1>7. NoLooseCash'
  <2>1. \A i \in Sold : Unfinished(i) => cash[i][s] = 0
    BY <1>1 DEF HoldsDraftCash, Shapes
  <2> QED
    BY <1>1, <1>4, <2>1 DEF NoLooseCash, Unfinished
<1>8. BatchBooksItsSales'
  BY <1>3, <1>4 DEF BatchBooksItsSales
<1>9. SumsHold'
  BY <1>1, <1>4 DEF SumsHold, SaleCash, ReturnCash
<1> QED
  BY <1>3, <1>5, <1>6, <1>7, <1>8, <1>9

LEMMA DayKeeps ==
  ASSUME DInv, NEW d \in Days, CloseDay(d)
  PROVE  DInv'
<1> USE DEF DInv
<1>1. DayIsFree(d) /\ PostBatch(d) /\ UNCHANGED <<shift, counted, bill, cash, change, ret, today>>
  BY DEF CloseDay
<1>2. /\ \A c \in Batches : /\ batch[c] = "posted" => batch'[c] = "posted"
                            /\ booked'[c] = IF batch'[c] = "posted" THEN InBatch(c)' ELSE {}
      /\ batch' \in [Batches -> {"none", "open", "posted"}]
      /\ DOMAIN booked' = Batches /\ booked' = [c \in Batches |-> booked'[c]]
      /\ Held'
  BY <1>1, PostKeeps DEF DayIsFree
<1>3. Shapes' /\ OwnShift' /\ Fresh' /\ Refunds'
  <2>1. Shapes'
    BY <1>1, <1>2 DEF Shapes
  <2>2. OwnShift' /\ Fresh' /\ Refunds'
    BY <1>1, <1>2 DEF OwnShift, Fresh, Refunds
  <2> QED
    BY <2>1, <2>2
<1>4. Quiet' /\ NoLooseCash'
  BY <1>1 DEF Quiet, NoLooseCash, Unfinished
<1>5. BatchBooksItsSales'
  BY <1>1, <1>2 DEF BatchBooksItsSales
<1>6. SumsHold'
  BY <1>1 DEF SumsHold, SaleCash, ReturnCash
<1> QED
  BY <1>2, <1>3, <1>4, <1>5, <1>6

-----------------------------------------------------------------------------
LEMMA InitDInv == CashDayInit => DInv
<1> SUFFICES ASSUME CashDayInit PROVE DInv
  OBVIOUS
<1>1. \A i \in Sold : bill[i] = NoBill
  BY DEF CashDayInit
<1>2. IsBill(NoBill)
  BY DEF IsBill, NoBill, Fields
<1>3. Shapes
  <2>1. today \in Days
    BY CashDayConstants DEF CashDayInit, Days
  <2>2. ret \in [Returns -> RetRecords]
    BY DEF CashDayInit, NoRet, RetRecords
  <2>3. \A i \in Sold : IsBill(bill[i])
    BY <1>1, <1>2
  <2> QED
    BY <2>1, <2>2, <2>3 DEF CashDayInit, Shapes
<1>4. OwnShift /\ Fresh /\ Quiet /\ Held /\ NoLooseCash
  BY <1>1 DEF CashDayInit, OwnShift, Fresh, Quiet, Held, NoLooseCash, Unfinished, NoBill
<1>5. Refunds /\ SumsHold
  BY DEF CashDayInit, Refunds, SumsHold, NoRet
<1>6. BatchBooksItsSales
  BY DEF CashDayInit, BatchBooksItsSales
<1> QED
  BY <1>3, <1>4, <1>5, <1>6 DEF DInv

LEMMA NextDInv ==
  ASSUME DInv, [CashDayNext]_dvars
  PROVE  DInv'
<1>1. ASSUME NEW s \in Shifts, ShiftSteps(s)
      PROVE  DInv'
  BY <1>1, OpenKeeps, SumKeeps, CloseKeeps, RefuseKeeps DEF ShiftSteps
<1>2. ASSUME NEW i \in Sold, BillSteps(i)
      PROVE  DInv'
  BY <1>2, SaleWorks, CommitKeeps DEF BillSteps
<1>3. ASSUME NEW r \in Returns, ReturnSteps(r)
      PROVE  DInv'
  BY <1>3, ReturnKeeps
<1>4. ASSUME NEW d \in Days, CloseDay(d)
      PROVE  DInv'
  BY <1>4, DayKeeps
<1>5. CASE NextDay \/ UNCHANGED dvars
  <2>1. UNCHANGED <<shift, counted, batch, booked, bill, cash, change, ret>>
    BY <1>5 DEF NextDay
  <2>2. today' \in Days
    BY <1>5, CashDayConstants DEF NextDay, DInv, Shapes, Days
  <2>3. Shapes'
    BY <2>1, <2>2 DEF DInv, Shapes
  <2>4. OwnShift' /\ Fresh' /\ Quiet' /\ Held' /\ Refunds' /\ NoLooseCash'
    BY <2>1 DEF DInv, OwnShift, Fresh, Quiet, Held, Refunds, NoLooseCash, Unfinished
  <2>5. BatchBooksItsSales' /\ SumsHold'
    BY <2>1 DEF DInv, BatchBooksItsSales, InBatch, SumsHold, SaleCash, ReturnCash
  <2> QED
    BY <2>3, <2>4, <2>5 DEF DInv
<1> QED
  BY <1>1, <1>2, <1>3, <1>4, <1>5 DEF CashDayNext

LEMMA Invariance == CashDaySpec => []DInv
<1> QED
  BY InitDInv, NextDInv, PTL DEF CashDaySpec

(* For any number of drawers, days and sales: however closing and finalization *)
(* overlap, a posted batch booked exactly the invoices finalized into it, and *)
(* a closed shift is posted (082:56-65, 085:553).                            *)
THEOREM BatchBooked == CashDaySpec => []BatchBooksItsSales
<1>1. DInv => BatchBooksItsSales
  BY DEF DInv
<1> QED
  BY <1>1, Invariance, PTL

(* For any number of drawers and sales, of returns and their refunds: what a    *)
(* closed drawer counted stays what its final sales and the refunds posted in *)
(* time left in it, and no unfinished sale has cash there (106:12, 106:17).  *)
THEOREM DrawerCounted == CashDaySpec => []DrawerCountsSales
<1>1. DInv => DrawerCountsSales
  BY DEF DInv, DrawerCountsSales, SumsHold, NoLooseCash
<1> QED
  BY <1>1, Invariance, PTL

-----------------------------------------------------------------------------
(* The money of an invoice.                                                 *)

Amounts(r) ==
  r.due \in Nat /\ r.back \in Nat /\ r.refunded \in Nat /\ r.settled \in Nat /\ r.credit \in Nat

(* An invoice r that received m: before it is final nothing came back; from    *)
(* then on what came back was refunded, set against the debt or credited, and *)
(* nothing is credited before the debt is settled.  A sale without a customer  *)
(* leaves no debt.                                                          *)
Balanced(r, m, known) ==
  /\ r.status # "final" => r.back = 0 /\ r.refunded = 0 /\ r.settled = 0 /\ r.credit = 0
  /\ r.status = "finalizing" /\ ~known => r.due <= m
  /\ r.status = "final" =>
       /\ m \in Nat /\ m <= r.due
       /\ r.back = r.refunded + r.settled + r.credit
       /\ r.settled <= r.due - m
       /\ r.credit > 0 => r.settled = r.due - m
       /\ r.refunded <= m
       /\ ~known => r.due = m

Placed == \A i \in Sold : bill[i].status = "final" => bill[i].batch \in Batches
PostedLast == \A s \in Shifts : batch[s] = "posted" => shift[s] = "closed"

Posted(i) == bill[i].status = "final" /\ batch[bill[i].batch] = "posted"
(* What the ledger has of the customer's debt for an invoice, and what it is.  *)
InBooks(i) == (IF Posted(i) THEN Credit(i) ELSE 0) - bill[i].settled
Owing(i) == IF bill[i].status = "final" THEN Credit(i) - bill[i].settled ELSE 0
OnBooks == [i \in Known |-> InBooks(i)]
OnAccount == [i \in Known |-> Owing(i)]

Money == /\ \A i \in Sold : Amounts(bill[i]) /\ change[i] \in Nat
         /\ \A i \in Sold : Balanced(bill[i], Received(i), i \in Known)
Account == /\ Placed /\ PostedLast
           /\ receivable = SumFunctionOnSet(OnBooks, Known)
           /\ SumFunctionOnSet(OnAccount, Known) <= Limit
MInv == DInv /\ Money /\ Account

LEMMA KnownFinite == IsFiniteSet(Sold) /\ IsFiniteSet(Known) /\ Known \subseteq Sold
<1>1. IsFiniteSet(Pos \cup Sites)
  BY CashDayConstants, FS_Union
<1> QED
  BY <1>1, CashDayConstants, FS_Subset DEF Sold

LEMMA ReceivedType ==
  ASSUME Shapes, Money, NEW i \in Sold
  PROVE  /\ SumFunctionOnSet(cash[i], Shifts) \in Nat
         /\ change[i] \in Nat
         /\ Received(i) = SumFunctionOnSet(cash[i], Shifts) - change[i]
         /\ Received(i) \in Int
<1>1. \A s \in Shifts : cash[i][s] \in Nat
  BY DEF Shapes
<1>2. SumFunctionOnSet(cash[i], Shifts) \in Nat
  BY <1>1, CashDayConstants, SumNat
<1>3. change[i] \in Nat
  BY DEF Money
<1> QED
  BY <1>2, <1>3 DEF Received

LEMMA OwingType ==
  ASSUME Shapes, Money, NEW i \in Sold
  PROVE  /\ Credit(i) \in Int /\ Credit(i) = bill[i].due - Received(i)
         /\ InBooks(i) \in Int /\ Owing(i) \in Int
<1>1. Received(i) \in Int
  BY ReceivedType
<1>2. bill[i].due \in Nat /\ bill[i].settled \in Nat
  BY DEF Money, Amounts
<1> QED
  BY <1>1, <1>2 DEF Credit, InBooks, Owing

(* A posted return: post_return sets what is not refunded against the debt     *)
(* first and credits the rest.                                              *)
LEMMA ReturnBalances ==
  ASSUME NEW r, NEW m, NEW known \in BOOLEAN, NEW n \in Nat, NEW f \in Nat,
         Amounts(r), r.status = "final", Balanced(r, m, known),
         f <= n, f <= m - r.refunded, r.back + n <= r.due,
         NEW debt, debt = Over(r.due + r.refunded, r.back + m),
         NEW s, s = IF n - f < debt THEN n - f ELSE debt,
         NEW q, Amounts(q), q.status = "final", q.due = r.due, q.back = r.back + n,
         q.refunded = r.refunded + f, q.settled = r.settled + s,
         q.credit = r.credit + (n - f - s)
  PROVE  /\ Balanced(q, m, known) /\ s \in Nat
         /\ ~known => s = 0
<1>1. /\ m \in Nat /\ m <= r.due /\ r.back = r.refunded + r.settled + r.credit
      /\ r.settled <= r.due - m /\ (r.credit > 0 => r.settled = r.due - m)
      /\ r.refunded <= m /\ (~known => r.due = m)
  BY DEF Balanced
<1>2. /\ r.due \in Nat /\ r.back \in Nat /\ r.refunded \in Nat /\ r.settled \in Nat
      /\ r.credit \in Nat
  BY DEF Amounts
<1>3. debt \in Nat /\ (r.credit > 0 => debt = 0) /\ (r.credit = 0 => debt = r.due - m - r.settled)
  <2>1. (r.due + r.refunded) - (r.back + m) = (r.due - m - r.settled) - r.credit
    BY <1>1, <1>2
  <2>2. /\ r.due - m - r.settled \in Nat
        /\ r.credit > 0 => r.due - m - r.settled = 0
    BY <1>1, <1>2
  <2>3. r.due + r.refunded \in Nat /\ r.back + m \in Nat
    BY <1>1, <1>2
  <2> DEFINE a == r.due + r.refunded
             b == r.back + m
             e == r.due - m - r.settled
  <2>4. a \in Nat /\ b \in Nat /\ e \in Nat /\ a - b = e - r.credit /\ r.credit \in Nat
        /\ (r.credit > 0 => e = 0) /\ debt = IF a > b THEN a - b ELSE 0
    BY <1>2, <2>1, <2>2, <2>3 DEF Over
  <2> HIDE DEF a, b, e
  <2>5. debt \in Nat /\ (r.credit > 0 => debt = 0) /\ (r.credit = 0 => debt = e)
    BY <2>4
  <2> QED
    BY <2>5 DEF e
<1>4. s \in Nat /\ s <= debt /\ s <= n - f /\ (s < n - f => s = debt)
  BY <1>3
<1>5. ~known => s = 0
  BY <1>1, <1>2, <1>3, <1>4
<1>6. /\ q.back = q.refunded + q.settled + q.credit
      /\ q.settled <= q.due - m /\ q.refunded <= m
  BY <1>1, <1>2, <1>3, <1>4
<1>7. q.credit > 0 => q.settled = q.due - m
  BY <1>1, <1>2, <1>3, <1>4
<1> QED
  BY <1>1, <1>2, <1>4, <1>5, <1>6, <1>7 DEF Balanced

(* An invoice whose goods all came back is settled. *)
LEMMA BalancedSettles ==
  ASSUME NEW r, NEW m, NEW known, Amounts(r), Balanced(r, m, known),
         r.status = "final", r.back = r.due
  PROVE  r.due - m = r.settled /\ m = r.refunded + r.credit
BY DEF Amounts, Balanced

(* The invoices a step leaves alone. *)
Alone(i) == /\ \A j \in Sold \ {i} : bill'[j] = bill[j] /\ cash'[j] = cash[j] /\ change'[j] = change[j]

LEMMA OneMoney ==
  ASSUME Money, NEW i \in Sold, Alone(i), Amounts(bill'[i]), change'[i] \in Nat,
         Balanced(bill'[i], Received(i)', i \in Known)
  PROVE  Money'
<1>1. \A j \in Sold \ {i} : Received(j)' = Received(j)
  BY DEF Alone, Received
<1>2. \A j \in Sold : Amounts(bill'[j]) /\ change'[j] \in Nat
  BY DEF Money, Alone
<1>3. \A j \in Sold \ {i} : Balanced(bill'[j], Received(j)', j \in Known)
  BY <1>1 DEF Money, Alone
<1> QED
  BY <1>2, <1>3 DEF Money

LEMMA SameBooks ==
  ASSUME \A i \in Known : InBooks(i)' = InBooks(i)
  PROVE  SumFunctionOnSet(OnBooks, Known)' = SumFunctionOnSet(OnBooks, Known)
BY DEF OnBooks

LEMMA SameAccount ==
  ASSUME \A i \in Known : Owing(i)' = Owing(i)
  PROVE  SumFunctionOnSet(OnAccount, Known)' = SumFunctionOnSet(OnAccount, Known)
BY DEF OnAccount

LEMMA LeftAlone ==
  ASSUME NEW j \in Sold, bill'[j] = bill[j], cash'[j] = cash[j], change'[j] = change[j],
         bill[j].status = "final" =>
           (batch'[bill[j].batch] = "posted" <=> batch[bill[j].batch] = "posted")
  PROVE  InBooks(j)' = InBooks(j) /\ Owing(j)' = Owing(j)
<1>1. Credit(j)' = Credit(j)
  BY DEF Credit, Received
<1>2. Posted(j)' <=> Posted(j)
  BY DEF Posted
<1> QED
  BY <1>1, <1>2 DEF InBooks, Owing

LEMMA NotFinal ==
  ASSUME Money, NEW i \in Sold, bill[i].status # "final"
  PROVE  InBooks(i) = 0 /\ Owing(i) = 0
<1>1. bill[i].settled = 0
  BY DEF Money, Balanced
<1> QED
  BY <1>1 DEF InBooks, Owing, Posted

LEMMA DraftMoney ==
  ASSUME MInv, NEW i \in Sold, Alone(i), bill[i].status # "final", bill'[i].status # "final",
         Amounts(bill'[i]), Balanced(bill'[i], Received(i)', i \in Known),
         UNCHANGED <<shift, batch, receivable, change>>
  PROVE  Money' /\ Account'
<1>1. Money'
  BY OneMoney DEF MInv, Money
<1>2. InBooks(i) = 0 /\ Owing(i) = 0 /\ InBooks(i)' = 0 /\ Owing(i)' = 0
  <2>1. InBooks(i) = 0 /\ Owing(i) = 0
    BY NotFinal DEF MInv
  <2>2. bill'[i].settled = 0
    BY DEF Balanced
  <2>3. InBooks(i)' = 0 /\ Owing(i)' = 0
    BY <2>2 DEF InBooks, Owing, Posted
  <2> QED
    BY <2>1, <2>3
<1>3. \A j \in Sold \ {i} : InBooks(j)' = InBooks(j) /\ Owing(j)' = Owing(j)
  BY LeftAlone DEF Alone
<1>4. \A j \in Known : InBooks(j)' = InBooks(j) /\ Owing(j)' = Owing(j)
  BY <1>2, <1>3, KnownFinite
<1>5. /\ SumFunctionOnSet(OnBooks, Known)' = SumFunctionOnSet(OnBooks, Known)
      /\ SumFunctionOnSet(OnAccount, Known)' = SumFunctionOnSet(OnAccount, Known)
  BY <1>4, SameBooks, SameAccount
<1>6. Placed' /\ PostedLast'
  <2>1. Placed'
    BY DEF MInv, Account, Placed, Alone
  <2> QED
    BY <2>1 DEF MInv, Account, PostedLast
<1> QED
  BY <1>1, <1>5, <1>6 DEF MInv, Account

SameAmounts(r, n) ==
  /\ n.due = r.due /\ n.back = r.back /\ n.refunded = r.refunded
  /\ n.settled = r.settled /\ n.credit = r.credit

LEMMA StatusAmounts ==
  ASSUME NEW r, IsBill(r), NEW st
  PROVE  /\ SameAmounts(r, [r EXCEPT !.status = st]) /\ [r EXCEPT !.status = st].status = st
         /\ [r EXCEPT !.status = st].batch = r.batch
BY DEF IsBill, Fields, SameAmounts

LEMMA ShiftAmounts ==
  ASSUME NEW r, IsBill(r), NEW st, NEW x
  PROVE  /\ SameAmounts(r, [r EXCEPT !.status = st, !.shift = x])
         /\ [r EXCEPT !.status = st, !.shift = x].status = st
BY DEF IsBill, Fields, SameAmounts

LEMMA BatchAmounts ==
  ASSUME NEW r, IsBill(r), NEW st, NEW x
  PROVE  /\ SameAmounts(r, [r EXCEPT !.status = st, !.batch = x])
         /\ [r EXCEPT !.status = st, !.batch = x].status = st
BY DEF IsBill, Fields, SameAmounts

(* The steps that make an invoice neither final nor one about to be. *)
LEMMA DraftSteps ==
  ASSUME MInv, NEW i \in Sold,
         \/ \E s \in Shifts : AskDraft(i, s)
         \/ InsertDraft(i)
         \/ \E n \in 0..MaxUnits : EditLines(i, n)
         \/ \E s \in Shifts, n \in 1..MaxCash : Pay(i, s, n)
         \/ FinalizeFails(i) \/ CancelDraft(i) \/ RefundDraft(i)
  PROVE  Money' /\ Account'
<1>0. /\ IsBill(bill[i]) /\ Amounts(bill[i]) /\ DOMAIN bill = Sold
      /\ Balanced(bill[i], Received(i), i \in Known)
  BY DEF MInv, DInv, Shapes, Money
<1>1. UNCHANGED <<shift, batch, receivable, change>> /\ Alone(i)
  <2>1. UNCHANGED <<shift, batch, receivable, change>>
    BY DEF AskDraft, InsertDraft, EditLines, Pay, FinalizeFails, CancelDraft, RefundDraft, SaleStep
  <2>2. DOMAIN cash = Sold /\ DOMAIN bill = Sold
    BY DEF MInv, DInv, Shapes
  <2>3. \A j \in Sold \ {i} : bill'[j] = bill[j]
    BY <2>2 DEF AskDraft, InsertDraft, EditLines, Pay, FinalizeFails, CancelDraft, RefundDraft
  <2>4. \A j \in Sold \ {i} : cash'[j] = cash[j]
    BY <2>2 DEF AskDraft, InsertDraft, EditLines, Pay, FinalizeFails, CancelDraft, RefundDraft
  <2> QED
    BY <2>1, <2>3, <2>4 DEF Alone
<1>2. bill[i].status \in {"none", "asked", "draft", "finalizing"}
  BY DEF AskDraft, InsertDraft, EditLines, Pay, FinalizeFails, CancelDraft, RefundDraft, InScope
<1>3. ASSUME SameAmounts(bill[i], bill'[i]) \/ \E n \in Nat : bill'[i] = [bill[i] EXCEPT !.due = n],
             bill'[i].status \in {"asked", "draft", "cancelled"}
      PROVE  Money' /\ Account'
  <2>1. Amounts(bill'[i]) /\ bill'[i].back = 0 /\ bill'[i].refunded = 0 /\ bill'[i].settled = 0
        /\ bill'[i].credit = 0
    <3>1. CASE SameAmounts(bill[i], bill'[i])
      BY <1>0, <1>2, <3>1 DEF Amounts, SameAmounts, Balanced
    <3>2. ASSUME NEW n \in Nat, bill'[i] = [bill[i] EXCEPT !.due = n]
          PROVE  /\ bill'[i].due \in Nat
                 /\ bill'[i].back = bill[i].back /\ bill'[i].refunded = bill[i].refunded
                 /\ bill'[i].settled = bill[i].settled /\ bill'[i].credit = bill[i].credit
      BY <1>0, <3>2 DEF IsBill, Fields
    <3> QED
      BY <1>0, <1>2, <1>3, <3>1, <3>2 DEF Amounts, Balanced
  <2>2. Balanced(bill'[i], Received(i)', i \in Known)
    BY <1>3, <2>1 DEF Balanced
  <2> QED
    BY <1>1, <1>2, <1>3, <2>1, <2>2, DraftMoney
<1>4. ASSUME NEW s \in Shifts, AskDraft(i, s) PROVE Money' /\ Account'
  <2>1. bill'[i] = [bill[i] EXCEPT !.status = "asked", !.shift = s]
    BY <1>0, <1>4 DEF AskDraft
  <2>2. /\ SameAmounts(bill[i], [bill[i] EXCEPT !.status = "asked", !.shift = s])
        /\ [bill[i] EXCEPT !.status = "asked", !.shift = s].status = "asked"
    BY <1>0, ShiftAmounts
  <2>3. SameAmounts(bill[i], bill'[i]) /\ bill'[i].status = "asked"
    BY <2>1, <2>2
  <2> QED
    BY <1>3, <2>3
<1>5. CASE InsertDraft(i) \/ CancelDraft(i) \/ RefundDraft(i)
  <2>1. PICK st \in {"draft", "cancelled"} : bill'[i] = [bill[i] EXCEPT !.status = st]
    BY <1>0, <1>5 DEF InsertDraft, CancelDraft, RefundDraft
  <2>2. /\ SameAmounts(bill[i], [bill[i] EXCEPT !.status = st])
        /\ [bill[i] EXCEPT !.status = st].status = st
    BY <1>0, StatusAmounts
  <2>3. SameAmounts(bill[i], bill'[i]) /\ bill'[i].status = st
    BY <2>1, <2>2
  <2> QED
    BY <1>3, <2>3
<1>6. ASSUME NEW n \in 0..MaxUnits, EditLines(i, n) PROVE Money' /\ Account'
  <2>1. bill'[i] = [bill[i] EXCEPT !.due = n] /\ n \in Nat
    BY <1>0, <1>6, CashDayConstants DEF EditLines
  <2>2. bill'[i].status = "draft"
    BY <1>0, <1>6, <2>1 DEF EditLines, InScope, IsBill, Fields
  <2> QED
    BY <1>3, <2>1, <2>2
<1>7. ASSUME NEW s \in Shifts, NEW n \in 1..MaxCash, Pay(i, s, n) PROVE Money' /\ Account'
  <2>1. bill'[i] = bill[i] /\ bill[i].status = "draft"
    BY <1>7 DEF Pay, InScope
  <2> QED
    BY <1>3, <2>1 DEF SameAmounts
<1>8. CASE FinalizeFails(i)
  <2>1. bill'[i] = [bill[i] EXCEPT !.status = "draft", !.batch = None]
    BY <1>0, <1>8 DEF FinalizeFails
  <2>2. /\ SameAmounts(bill[i], [bill[i] EXCEPT !.status = "draft", !.batch = None])
        /\ [bill[i] EXCEPT !.status = "draft", !.batch = None].status = "draft"
    BY <1>0, BatchAmounts
  <2>3. SameAmounts(bill[i], bill'[i]) /\ bill'[i].status = "draft"
    BY <2>1, <2>2
  <2> QED
    BY <1>3, <2>3
<1> QED
  BY <1>4, <1>5, <1>6, <1>7, <1>8

LEMMA BeginsMoney ==
  ASSUME MInv, NEW i \in Sold, FinalizeBegins(i)
  PROVE  Money' /\ Account'
<1>0. /\ IsBill(bill[i]) /\ Amounts(bill[i]) /\ DOMAIN bill = Sold
      /\ Balanced(bill[i], Received(i), i \in Known)
  BY DEF MInv, DInv, Shapes, Money
<1>1. /\ bill[i].status = "draft" /\ UNCHANGED <<shift, batch, receivable, change, cash>>
      /\ Received(i) < bill[i].due => i \in Known
      /\ bill' = [bill EXCEPT ![i].status = "finalizing", ![i].batch = BatchOf(i)]
  BY DEF FinalizeBegins, InScope, SaleStep
<1>2. bill'[i] = [bill[i] EXCEPT !.status = "finalizing", !.batch = BatchOf(i)] /\ Alone(i)
  BY <1>0, <1>1 DEF Alone
<1>3. /\ SameAmounts(bill[i], [bill[i] EXCEPT !.status = "finalizing", !.batch = BatchOf(i)])
      /\ [bill[i] EXCEPT !.status = "finalizing", !.batch = BatchOf(i)].status = "finalizing"
  BY <1>0, BatchAmounts
<1>4. SameAmounts(bill[i], bill'[i]) /\ bill'[i].status = "finalizing"
  BY <1>2, <1>3
<1>5. Received(i)' = Received(i)
  BY <1>1 DEF Received
<1>6. Received(i) \in Int /\ bill[i].due \in Nat
  BY <1>0, ReceivedType DEF MInv, DInv, Amounts
<1>7. Amounts(bill'[i])
  BY <1>0, <1>4 DEF Amounts, SameAmounts
<1>8. Balanced(bill'[i], Received(i)', i \in Known)
  BY <1>0, <1>1, <1>4, <1>5, <1>6 DEF Balanced, SameAmounts
<1> QED
  BY <1>1, <1>2, <1>4, <1>7, <1>8, DraftMoney

(* The debt of all the customer's sales, from the ledger and what it lacks.    *)
LEMMA OwesAccount ==
  ASSUME MInv
  PROVE  /\ Owes = Over(SumFunctionOnSet(OnAccount, Known), 0)
         /\ SumFunctionOnSet(OnAccount, Known) \in Int
<1> DEFINE U == [i \in Known |-> IF i \in Unbooked THEN Credit(i) ELSE 0]
           C == [i \in Sold |-> Over(Credit(i), 0)]
<1>1. \A i \in Known : /\ Credit(i) \in Int /\ InBooks(i) \in Int /\ Owing(i) \in Int
  BY OwingType, KnownFinite DEF MInv, DInv
<1>2. Unbooked \in SUBSET Known /\ Unbooked \in SUBSET Sold
  BY KnownFinite DEF Unbooked
<1>3. \A i \in Unbooked : U[i] = C[i]
  <2>1. SUFFICES ASSUME NEW i \in Unbooked PROVE Credit(i) = Over(Credit(i), 0)
    BY <1>2
  <2>2. i \in Known /\ i \in Sold /\ bill[i].status = "final"
    BY <1>2 DEF Unbooked
  <2>3. Received(i) <= bill[i].due /\ Received(i) \in Nat /\ bill[i].due \in Nat
    BY <2>2 DEF MInv, Money, Balanced, Amounts
  <2> QED
    BY <2>3 DEF Credit, Over
<1>4. \A i \in Known : OnAccount[i] = OnBooks[i] + U[i]
  <2>1. SUFFICES ASSUME NEW i \in Known PROVE Owing(i) = InBooks(i) + U[i]
    BY DEF OnAccount, OnBooks
  <2>2. i \in Sold /\ Credit(i) \in Int /\ bill[i].settled \in Nat
        /\ (bill[i].status # "final" => bill[i].settled = 0)
    BY <1>1, KnownFinite DEF MInv, Money, Amounts, Balanced
  <2> QED
    BY <2>2 DEF Owing, InBooks, Posted, Unbooked
<1>5. \A i \in Known : OnBooks[i] \in Int /\ OnAccount[i] \in Int /\ U[i] \in Int
  BY <1>1 DEF OnBooks, OnAccount
<1>6. \A i \in Known \ Unbooked : U[i] = 0
  OBVIOUS
<1>7. Owes = Over(receivable + SumFunctionOnSet(C, Unbooked), 0)
  BY DEF Owes
<1> HIDE DEF U, C
<1>8. SumFunctionOnSet(OnAccount, Known)
        = SumFunctionOnSet(OnBooks, Known) + SumFunctionOnSet(U, Known)
  BY <1>4, <1>5, KnownFinite, SumPlus
<1>9. SumFunctionOnSet(U, Known) = SumFunctionOnSet(U, Unbooked)
  BY <1>2, <1>5, <1>6, KnownFinite, SumOfRest
<1>10. SumFunctionOnSet(U, Unbooked) = SumFunctionOnSet(C, Unbooked)
  <2>1. IsFiniteSet(Unbooked)
    BY <1>2, KnownFinite, FS_Subset
  <2> QED
    BY <1>3, <2>1, SumSame
<1>11. SumFunctionOnSet(OnAccount, Known) \in Int
  BY <1>5, KnownFinite, SumType
<1> QED
  BY <1>7, <1>8, <1>9, <1>10, <1>11 DEF MInv, Account

LEMMA CommitMoney ==
  ASSUME MInv, NEW i \in Sold, FinalizeCommits(i)
  PROVE  Money' /\ Account'
<1>0. /\ IsBill(bill[i]) /\ Amounts(bill[i]) /\ DOMAIN bill = Sold /\ DOMAIN change = Sold
      /\ Balanced(bill[i], Received(i), i \in Known) /\ DOMAIN batch = Batches
      /\ bill[i].due \in Nat
  BY DEF MInv, DInv, Shapes, Money, Amounts
<1>1. /\ bill[i].status = "finalizing" /\ UNCHANGED <<shift, cash, receivable>>
      /\ Credit(i) > 0 => Owes + Credit(i) <= Limit
      /\ bill' = [bill EXCEPT ![i].status = "final"]
      /\ change' = [change EXCEPT ![i] = Over(Received(i), bill[i].due)]
      /\ batch' = [batch EXCEPT ![bill[i].batch] = "open"]
  BY DEF FinalizeCommits
<1>2. change[i] = 0 /\ bill[i].batch \in Batches /\ batch[bill[i].batch] # "posted"
  BY <1>1 DEF MInv, DInv, Fresh, Held
<1>3. SameAmounts(bill[i], bill'[i]) /\ bill'[i].status = "final" /\ bill'[i].batch = bill[i].batch
  <2>1. bill'[i] = [bill[i] EXCEPT !.status = "final"]
    BY <1>0, <1>1
  <2>2. /\ SameAmounts(bill[i], [bill[i] EXCEPT !.status = "final"])
        /\ [bill[i] EXCEPT !.status = "final"].status = "final"
        /\ [bill[i] EXCEPT !.status = "final"].batch = bill[i].batch
    BY <1>0, StatusAmounts
  <2> QED
    BY <2>1, <2>2
<1>4. Alone(i)
  BY <1>0, <1>1 DEF Alone
<1>5. \A c \in Batches : batch'[c] = "posted" <=> batch[c] = "posted"
  BY <1>0, <1>1, <1>2
<1>6. /\ Received(i) \in Nat /\ change'[i] \in Nat
      /\ Received(i)' = Received(i) - Over(Received(i), bill[i].due)
  <2>1. SumFunctionOnSet(cash[i], Shifts) \in Nat
        /\ Received(i) = SumFunctionOnSet(cash[i], Shifts) - 0
    BY <1>2, ReceivedType DEF MInv, DInv
  <2>2. change'[i] = Over(Received(i), bill[i].due)
    BY <1>0, <1>1
  <2>3. Received(i)' = SumFunctionOnSet(cash[i], Shifts) - change'[i]
    BY <1>1 DEF Received
  <2> QED
    BY <1>0, <2>1, <2>2, <2>3 DEF Over
<1>7. /\ Received(i)' \in Nat /\ Received(i)' <= bill[i].due
      /\ Received(i) >= bill[i].due => Received(i)' = bill[i].due
      /\ Received(i) < bill[i].due => Received(i)' = Received(i)
  BY <1>0, <1>6 DEF Over
<1>8. Amounts(bill'[i])
  BY <1>0, <1>3 DEF Amounts, SameAmounts
<1>9. Balanced(bill'[i], Received(i)', i \in Known)
  <2>1. bill'[i].back = 0 /\ bill'[i].refunded = 0 /\ bill'[i].settled = 0 /\ bill'[i].credit = 0
        /\ bill'[i].due = bill[i].due
    BY <1>0, <1>1, <1>3 DEF Balanced, SameAmounts
  <2>2. i \notin Known => bill[i].due <= Received(i)
    BY <1>0, <1>1 DEF Balanced
  <2>3. i \notin Known => Received(i)' = bill[i].due
    BY <1>6, <1>7, <2>2
  <2> QED
    BY <1>3, <1>7, <2>1, <2>3, <1>0 DEF Balanced
<1>10. Money'
  BY <1>4, <1>6, <1>8, <1>9, OneMoney DEF MInv
<1>11. \A j \in Sold \ {i} : InBooks(j)' = InBooks(j) /\ Owing(j)' = Owing(j)
  <2>1. \A j \in Sold : bill[j].status = "final" => bill[j].batch \in Batches
    BY DEF MInv, Account, Placed
  <2> QED
    BY <1>4, <1>5, <2>1, LeftAlone DEF Alone
<1>12. /\ InBooks(i) = 0 /\ Owing(i) = 0 /\ InBooks(i)' = 0
       /\ Owing(i)' = bill[i].due - Received(i)'
  <2>1. InBooks(i) = 0 /\ Owing(i) = 0
    BY <1>1, NotFinal DEF MInv
  <2>2. bill'[i].settled = 0 /\ bill'[i].due = bill[i].due
    BY <1>0, <1>1, <1>3 DEF Balanced, SameAmounts
  <2>3. ~Posted(i)'
    BY <1>2, <1>3, <1>5 DEF Posted
  <2>4. InBooks(i)' = 0
    BY <2>2, <2>3 DEF InBooks
  <2>5. Credit(i)' = bill[i].due - Received(i)'
    BY <2>2 DEF Credit
  <2>6. Owing(i)' = bill[i].due - Received(i)' - 0
    BY <1>3, <2>2, <2>5 DEF Owing
  <2>7. bill[i].due - Received(i)' - 0 = bill[i].due - Received(i)'
    BY <1>0, <1>7
  <2> QED
    BY <2>1, <2>4, <2>6, <2>7
<1>13. SumFunctionOnSet(OnBooks, Known)' = SumFunctionOnSet(OnBooks, Known)
  <2>1. \A j \in Known : InBooks(j)' = InBooks(j)
    BY <1>11, <1>12, KnownFinite
  <2> QED
    BY <2>1, SameBooks
<1>14. SumFunctionOnSet(OnAccount, Known)' <= Limit
  <2>0. SumFunctionOnSet(OnAccount, Known) \in Int /\ SumFunctionOnSet(OnAccount, Known) <= Limit
        /\ Limit \in Nat
    BY OwesAccount, CashDayConstants DEF MInv, Account
  <2>1. CASE i \notin Known \/ Received(i) >= bill[i].due
    <3>1. i \in Known => Owing(i)' = 0
      BY <1>0, <1>7, <1>12, <2>1
    <3>2. \A j \in Known : Owing(j)' = Owing(j)
      BY <1>11, <1>12, <3>1, KnownFinite
    <3> QED
      BY <2>0, <3>2, SameAccount
  <2>2. CASE i \in Known /\ Received(i) < bill[i].due
    <3>1. Owing(i)' = Credit(i) /\ Credit(i) = bill[i].due - Received(i) /\ Credit(i) > 0
          /\ Credit(i) \in Nat
      BY <1>0, <1>6, <1>7, <1>12, <2>2 DEF Credit
    <3> DEFINE F == OnAccount
               G == [j \in Known |-> Owing(j)']
    <3>2. \A j \in Known : F[j] \in Int
      BY OwingType, KnownFinite DEF OnAccount, MInv, DInv
    <3>3. \A j \in Known \ {i} : F[j] = G[j]
      BY <1>11, KnownFinite DEF OnAccount
    <3>4. F[i] = 0 /\ G[i] = Credit(i)
      BY <1>12, <2>2, <3>1 DEF OnAccount
    <3>5. \A j \in Known : F[j] \in Int /\ G[j] \in Int
      BY <3>1, <3>2, <3>3, <3>4
    <3>6. SumFunctionOnSet(OnAccount, Known)' = SumFunctionOnSet(G, Known)
      BY DEF OnAccount
    <3> HIDE DEF F, G
    <3>7. SumFunctionOnSet(G, Known) = SumFunctionOnSet(F, Known) - F[i] + G[i]
      BY <2>2, <3>3, <3>5, KnownFinite, SumChange
    <3>8. Owes = Over(SumFunctionOnSet(OnAccount, Known), 0) /\ Owes + Credit(i) <= Limit
      BY <1>1, <3>1, OwesAccount
    <3>9. SumFunctionOnSet(OnAccount, Known) + Credit(i) <= Limit
      BY <2>0, <3>1, <3>8 DEF Over
    <3> QED
      BY <2>0, <3>1, <3>4, <3>6, <3>7, <3>9 DEF F
  <2> QED
    BY <1>0, <1>6, <2>1, <2>2
<1>15. Placed' /\ PostedLast'
  <2>1. Placed'
    BY <1>2, <1>3, <1>4 DEF MInv, Account, Placed, Alone
  <2>2. PostedLast'
    BY <1>1, <1>5 DEF MInv, Account, PostedLast, Batches
  <2> QED
    BY <2>1, <2>2
<1> QED
  BY <1>1, <1>10, <1>13, <1>14, <1>15 DEF MInv, Account

(* Posting a batch moves the debt of its sales into the ledger. *)
LEMMA PostMoney ==
  ASSUME MInv, NEW b \in Batches, PostBatch(b), batch[b] # "posted",
         UNCHANGED <<bill, cash, change>>,
         PostedLast'
  PROVE  Money' /\ Account'
<1>0. DOMAIN batch = Batches
  BY DEF MInv, DInv, Shapes
<1>1. /\ batch' = [batch EXCEPT ![b] = "posted"]
      /\ receivable' = receivable + SumFunctionOnSet([i \in Sold |-> Credit(i)], InBatch(b) \cap Known)
  BY DEF PostBatch
<1>2. \A i \in Sold : Received(i)' = Received(i) /\ Credit(i)' = Credit(i)
  BY DEF Received, Credit
<1>3. Money'
  BY <1>2 DEF MInv, Money
<1>4. Placed'
  BY DEF MInv, Account, Placed
<1> DEFINE C == [i \in Sold |-> Credit(i)]
           T == InBatch(b) \cap Known
           D == [i \in Known |-> IF i \in T THEN Credit(i) ELSE 0]
           G == [i \in Known |-> InBooks(i)']
<1>5. \A i \in Known : Credit(i) \in Int /\ InBooks(i) \in Int /\ bill[i].settled \in Nat
  BY OwingType, KnownFinite DEF MInv, DInv, Money, Amounts
<1>6. \A i \in Known : OnBooks[i] \in Int /\ D[i] \in Int /\ G[i] = OnBooks[i] + D[i]
  <2>1. SUFFICES ASSUME NEW i \in Known
                 PROVE  /\ OnBooks[i] \in Int /\ D[i] \in Int
                        /\ InBooks(i)' = InBooks(i) + D[i]
    BY DEF OnBooks
  <2>2. i \in Sold /\ Credit(i)' = Credit(i)
    BY <1>2, KnownFinite
  <2>3. CASE i \in T
    <3>1. ~Posted(i) /\ Posted(i)'
      BY <1>0, <1>1, <2>3 DEF Posted, InBatch
    <3>2. InBooks(i)' = Credit(i) - bill[i].settled /\ InBooks(i) = 0 - bill[i].settled
      BY <2>2, <3>1 DEF InBooks
    <3> QED
      BY <1>5, <2>3, <3>2 DEF OnBooks
  <2>4. CASE i \notin T
    <3>1. bill[i].status = "final" => bill[i].batch \in Batches /\ bill[i].batch # b
      BY <2>2, <2>4 DEF MInv, Account, Placed, InBatch
    <3>2. Posted(i)' <=> Posted(i)
      BY <1>0, <1>1, <3>1 DEF Posted
    <3>3. InBooks(i)' = InBooks(i)
      BY <2>2, <3>2 DEF InBooks
    <3> QED
      BY <1>5, <2>4, <3>3 DEF OnBooks
  <2> QED
    BY <2>3, <2>4
<1>7. /\ T \in SUBSET Known /\ \A i \in Known \ T : D[i] = 0
      /\ \A i \in T : D[i] = C[i]
  BY KnownFinite
<1>8. /\ SumFunctionOnSet(OnBooks, Known)' = SumFunctionOnSet(G, Known)
      /\ receivable' = receivable + SumFunctionOnSet(C, T)
  BY <1>1 DEF OnBooks
<1>9. SumFunctionOnSet(OnAccount, Known)' = SumFunctionOnSet(OnAccount, Known)
  <2>1. \A i \in Known : Owing(i)' = Owing(i)
    BY <1>2, KnownFinite DEF Owing
  <2> QED
    BY <2>1, SameAccount
<1> HIDE DEF C, T, D, G
<1>10. SumFunctionOnSet(G, Known) = SumFunctionOnSet(OnBooks, Known) + SumFunctionOnSet(D, Known)
  BY <1>6, KnownFinite, SumPlus
<1>11. SumFunctionOnSet(D, Known) = SumFunctionOnSet(D, T)
  BY <1>6, <1>7, KnownFinite, SumOfRest
<1>12. SumFunctionOnSet(D, T) = SumFunctionOnSet(C, T)
  <2>1. IsFiniteSet(T)
    BY <1>7, KnownFinite, FS_Subset
  <2> QED
    BY <1>7, <2>1, SumSame
<1>13. receivable' = SumFunctionOnSet(OnBooks, Known)'
  BY <1>8, <1>10, <1>11, <1>12 DEF MInv, Account
<1> QED
  BY <1>3, <1>4, <1>9, <1>13 DEF MInv, Account

LEMMA BackAmounts ==
  ASSUME NEW r, IsBill(r), NEW v, NEW w, NEW x, NEW y
  PROVE  LET q == [r EXCEPT !.back = @ + v, !.refunded = @ + w, !.settled = @ + x, !.credit = @ + y]
         IN  /\ q.status = r.status /\ q.batch = r.batch /\ q.due = r.due
             /\ q.back = r.back + v /\ q.refunded = r.refunded + w
             /\ q.settled = r.settled + x /\ q.credit = r.credit + y
BY DEF IsBill, Fields

LEMMA GivenBack ==
  ASSUME MInv, NEW i \in Sold, NEW n \in Nat, NEW f \in Nat, NEW s, s = Settles(i, n - f),
         bill[i].status = "final", bill[i].back + n <= bill[i].due,
         f <= n, f <= Received(i) - bill[i].refunded,
         bill' = [bill EXCEPT ![i].back = @ + n, ![i].refunded = @ + f,
                              ![i].settled = @ + s, ![i].credit = @ + (n - f - s)],
         receivable' = receivable - s,
         UNCHANGED <<shift, batch, cash, change>>
  PROVE  Money' /\ Account'
<1> DEFINE m == Received(i)
           q == bill'[i]
<1>0. i \in Sold /\ n \in Nat /\ f \in Nat
  OBVIOUS
<1>1. /\ bill[i].status = "final" /\ bill[i].back + n <= bill[i].due
      /\ f <= n /\ f <= m - bill[i].refunded
      /\ bill' = [bill EXCEPT ![i].back = @ + n, ![i].refunded = @ + f,
                              ![i].settled = @ + s, ![i].credit = @ + (n - f - s)]
      /\ receivable' = receivable - s
      /\ UNCHANGED <<shift, batch, cash, change>>
  OBVIOUS
<1>2. /\ IsBill(bill[i]) /\ Amounts(bill[i]) /\ DOMAIN bill = Sold
      /\ Balanced(bill[i], m, i \in Known) /\ m \in Int
  BY <1>0, ReceivedType DEF MInv, DInv, Shapes, Money
<1>3. /\ q.status = bill[i].status /\ q.batch = bill[i].batch /\ q.due = bill[i].due
      /\ q.back = bill[i].back + n /\ q.refunded = bill[i].refunded + f
      /\ q.settled = bill[i].settled + s /\ q.credit = bill[i].credit + (n - f - s)
  <2>1. q = [bill[i] EXCEPT !.back = @ + n, !.refunded = @ + f, !.settled = @ + s,
                            !.credit = @ + (n - f - s)]
    BY <1>0, <1>1, <1>2
  <2> DEFINE x == bill[i]
             k == n - f - s
  <2>2. IsBill(x)
    BY <1>2
  <2>3. q = [x EXCEPT !.back = @ + n, !.refunded = @ + f, !.settled = @ + s, !.credit = @ + k]
    BY <2>1
  <2> HIDE DEF q, x, k
  <2>4. /\ q.status = x.status /\ q.batch = x.batch /\ q.due = x.due
        /\ q.back = x.back + n /\ q.refunded = x.refunded + f
        /\ q.settled = x.settled + s /\ q.credit = x.credit + k
    BY <2>2, <2>3, BackAmounts
  <2> QED
    BY <2>4 DEF x, k
<1>4. Alone(i)
  BY <1>0, <1>1, <1>2 DEF Alone
<1>5. s = (IF n - f < Debt(i) THEN n - f ELSE Debt(i))
      /\ Debt(i) = Over(bill[i].due + bill[i].refunded, bill[i].back + m)
  BY DEF Settles, Debt
<1>6. s \in Nat /\ s <= n - f
  <2>1. bill[i].due + bill[i].refunded \in Nat /\ bill[i].back + m \in Int
    BY <1>2 DEF Amounts
  <2>2. Debt(i) \in Nat
    BY <1>5, <2>1 DEF Over
  <2> QED
    BY <1>0, <1>1, <1>5, <2>2
<1>7. Amounts(q)
  <2>1. /\ bill[i].due \in Nat /\ bill[i].back \in Nat /\ bill[i].refunded \in Nat
        /\ bill[i].settled \in Nat /\ bill[i].credit \in Nat
    BY <1>2 DEF Amounts
  <2>2. n \in Nat /\ f \in Nat /\ n - f - s \in Nat
    BY <1>0, <1>1, <1>6
  <2>3. q.due = bill[i].due /\ q.back = bill[i].back + n /\ q.refunded = bill[i].refunded + f
    BY <1>3
  <2>4. q.settled = bill[i].settled + s /\ q.credit = bill[i].credit + (n - f - s)
    BY <1>3
  <2> HIDE DEF q
  <2>5. q.due \in Nat /\ q.back \in Nat /\ q.refunded \in Nat
    BY <2>1, <2>2, <2>3
  <2>6. q.settled \in Nat /\ q.credit \in Nat
    BY <1>6, <2>1, <2>2, <2>4
  <2> QED
    BY <2>5, <2>6 DEF Amounts
<1>8. Balanced(q, m, i \in Known) /\ (i \notin Known => s = 0)
  <2> DEFINE x == bill[i]
             debt == Debt(i)
             known == i \in Known
  <2>1. /\ known \in BOOLEAN /\ n \in Nat /\ f \in Nat
        /\ Amounts(x) /\ x.status = "final" /\ Balanced(x, m, known)
        /\ f <= n /\ f <= m - x.refunded /\ x.back + n <= x.due
        /\ debt = Over(x.due + x.refunded, x.back + m)
        /\ s = IF n - f < debt THEN n - f ELSE debt
        /\ Amounts(q) /\ q.status = "final" /\ q.due = x.due /\ q.back = x.back + n
        /\ q.refunded = x.refunded + f /\ q.settled = x.settled + s
        /\ q.credit = x.credit + (n - f - s)
    <3>1. known \in BOOLEAN /\ n \in Nat /\ f \in Nat
      OBVIOUS
    <3>2. /\ Amounts(x) /\ x.status = "final" /\ Balanced(x, m, known)
          /\ f <= n /\ f <= m - x.refunded /\ x.back + n <= x.due
      BY <1>0, <1>1, <1>2
    <3>3. /\ debt = Over(x.due + x.refunded, x.back + m)
          /\ s = IF n - f < debt THEN n - f ELSE debt
      BY <1>5
    <3>4. q.status = "final"
      BY <1>3, <3>2
    <3> QED
      BY <1>3, <1>7, <3>1, <3>2, <3>3, <3>4
  <2>2. known => i \in Known
    OBVIOUS
  <2>3. ~known <=> i \notin Known
    OBVIOUS
  <2> HIDE DEF m, q, x, debt, known
  <2>4. Balanced(q, m, known) /\ (~known => s = 0)
    BY <2>1, ReturnBalances
  <2> QED
    BY <2>3, <2>4 DEF known
<1>9. Received(i)' = m
  BY <1>1 DEF Received
<1>10. Money'
  <2>1. change'[i] \in Nat
    BY <1>0, <1>1 DEF MInv, Money
  <2> QED
    BY <1>0, <1>4, <1>7, <1>8, <1>9, <2>1, OneMoney DEF MInv
<1>11. \A j \in Sold \ {i} : InBooks(j)' = InBooks(j) /\ Owing(j)' = Owing(j)
  BY <1>1, <1>4, LeftAlone DEF Alone
<1>12. InBooks(i)' = InBooks(i) - s /\ Owing(i)' = Owing(i) - s
  <2>1. Credit(i)' = Credit(i) /\ Credit(i) \in Int
    <3>1. Credit(i)' = Credit(i)
      BY <1>3, <1>9 DEF Credit
    <3>2. Credit(i) \in Int
      BY <1>0, OwingType DEF MInv, DInv
    <3> QED
      BY <3>1, <3>2
  <2>2. Posted(i)' <=> Posted(i)
    BY <1>1, <1>3 DEF Posted
  <2>3. bill[i].settled \in Nat /\ q.settled = bill[i].settled + s /\ q.status = "final"
    BY <1>1, <1>2, <1>3 DEF Amounts
  <2> QED
    BY <1>1, <1>6, <2>1, <2>2, <2>3 DEF InBooks, Owing
<1>13. Placed' /\ PostedLast'
  <2>1. Placed'
    BY <1>3, <1>4 DEF MInv, Account, Placed, Alone
  <2> QED
    BY <1>1, <2>1 DEF MInv, Account, PostedLast
<1>14. /\ receivable' = SumFunctionOnSet(OnBooks, Known)'
       /\ SumFunctionOnSet(OnAccount, Known)' <= Limit
  <2>0. SumFunctionOnSet(OnAccount, Known) \in Int /\ SumFunctionOnSet(OnAccount, Known) <= Limit
        /\ Limit \in Nat /\ receivable = SumFunctionOnSet(OnBooks, Known)
        /\ \A j \in Known : InBooks(j) \in Int /\ Owing(j) \in Int
    BY OwesAccount, OwingType, KnownFinite, CashDayConstants DEF MInv, DInv, Account
  <2>1. CASE i \notin Known
    <3>1. \A j \in Known : InBooks(j)' = InBooks(j) /\ Owing(j)' = Owing(j)
      BY <1>11, <2>1, KnownFinite
    <3>2. /\ SumFunctionOnSet(OnBooks, Known)' = SumFunctionOnSet(OnBooks, Known)
          /\ SumFunctionOnSet(OnAccount, Known)' = SumFunctionOnSet(OnAccount, Known)
      BY <3>1, SameBooks, SameAccount
    <3>3. SumFunctionOnSet(OnBooks, Known) \in Int
      <4>1. \A j \in Known : OnBooks[j] \in Int
        BY <2>0 DEF OnBooks
      <4> QED
        BY <4>1, KnownFinite, SumType
    <3>4. receivable' = receivable
      BY <1>1, <1>8, <2>0, <2>1, <3>3
    <3> QED
      BY <2>0, <3>2, <3>4
  <2>2. CASE i \in Known
    <3> DEFINE B == OnBooks
               A == OnAccount
               G == [j \in Known |-> InBooks(j)']
               H == [j \in Known |-> Owing(j)']
    <3>1. \A j \in Known : B[j] \in Int /\ A[j] \in Int
      BY <2>0 DEF OnBooks, OnAccount
    <3>2. \A j \in Known \ {i} : B[j] = G[j] /\ A[j] = H[j]
      BY <1>11, KnownFinite DEF OnBooks, OnAccount
    <3>3. G[i] = B[i] - s /\ H[i] = A[i] - s
      BY <1>12, <2>2 DEF OnBooks, OnAccount
    <3>4. \A j \in Known : B[j] \in Int /\ A[j] \in Int /\ G[j] \in Int /\ H[j] \in Int
      <4>1. G[i] \in Int /\ H[i] \in Int
        BY <1>6, <2>2, <3>1, <3>3
      <4> QED
        BY <3>1, <3>2, <4>1
    <3>5. /\ SumFunctionOnSet(OnBooks, Known)' = SumFunctionOnSet(G, Known)
          /\ SumFunctionOnSet(OnAccount, Known)' = SumFunctionOnSet(H, Known)
      BY DEF OnBooks, OnAccount
    <3>6. i \in Known
      BY <2>2
    <3> HIDE DEF B, A, G, H
    <3>7. SumFunctionOnSet(G, Known) = SumFunctionOnSet(B, Known) - B[i] + G[i]
      BY <3>2, <3>4, <3>6, KnownFinite, SumChange
    <3>8. SumFunctionOnSet(H, Known) = SumFunctionOnSet(A, Known) - A[i] + H[i]
      BY <3>2, <3>4, <3>6, KnownFinite, SumChange
    <3>9. SumFunctionOnSet(B, Known) \in Int /\ SumFunctionOnSet(A, Known) \in Int
      BY <3>4, KnownFinite, SumType
    <3>10. /\ SumFunctionOnSet(G, Known) = SumFunctionOnSet(B, Known) - s
           /\ SumFunctionOnSet(H, Known) = SumFunctionOnSet(A, Known) - s
      BY <1>6, <3>1, <3>3, <3>6, <3>7, <3>8, <3>9
    <3>11. SumFunctionOnSet(A, Known) <= Limit /\ receivable = SumFunctionOnSet(B, Known)
           /\ receivable' = receivable - s
      BY <1>1, <2>0 DEF A, B
    <3> QED
      BY <1>6, <2>0, <3>5, <3>9, <3>10, <3>11
  <2> QED
    BY <2>1, <2>2
<1> QED
  BY <1>10, <1>13, <1>14 DEF Account


LEMMA ReturnMoney ==
  ASSUME MInv, NEW r \in Returns, PostReturn(r)
  PROVE  Money' /\ Account'
<1>1. /\ ret[r].of \in Sold /\ ret[r].units \in Nat /\ ret[r].refund \in Nat
  BY DEF MInv, DInv, Refunds, PostReturn, Shapes, RetRecords
<1>2. PICK i \in Sold, n \in Nat, f \in Nat : i = ret[r].of /\ n = ret[r].units /\ f = ret[r].refund
  BY <1>1
<1>3. PICK s : s = Settles(i, n - f)
  OBVIOUS
<1>4. /\ bill[i].status = "final" /\ bill[i].back + n <= bill[i].due
      /\ f <= n /\ f <= Received(i) - bill[i].refunded
      /\ bill' = [bill EXCEPT ![i].back = @ + n, ![i].refunded = @ + f,
                              ![i].settled = @ + s, ![i].credit = @ + (n - f - s)]
      /\ receivable' = receivable - s
      /\ UNCHANGED <<shift, batch, cash, change>>
  BY <1>2, <1>3 DEF PostReturn
<1> QED
  BY <1>2, <1>3, <1>4, GivenBack

(* The other steps of a drawer, of a return and of the calendar move no money. *)
LEMMA QuietMoney ==
  ASSUME MInv, UNCHANGED <<batch, bill, cash, change, receivable>>,
         \A s \in Shifts : shift[s] = "closed" => shift'[s] = "closed"
  PROVE  Money' /\ Account'
<1>1. \A i \in Sold : Received(i)' = Received(i)
  BY DEF Received
<1>2. Money'
  BY <1>1 DEF MInv, Money
<1>3. \A i \in Known : InBooks(i)' = InBooks(i) /\ Owing(i)' = Owing(i)
  BY <1>1, KnownFinite DEF InBooks, Owing, Posted, Credit
<1>4. /\ SumFunctionOnSet(OnBooks, Known)' = SumFunctionOnSet(OnBooks, Known)
      /\ SumFunctionOnSet(OnAccount, Known)' = SumFunctionOnSet(OnAccount, Known)
  BY <1>3, SameBooks, SameAccount
<1>5. Placed' /\ PostedLast'
  BY DEF MInv, Account, Placed, PostedLast
<1> QED
  BY <1>2, <1>4, <1>5 DEF MInv, Account

LEMMA ShiftMoney ==
  ASSUME MInv, NEW s \in Shifts, ShiftSteps(s)
  PROVE  Money' /\ Account'
<1>0. DOMAIN shift = Shifts /\ DOMAIN batch = Batches
  BY DEF MInv, DInv, Shapes
<1>1. CASE OpenShift(s) \/ CloseSums(s) \/ CloseRefused(s)
  <2>1. UNCHANGED <<batch, bill, cash, change, receivable>>
    BY <1>1 DEF OpenShift, CloseSums, CloseRefused
  <2>2. shift[s] # "closed" /\ \E x : shift' = [shift EXCEPT ![s] = x]
    BY <1>1 DEF OpenShift, CloseSums, CloseRefused
  <2>3. \A t \in Shifts : shift[t] = "closed" => shift'[t] = "closed"
    BY <1>0, <2>2
  <2> QED
    BY <2>1, <2>3, QuietMoney
<1>2. CASE CloseEnds(s)
  <2>1. /\ shift[s] = "closing" /\ shift' = [shift EXCEPT ![s] = "closed"]
        /\ PostBatch(s) /\ UNCHANGED <<bill, cash, change>>
    BY <1>2 DEF CloseEnds
  <2>2. s \in Batches /\ batch[s] # "posted"
    BY <2>1 DEF MInv, Account, PostedLast
  <2>3. PostedLast'
    <3>1. SUFFICES ASSUME NEW t \in Shifts, batch'[t] = "posted" PROVE shift'[t] = "closed"
      BY DEF PostedLast
    <3>2. CASE t = s
      BY <1>0, <2>1, <3>2
    <3>3. CASE t # s
      BY <1>0, <2>1, <3>1, <3>3 DEF PostBatch, MInv, Account, PostedLast
    <3> QED
      BY <3>2, <3>3
  <2> QED
    BY <2>1, <2>2, <2>3, PostMoney
<1> QED
  BY <1>1, <1>2 DEF ShiftSteps

LEMMA DayMoney ==
  ASSUME MInv, NEW d \in Days, CloseDay(d)
  PROVE  Money' /\ Account'
<1>0. DOMAIN batch = Batches
  BY DEF MInv, DInv, Shapes
<1>1. /\ batch[d] = "open" /\ PostBatch(d) /\ UNCHANGED <<shift, bill, cash, change>>
  BY DEF CloseDay, DayIsFree
<1>2. PostedLast'
  <2>1. SUFFICES ASSUME NEW t \in Shifts, batch'[t] = "posted" PROVE shift'[t] = "closed"
    BY DEF PostedLast
  <2>2. t # d
    BY CashDayConstants
  <2>3. batch'[t] = batch[t]
    BY <1>0, <1>1, <2>2 DEF PostBatch
  <2> QED
    BY <1>1, <2>1, <2>3 DEF MInv, Account, PostedLast
<1> QED
  BY <1>1, <1>2, PostMoney

LEMMA NothingOwed ==
  ASSUME NEW F, NEW S, IsFiniteSet(S), \A x \in S : F[x] = 0
  PROVE  SumFunctionOnSet(F, S) = 0
<1>1. SumFunctionOnSet(F, S) = SumFunctionOnSet(F, {})
  BY SumOfRest
<1> QED
  BY <1>1, SumEmpty

LEMMA InitMInv == CashDayInit => MInv
<1> SUFFICES ASSUME CashDayInit PROVE MInv
  OBVIOUS
<1>1. DInv
  BY InitDInv
<1>2. \A i \in Sold : bill[i] = NoBill /\ change[i] = 0
  BY DEF CashDayInit
<1>3. Amounts(NoBill) /\ NoBill.status = "none" /\ NoBill.settled = 0
  BY DEF Amounts, NoBill
<1>4. ASSUME NEW m, NEW known PROVE Balanced(NoBill, m, known)
  BY DEF Balanced, NoBill
<1>5. Money
  BY <1>2, <1>3, <1>4 DEF Money
<1>6. Placed /\ PostedLast
  BY <1>2, <1>3 DEF Placed, PostedLast, CashDayInit
<1>7. \A i \in Known : OnBooks[i] = 0 /\ OnAccount[i] = 0
  <2>1. \A i \in Known : bill[i].status = "none" /\ bill[i].settled = 0
    BY <1>2, <1>3, KnownFinite
  <2> QED
    BY <2>1 DEF OnBooks, OnAccount, InBooks, Owing, Posted
<1>8. SumFunctionOnSet(OnBooks, Known) = 0 /\ SumFunctionOnSet(OnAccount, Known) = 0
  BY <1>7, KnownFinite, NothingOwed
<1>9. receivable = 0 /\ 0 <= Limit
  BY CashDayConstants DEF CashDayInit
<1> QED
  BY <1>1, <1>5, <1>6, <1>8, <1>9 DEF MInv, Account

LEMMA NextMInv ==
  ASSUME MInv, [CashDayNext]_dvars
  PROVE  MInv'
<1>0. DInv'
  BY NextDInv DEF MInv
<1>1. ASSUME NEW s \in Shifts, ShiftSteps(s)
      PROVE  Money' /\ Account'
  BY <1>1, ShiftMoney
<1>2. ASSUME NEW i \in Sold, BillSteps(i)
      PROVE  Money' /\ Account'
  BY <1>2, DraftSteps, BeginsMoney, CommitMoney DEF BillSteps
<1>3. ASSUME NEW r \in Returns, ReturnSteps(r)
      PROVE  Money' /\ Account'
  <2>1. CASE PostReturn(r)
    BY <2>1, ReturnMoney
  <2>2. CASE UNCHANGED <<shift, counted, ledger, sales, today>>
    BY <2>2, QuietMoney
  <2> QED
    BY <1>3, <2>1, <2>2 DEF ReturnSteps, AskReturn
<1>4. ASSUME NEW d \in Days, CloseDay(d)
      PROVE  Money' /\ Account'
  BY <1>4, DayMoney
<1>5. ASSUME NextDay \/ UNCHANGED dvars
      PROVE  Money' /\ Account'
  <2>1. UNCHANGED <<shift, batch, bill, cash, change, receivable>>
    BY <1>5 DEF NextDay
  <2>2. \A s \in Shifts : shift[s] = "closed" => shift'[s] = "closed"
    BY <2>1
  <2> QED
    BY <2>1, <2>2, QuietMoney
<1>6. Money' /\ Account'
  BY <1>1, <1>2, <1>3, <1>4, <1>5 DEF CashDayNext
<1> QED
  BY <1>0, <1>6 DEF MInv

LEMMA MoneyInvariance == CashDaySpec => []MInv
<1> QED
  BY InitMInv, NextMInv, PTL DEF CashDaySpec

(* For any invoices, any number of returns of each, any prices and refunds:    *)
(* when everything sold came back, nothing is owed for it and all that was    *)
(* received was refunded or credited (095:354-370).                          *)
THEOREM ReturnsSettleInvoice == CashDaySpec => []ReturnSettles
<1>1. MInv => ReturnSettles
  <2>1. SUFFICES ASSUME MInv, NEW i \in Sold, bill[i].status = "final", bill[i].back = bill[i].due
                 PROVE  /\ Credit(i) = bill[i].settled
                        /\ Received(i) = bill[i].refunded + bill[i].credit
    BY DEF ReturnSettles
  <2>2. Amounts(bill[i]) /\ Balanced(bill[i], Received(i), i \in Known)
    BY <2>1 DEF MInv, Money
  <2>3. /\ bill[i].due - Received(i) = bill[i].settled
        /\ Received(i) = bill[i].refunded + bill[i].credit
    BY <2>1, <2>2, BalancedSettles
  <2> QED
    BY <2>3 DEF Credit
<1> QED
  BY <1>1, MoneyInvariance, PTL

(* For any number of sales, drawers, days and returns of the customer, and     *)
(* however finalizations, postings and returns overlap: the debt for final    *)
(* sales is never more than the credit limit, because the ledger and the      *)
(* sales it does not have yet are together that debt (096:94-106).           *)
THEOREM CreditIsLimited == CashDaySpec => []CreditWithinLimit
<1>1. MInv => CreditWithinLimit
  <2> SUFFICES ASSUME MInv PROVE CreditWithinLimit
    OBVIOUS
  <2> DEFINE L == [i \in Sold |-> Credit(i) - bill[i].settled]
             S == {i \in Known : bill[i].status = "final"}
  <2>1. /\ S \in SUBSET Known /\ IsFiniteSet(S)
        /\ \A i \in Known \ S : OnAccount[i] = 0
        /\ \A i \in S : OnAccount[i] = L[i]
    <3>1. S \in SUBSET Known /\ IsFiniteSet(S)
      BY KnownFinite, FS_Subset
    <3> QED
      BY <3>1, KnownFinite DEF OnAccount, Owing
  <2>2. \A i \in Known : OnAccount[i] \in Int
    BY OwingType, KnownFinite DEF OnAccount, MInv, DInv
  <2>3. CreditWithinLimit <=> SumFunctionOnSet(L, S) <= Limit
    BY DEF CreditWithinLimit
  <2> HIDE DEF L, S
  <2>4. SumFunctionOnSet(OnAccount, Known) = SumFunctionOnSet(OnAccount, S)
    BY <2>1, <2>2, KnownFinite, SumOfRest
  <2>5. SumFunctionOnSet(OnAccount, S) = SumFunctionOnSet(L, S)
    BY <2>1, SumSame
  <2> QED
    BY <2>3, <2>4, <2>5 DEF MInv, Account
<1> QED
  BY <1>1, MoneyInvariance, PTL

-----------------------------------------------------------------------------
(* Types.                                                                   *)

CountedType == counted \in [Shifts -> [Docs -> Int]]

LEMMA DrawerCashType ==
  ASSUME MInv, NEW s \in Shifts
  PROVE  DrawerCash(s) \in [Docs -> Int]
<1>1. \A i \in Sold : SaleCash(i, s) \in Int
  <2> TAKE i \in Sold
  <2>1. cash[i][s] \in Nat
    BY DEF MInv, DInv, Shapes
  <2>2. change[i] \in Nat
    BY DEF MInv, Money
  <2> QED
    BY <2>1, <2>2 DEF SaleCash
<1>2. \A r \in Returns : ReturnCash(r, s) \in Int
  BY DEF MInv, DInv, Shapes, RetRecords, ReturnCash
<1> QED
  BY <1>1, <1>2 DEF DrawerCash, Docs

LEMMA NextCountedType ==
  ASSUME MInv, CountedType, [CashDayNext]_dvars
  PROVE  CountedType'
<1>1. ASSUME NEW s \in Shifts, CloseSums(s) PROVE CountedType'
  BY <1>1, DrawerCashType DEF CloseSums, CountedType
<1>2. ASSUME NEW s \in Shifts, CloseRefused(s) PROVE CountedType'
  BY <1>2 DEF CloseRefused, CountedType, Nothing
<1>3. ASSUME NEW s \in Shifts, OpenShift(s) \/ CloseEnds(s) PROVE UNCHANGED counted
  BY <1>3 DEF OpenShift, CloseEnds
<1>4. ASSUME NEW i \in Sold, BillSteps(i) PROVE UNCHANGED counted
  BY <1>4 DEF BillSteps, AskDraft, InsertDraft, EditLines, Pay, FinalizeBegins, FinalizeCommits,
     FinalizeFails, CancelDraft, RefundDraft, SaleStep
<1>5. ASSUME NEW r \in Returns, ReturnSteps(r) PROVE UNCHANGED counted
  BY <1>5 DEF ReturnSteps, AskReturn, PostReturn
<1>6. ASSUME NextDay \/ (\E d \in Days : CloseDay(d)) PROVE UNCHANGED counted
  BY <1>6 DEF NextDay, CloseDay
<1>7. UNCHANGED dvars => UNCHANGED counted
  BY DEF dvars
<1> QED
  BY <1>1, <1>2, <1>3, <1>4, <1>5, <1>6, <1>7 DEF CashDayNext, ShiftSteps, CountedType

(* Every variable keeps its type: no interleaving of payments, closings and    *)
(* returns leaves an amount of an invoice negative (CashDayTypeOK).           *)
THEOREM CashDayTypeCorrect == CashDaySpec => []CashDayTypeOK
<1>1. CashDayInit => CountedType
  BY DEF CashDayInit, CountedType, Nothing
<1>2. MInv => receivable \in Int
  <2> SUFFICES ASSUME MInv PROVE receivable \in Int
    OBVIOUS
  <2>1. \A i \in Sold : Credit(i) \in Int /\ bill[i].settled \in Nat
    <3> TAKE i \in Sold
    <3>1. Received(i) \in Int
      BY ReceivedType DEF MInv, DInv
    <3> QED
      BY <3>1 DEF MInv, Money, Amounts, Credit
  <2>2. \A i \in Known : OnBooks[i] \in Int
    BY <2>1, KnownFinite DEF OnBooks, InBooks
  <2> QED
    BY <2>2, KnownFinite, SumType DEF MInv, Account
<1>3. MInv => bill \in [Sold -> BillRecords]
  <2> SUFFICES ASSUME MInv, NEW i \in Sold PROVE bill[i] \in BillRecords
    BY DEF MInv, DInv, Shapes
  <2>1. IsBill(bill[i]) /\ Amounts(bill[i])
    BY DEF MInv, DInv, Shapes, Money
  <2>2. ASSUME NEW r, IsBill(r), Amounts(r) PROVE r \in BillRecords
    <3>1. r = [status |-> r.status, shift |-> r.shift, batch |-> r.batch, due |-> r.due,
               back |-> r.back, refunded |-> r.refunded, settled |-> r.settled,
               credit |-> r.credit]
      BY <2>2 DEF IsBill, Fields
    <3> QED
      BY <2>2, <3>1 DEF IsBill, Amounts, BillRecords
  <2> QED
    BY <2>1, <2>2
<1>4. MInv => booked \in [Batches -> SUBSET Sold] /\ change \in [Sold -> Nat]
  BY DEF MInv, DInv, Shapes, Money, BatchBooksItsSales, InBatch
<1>5. MInv /\ CountedType => CashDayTypeOK
  BY <1>2, <1>3, <1>4 DEF MInv, DInv, Shapes, CountedType, CashDayTypeOK
<1> QED
  BY <1>1, <1>5, NextCountedType, MoneyInvariance, PTL DEF CashDaySpec

-----------------------------------------------------------------------------
USE DEF tvars

LEMMA InitTypes == TreasuryInit => TreasuryTypeOK
BY TreasuryConstants DEF TreasuryInit, TreasuryTypeOK, Statuses, Empty, Cheques

(* What one row of the table does: it stays among the statuses of its        *)
(* direction.                                                               *)
LEMMA StepShape ==
  ASSUME NEW c \in Cheques, NEW step \in Steps(c)
  PROVE  step[1] \in Statuses(c) /\ step[2] \in Actions /\ step[3] \in Statuses(c)
BY DEF Steps, TakenSteps, GivenSteps, Statuses, Actions

(* A service works on the request its key holds. *)
LEMMA WorkingShape ==
  ASSUME TreasuryTypeOK, NEW k \in Keys
  PROVE  /\ Working(k, "create") => request[k].op.c \in Cheques
         /\ Working(k, "event") => /\ request[k].op.c \in Cheques
                                   /\ request[k].op.a \in Actions
BY DEF TreasuryTypeOK, Working, Ops, NoOp

LEMMA PhaseShape ==
  ASSUME TreasuryTypeOK, NEW k \in Keys,
         NEW phase \in {"began", "committed", "lost", "sealed"}, Phase(k, phase)
  PROVE  request' \in [Keys -> [op : Ops \cup {NoOp},
                           phase : {"none", "began", "committed", "lost", "sealed"}]]
BY DEF TreasuryTypeOK, Phase

LEMMA BookedShape ==
  ASSUME NEW b \in [Accounts -> Int], NEW c \in Cheques, NEW a, NEW from
  PROVE  Booked(b, Entry(c, a, from)) \in [Accounts -> Int]
<1> DEFINE e == Entry(c, a, from)
<1>1. e = <<>> \/ \E x, y \in Accounts : e = <<x, y>>
  BY DEF Entry, BouncedFrom, Accounts
<1> HIDE DEF e
<1>2. ASSUME e = <<>>
      PROVE  Booked(b, e) \in [Accounts -> Int]
  BY <1>2 DEF Booked
<1>3. ASSUME NEW x \in Accounts, NEW y \in Accounts, e = <<x, y>>
      PROVE  Booked(b, e) \in [Accounts -> Int]
  BY <1>3 DEF Booked
<1> QED
  BY <1>1, <1>2, <1>3 DEF e

LEMMA EventTypes ==
  ASSUME TreasuryTypeOK, NEW k \in Keys, PostEvent(k)
  PROVE  TreasuryTypeOK'
<1> DEFINE c == request[k].op.c
           a == request[k].op.a
<1>1. c \in Cheques /\ a \in Actions
  BY WorkingShape DEF PostEvent
<1>2. PICK step \in Steps(c) : step[1] = cheque[c] /\ step[2] = a
                               /\ cheque' = [cheque EXCEPT ![c] = step[3]]
  BY DEF PostEvent
<1>3. step[3] \in Statuses(c)
  BY <1>1, <1>2, StepShape
<1>4. Booked(balance[c], Entry(c, a, cheque[c])) \in [Accounts -> Int]
  BY <1>1, BookedShape DEF TreasuryTypeOK
<1>5. cheque' \in [Cheques -> UNION {Statuses(d) : d \in Cheques}]
      /\ \A d \in Cheques : cheque'[d] \in Statuses(d)
  BY <1>1, <1>2, <1>3 DEF TreasuryTypeOK
<1>6. balance' \in [Cheques -> [Accounts -> Int]]
  BY <1>1, <1>4 DEF PostEvent, TreasuryTypeOK
<1>7. events' \in [Cheques -> SUBSET Actions]
  BY <1>1 DEF PostEvent, TreasuryTypeOK
<1> QED
  BY <1>5, <1>6, <1>7, PhaseShape DEF PostEvent, TreasuryTypeOK

LEMMA NextTypes ==
  ASSUME TreasuryTypeOK, [TreasuryNext]_tvars
  PROVE  TreasuryTypeOK'
<1>1. ASSUME NEW k \in Keys, NEW op \in Ops, Ask(k, op)
      PROVE  TreasuryTypeOK'
  BY <1>1 DEF Ask, TreasuryTypeOK
<1>2. ASSUME NEW k \in Keys, Retry(k) \/ Refused(k) \/ Seal(k)
      PROVE  TreasuryTypeOK'
  BY <1>2, PhaseShape DEF Retry, Refused, Seal, TreasuryTypeOK
<1>3. ASSUME NEW k \in Keys, Crash(k)
      PROVE  TreasuryTypeOK'
  BY <1>3, PhaseShape, TreasuryConstants DEF Crash, TreasuryTypeOK
<1>4. ASSUME NEW k \in Keys, CreateAndPost(k)
      PROVE  TreasuryTypeOK'
  BY <1>4, PhaseShape DEF CreateAndPost, TreasuryTypeOK
<1>5. ASSUME NEW k \in Keys, CreateCheque(k)
      PROVE  TreasuryTypeOK'
  <2>1. request[k].op.c \in Cheques
    BY <1>5, WorkingShape DEF CreateCheque
  <2>2. "draft" \in Statuses(request[k].op.c)
    BY DEF Statuses
  <2> QED
    BY <1>5, <2>1, <2>2, PhaseShape DEF CreateCheque, TreasuryTypeOK
<1>6. ASSUME NEW k \in Keys, PostEvent(k)
      PROVE  TreasuryTypeOK'
  BY <1>6, EventTypes
<1>7. ASSUME NEW k \in Keys, RepeatEvent(k)
      PROVE  TreasuryTypeOK'
  BY <1>7, PhaseShape DEF RepeatEvent, TreasuryTypeOK
<1>8. CASE UNCHANGED tvars
  BY <1>8 DEF TreasuryTypeOK
<1> QED
  BY <1>1, <1>2, <1>3, <1>4, <1>5, <1>6, <1>7, <1>8 DEF TreasuryNext, KeySteps

(* Cheques, their events and balances, the requests and the crashes keep their *)
(* types: a received cheque never reaches a status of an issued one.         *)
THEOREM TreasuryTypeCorrect == TreasurySpec => []TreasuryTypeOK
<1> QED
  BY InitTypes, NextTypes, PTL DEF TreasurySpec

-----------------------------------------------------------------------------
(* AccountsFollowCheque speaks of the status alone, and so is inductive: an    *)
(* entry depends on the status it leaves only where BouncedFrom asks it to.  *)

(* What AccountsFollowCheque says of a cheque c with status s and balance b.  *)
Follows(c, s, b) ==
  b = IF c \in Taken
      THEN CASE s = "in_hand"   -> Sides("hand", "party")
             [] s = "deposited" -> Sides("collection", "party")
             [] s = "cleared"   -> Sides("bank", "party")
             [] s = "endorsed"  -> Sides("supplier", "party")
             [] s = "bounced"   -> Sides("returned", "party")
             [] OTHER           -> Empty
      ELSE CASE s \in {"issued", "bounced"} -> Sides("party", "promised")
             [] s = "cleared"               -> Sides("party", "bank")
             [] OTHER                       -> Empty

LEMMA FollowsEach == AccountsFollowCheque <=> \A c \in Cheques : Follows(c, cheque[c], balance[c])
BY DEF AccountsFollowCheque, Follows

(* The entries of the two tables against the sides they are booked on. *)
LEMMA EntriesMove ==
  /\ Booked(Empty, <<"hand", "party">>) = Sides("hand", "party")
  /\ Booked(Sides("hand", "party"), <<"collection", "hand">>) = Sides("collection", "party")
  /\ Booked(Sides("collection", "party"), <<"bank", "collection">>) = Sides("bank", "party")
  /\ Booked(Sides("collection", "party"), <<"returned", "collection">>) = Sides("returned", "party")
  /\ Booked(Sides("supplier", "party"), <<"returned", "supplier">>) = Sides("returned", "party")
  /\ Booked(Sides("hand", "party"), <<"supplier", "hand">>) = Sides("supplier", "party")
  /\ Booked(Sides("returned", "party"), <<"party", "returned">>) = Empty
  /\ Booked(Empty, <<"party", "promised">>) = Sides("party", "promised")
  /\ Booked(Sides("party", "promised"), <<"promised", "bank">>) = Sides("party", "bank")
  /\ Booked(Sides("party", "promised"), <<"promised", "party">>) = Empty
<1>1. Booked(Empty, <<"hand", "party">>) = Sides("hand", "party")
  BY DEF Booked, Sides, Empty, Accounts
<1>2. Booked(Sides("hand", "party"), <<"collection", "hand">>) = Sides("collection", "party")
  BY DEF Booked, Sides, Empty, Accounts
<1>3. Booked(Sides("collection", "party"), <<"bank", "collection">>) = Sides("bank", "party")
  BY DEF Booked, Sides, Empty, Accounts
<1>4. Booked(Sides("collection", "party"), <<"returned", "collection">>) = Sides("returned", "party")
  BY DEF Booked, Sides, Empty, Accounts
<1>5. Booked(Sides("supplier", "party"), <<"returned", "supplier">>) = Sides("returned", "party")
  BY DEF Booked, Sides, Empty, Accounts
<1>6. Booked(Sides("hand", "party"), <<"supplier", "hand">>) = Sides("supplier", "party")
  BY DEF Booked, Sides, Empty, Accounts
<1>7. Booked(Sides("returned", "party"), <<"party", "returned">>) = Empty
  BY DEF Booked, Sides, Empty, Accounts
<1>8. Booked(Empty, <<"party", "promised">>) = Sides("party", "promised")
  BY DEF Booked, Sides, Empty, Accounts
<1>9. Booked(Sides("party", "promised"), <<"promised", "bank">>) = Sides("party", "bank")
  BY DEF Booked, Sides, Empty, Accounts
<1>10. Booked(Sides("party", "promised"), <<"promised", "party">>) = Empty
  BY DEF Booked, Sides, Empty, Accounts
<1> QED
  BY <1>1, <1>2, <1>3, <1>4, <1>5, <1>6, <1>7, <1>8, <1>9, <1>10

LEMMA TakenFollows ==
  ASSUME NEW c \in Taken, NEW step \in TakenSteps, NEW b, Follows(c, step[1], b)
  PROVE  Follows(c, step[3], Booked(b, Entry(c, step[2], step[1])))
<1> USE DEF Follows, Entry, BouncedFrom
<1>1. CASE step = <<"draft", "receive", "in_hand">>
  BY <1>1, EntriesMove
<1>2. CASE step = <<"in_hand", "deposit", "deposited">>
  BY <1>2, EntriesMove
<1>3. CASE step = <<"deposited", "clear", "cleared">>
  BY <1>3, EntriesMove
<1>4. CASE step = <<"deposited", "bounce", "bounced">>
  BY <1>4, EntriesMove
<1>5. CASE step = <<"endorsed", "bounce", "bounced">>
  BY <1>5, EntriesMove
<1>6. CASE step = <<"in_hand", "endorse", "endorsed">>
  BY <1>6, EntriesMove
<1>7. CASE step = <<"bounced", "settle", "settled">>
  BY <1>7, EntriesMove
<1>8. CASE step = <<"draft", "cancel", "cancelled">>
  BY <1>8 DEF Booked
<1> QED
  BY <1>1, <1>2, <1>3, <1>4, <1>5, <1>6, <1>7, <1>8 DEF TakenSteps

LEMMA GivenFollows ==
  ASSUME NEW c \in Given, NEW step \in GivenSteps, NEW b, Follows(c, step[1], b)
  PROVE  Follows(c, step[3], Booked(b, Entry(c, step[2], step[1])))
<1> USE DEF Follows, Entry
<1>0. c \notin Taken
  BY TreasuryConstants
<1>1. CASE step = <<"draft", "issue", "issued">>
  BY <1>0, <1>1, EntriesMove
<1>2. CASE step = <<"issued", "pay", "cleared">>
  BY <1>0, <1>2, EntriesMove
<1>3. CASE step = <<"bounced", "pay", "cleared">>
  BY <1>0, <1>3, EntriesMove
<1>4. CASE step = <<"issued", "bounce", "bounced">>
  BY <1>0, <1>4 DEF Booked
<1>5. CASE step = <<"draft", "cancel", "cancelled">>
  BY <1>0, <1>5 DEF Booked
<1>6. CASE step = <<"issued", "cancel", "cancelled">>
  BY <1>0, <1>6, EntriesMove
<1>7. CASE step = <<"bounced", "cancel", "cancelled">>
  BY <1>0, <1>7, EntriesMove
<1> QED
  BY <1>1, <1>2, <1>3, <1>4, <1>5, <1>6, <1>7 DEF GivenSteps

LEMMA InitFollows == TreasuryInit => AccountsFollowCheque
BY FollowsEach DEF TreasuryInit, Follows

LEMMA EventFollows ==
  ASSUME TreasuryTypeOK, AccountsFollowCheque, NEW k \in Keys, PostEvent(k)
  PROVE  AccountsFollowCheque'
<1> DEFINE c == request[k].op.c
           a == request[k].op.a
<1>1. c \in Cheques
  BY WorkingShape DEF PostEvent
<1>2. PICK step \in Steps(c) : step[1] = cheque[c] /\ step[2] = a
                               /\ cheque' = [cheque EXCEPT ![c] = step[3]]
  BY DEF PostEvent
<1>3. Follows(c, step[1], balance[c])
  BY <1>1, <1>2, FollowsEach
<1>4. Follows(c, step[3], Booked(balance[c], Entry(c, step[2], step[1])))
  <2>1. CASE c \in Taken
    BY <1>2, <1>3, <2>1, TakenFollows DEF Steps
  <2>2. CASE c \in Given
    BY <1>2, <1>3, <2>2, GivenFollows, TreasuryConstants DEF Steps
  <2> QED
    BY <1>1, <2>1, <2>2 DEF Cheques
<1>5. cheque'[c] = step[3] /\ balance'[c] = Booked(balance[c], Entry(c, step[2], step[1]))
  BY <1>1, <1>2 DEF PostEvent, TreasuryTypeOK
<1>6. \A d \in Cheques \ {c} : cheque'[d] = cheque[d] /\ balance'[d] = balance[d]
  BY <1>1, <1>2 DEF PostEvent, TreasuryTypeOK
<1>7. \A d \in Cheques : Follows(d, cheque'[d], balance'[d])
  BY <1>4, <1>5, <1>6, FollowsEach
<1> QED
  BY <1>7 DEF AccountsFollowCheque, Follows, Sides, Empty, Booked

LEMMA NextFollows ==
  ASSUME TreasuryTypeOK, AccountsFollowCheque, [TreasuryNext]_tvars
  PROVE  AccountsFollowCheque'
<1>1. ASSUME NEW k \in Keys, CreateCheque(k)
      PROVE  AccountsFollowCheque'
  <2>1. request[k].op.c \in Cheques
    BY <1>1, WorkingShape DEF CreateCheque
  <2> QED
    BY <1>1, <2>1 DEF CreateCheque, AccountsFollowCheque, TreasuryTypeOK
<1>2. ASSUME NEW k \in Keys, PostEvent(k)
      PROVE  AccountsFollowCheque'
  BY <1>2, EventFollows
<1>3. CASE UNCHANGED <<cheque, balance>>
  BY <1>3 DEF AccountsFollowCheque
<1> QED
  BY <1>1, <1>2, <1>3
  DEF TreasuryNext, KeySteps, Ask, Retry, Refused, Seal, Crash, CreateAndPost, RepeatEvent

(* Whatever the order of actions, however often a request is repeated or its   *)
(* process dies between the commits, the ledger has the amount of every       *)
(* cheque where its status says it is (064:326-421).                         *)
THEOREM AmountFollowsStatus == TreasurySpec => []AccountsFollowCheque
<1>1. TreasuryInit => TreasuryTypeOK /\ AccountsFollowCheque
  BY InitTypes, InitFollows
<1>2. TreasuryTypeOK /\ AccountsFollowCheque /\ [TreasuryNext]_tvars
        => (TreasuryTypeOK /\ AccountsFollowCheque)'
  BY NextTypes, NextFollows
<1> QED
  BY <1>1, <1>2, PTL DEF TreasurySpec

=============================================================================
