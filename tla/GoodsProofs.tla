----------------------------- MODULE GoodsProofs -----------------------------
(***************************************************************************)
(* Proofs about Costing, Warehouse and Purchasing for any documents, prices  *)
(* and costing methods.                                                      *)
(***************************************************************************)
EXTENDS Purchasing, Warehouse, Sums, SequenceTheorems, TLAPS

(***************************************************************************)
(* What the operators of Costing return.                                     *)
(***************************************************************************)
(* A rounded share of a natural number is one. *)
LEMMA RoundNat ==
  ASSUME NEW a \in Nat, NEW b \in Nat \ {0}
  PROVE  RoundDiv(a, b) \in Nat
<1>1. 2 * a + b \in Nat /\ 2 * b \in Nat \ {0}
  OBVIOUS
<1> QED
  BY <1>1 DEF RoundDiv

(* A whole multiple is not rounded. *)
LEMMA RoundWhole ==
  ASSUME NEW c \in Nat, NEW q \in Nat \ {0}
  PROVE  RoundDiv(c * q, q) = c
<1> DEFINE d == 2 * q
<1>1. d \in Nat \ {0} /\ q < d
  OBVIOUS
<1>2. 2 * (c * q) + q = d * c + q
  OBVIOUS
<1>3. \A k \in Nat, e \in Nat \ {0}, r \in Nat : r < e => (e * k + r) \div e = k
  OBVIOUS
<1> QED
  BY <1>1, <1>2, <1>3 DEF RoundDiv

(* Rounding keeps the order. *)
LEMMA RoundMonotone ==
  ASSUME NEW a \in Nat, NEW b \in Nat, a <= b, NEW q \in Nat \ {0}
  PROVE  RoundDiv(a, q) <= RoundDiv(b, q)
<1>1. \A x \in Nat, y \in Nat, e \in Nat \ {0} : x <= y => x \div e <= y \div e
  OBVIOUS
<1>2. 2 * a + q \in Nat /\ 2 * b + q \in Nat /\ 2 * a + q <= 2 * b + q /\ 2 * q \in Nat \ {0}
  OBVIOUS
<1> QED
  BY <1>1, <1>2 DEF RoundDiv

(* A row whose layers are as many as its units. *)
Sound(b) == b \in Balances /\ Len(b.layers) = b.on

LEMMA EnteredSound ==
  ASSUME NEW b, Sound(b), NEW n \in Nat, NEW cost \in Nat, NEW value \in Nat
  PROVE  Sound(Entered(b, n, cost, value))
<1> DEFINE new == [i \in 1..n |-> cost]
<1>1. b.on \in Nat /\ b.value \in Nat /\ b.layers \in Seq(Nat)
  BY DEF Sound, Balances
<1>2. new \in Seq(Nat) /\ Len(new) = n
  OBVIOUS
<1>3. b.layers \o new \in Seq(Nat) /\ Len(b.layers \o new) = b.on + n
  BY <1>1, <1>2 DEF Sound
<1> QED
  BY <1>1, <1>3 DEF Entered, Sound, Balances

LEMMA LeftSound ==
  ASSUME NEW b, Sound(b), NEW n \in Nat, NEW value \in Int, Lawful(Left(b, n, value))
  PROVE  /\ Sound(Left(b, n, value))
         /\ Left(b, n, value).on = b.on - n
         /\ Left(b, n, value).value = b.value - value
<1> DEFINE rest == SubSeq(b.layers, n + 1, Len(b.layers))
<1>1. b.on \in Nat /\ b.value \in Nat /\ b.layers \in Seq(Nat) /\ Len(b.layers) = b.on
  BY DEF Sound, Balances
<1>2. b.on - n \in Nat /\ b.value - value \in Nat
  BY DEF Left, Lawful
<1>3. rest \in Seq(Nat) /\ Len(rest) = b.on - n
  <2>1. n <= b.on /\ n + 1 \in 1..(b.on + 1)
    BY <1>1, <1>2
  <2>2. \A i \in (n + 1)..Len(b.layers) : b.layers[i] \in Nat
    BY <1>1
  <2>3. n + 1 \in Int /\ Len(b.layers) \in Int
    BY <1>1
  <2>4. /\ rest \in Seq(Nat)
        /\ Len(rest) = IF n + 1 <= Len(b.layers) THEN Len(b.layers) - (n + 1) + 1 ELSE 0
    BY <2>2, <2>3, SubSeqProperties
  <2> QED
    BY <1>1, <2>1, <2>4
<1> QED
  BY <1>1, <1>2, <1>3 DEF Left, Sound, Balances

(* What units that are there are worth, by whichever method. *)
LEMMA OutNat ==
  ASSUME NEW b, Sound(b), NEW n \in Nat \ {0}, n <= b.on, NEW m
  PROVE  OutValue(b, n, m) \in Nat
<1>1. b.on \in Nat \ {0} /\ b.value \in Nat
  BY DEF Sound, Balances
<1>2. RoundDiv(b.value, b.on) \in Nat
  BY <1>1, RoundNat
<1>3. OldestUnits(b, n) \in Nat
  <2>1. IsFiniteSet(1..n)
    BY FS_Interval
  <2>2. \A i \in 1..n : b.layers[i] \in Nat
    BY <1>1 DEF Sound, Balances
  <2> QED
    BY <2>1, <2>2, SumNat DEF OldestUnits
<1> QED
  BY <1>1, <1>2, <1>3 DEF OutValue

LEMMA IssuedSound ==
  ASSUME NEW b, Sound(b), NEW n \in Nat \ {0}, n <= b.on, NEW m,
         Lawful(Issued(b, n, m))
  PROVE  /\ Sound(Issued(b, n, m)) /\ OutValue(b, n, m) \in Nat
         /\ Issued(b, n, m).on = b.on - n
         /\ Issued(b, n, m).value = b.value - OutValue(b, n, m)
  BY OutNat, LeftSound DEF Issued

(***************************************************************************)
(* Warehouse.                                                                *)
(***************************************************************************)
-----------------------------------------------------------------------------
(* Counts.  CInv: how much there is, how much the papers say, and that a      *)
(* count nothing disturbed since says what the shelf holds.                  *)

Amounts ==
  /\ stock = [p \in Places |-> stock[p]]
  /\ \A p \in Places : stock[p].on \in Nat
  /\ shelf \in [Places -> Nat]
  /\ transfer \in [Transfers -> TransferRecords]
  /\ edit \in Edits \cup {NoEdit}
  /\ count \in [Counts -> CountRecords]

StillTrue ==
  \A c \in Counts : count[c].still => count[c].counted = shelf[count[c].at]

CInv == Amounts /\ StillTrue

(* Goods move: the counts of the warehouses where they do are disturbed.      *)
Moves(places) ==
  /\ stock' = [p \in Places |-> stock'[p]]
  /\ \A p \in Places : stock'[p].on \in Nat
  /\ shelf' \in [Places -> Nat]
  /\ \A p \in Places \ places : shelf'[p] = shelf[p]
  /\ count' = Disturbed(places)

LEMMA DisturbedCount ==
  ASSUME Amounts, NEW places \in SUBSET Places, NEW c \in Counts
  PROVE  /\ Disturbed(places) = [d \in Counts |-> Disturbed(places)[d]]
         /\ Disturbed(places)[c] \in CountRecords
         /\ Disturbed(places)[c].status = count[c].status
         /\ Disturbed(places)[c].counted = count[c].counted
         /\ Disturbed(places)[c].at = count[c].at /\ count[c].at \in Places
         /\ Disturbed(places)[c].still => count[c].still /\ count[c].at \notin places
<1>1. count[c] \in CountRecords
  BY DEF Amounts
<1>2. PICK b \in BOOLEAN : /\ Disturbed(places)[c] = [count[c] EXCEPT !.still = b]
                           /\ b => count[c].still /\ count[c].at \notin places
  <2>1. (count[c].still /\ count[c].at \notin places) \in BOOLEAN
    OBVIOUS
  <2> QED
    BY <2>1 DEF Disturbed
<1>3. [count[c] EXCEPT !.still = b].still = b
  BY <1>1, <1>2 DEF CountRecords
<1>4. Disturbed(places) = [d \in Counts |-> Disturbed(places)[d]]
  BY DEF Disturbed
<1> QED
  BY <1>1, <1>2, <1>3, <1>4 DEF CountRecords

LEMMA MoveKeeps ==
  ASSUME CInv, NEW places \in SUBSET Places, Moves(places)
  PROVE  /\ count' \in [Counts -> CountRecords] /\ StillTrue'
         /\ \A c \in Counts : count'[c].status = count[c].status
<1> USE DEF CInv
<1>1. count' = Disturbed(places)
  BY DEF Moves
<1>2. ASSUME NEW c \in Counts
      PROVE  /\ count'[c] \in CountRecords
             /\ count'[c].status = count[c].status
             /\ count'[c].counted = count[c].counted
             /\ count'[c].at = count[c].at /\ count[c].at \in Places
             /\ count'[c].still => count[c].still /\ count[c].at \notin places
  BY <1>1, DisturbedCount
<1>3. count' \in [Counts -> CountRecords]
  BY <1>1, <1>2 DEF Disturbed
<1>4. StillTrue'
  BY <1>2 DEF StillTrue, Moves
<1> QED
  BY <1>2, <1>3, <1>4

LEMMA GoodsKeepCounts ==
  ASSUME CInv, GoodsMove
  PROVE  CInv' /\ \A c \in Counts : count'[c].status = count[c].status
<1> USE DEF CInv
<1>0. Places = {"shop", "store"} /\ MaxQty \in Nat
  BY WarehouseConstants DEF Places
<1>1. ASSUME NEW p \in Places, NEW n \in 1..MaxQty, NEW cost \in Costs, Arrive(p, n, cost)
      PROVE  Moves({p}) /\ UNCHANGED <<transfer, edit>>
  <2>1. n \in Nat
    BY <1>0
  <2>2. stock'[p].on = stock[p].on + n
    BY <1>1 DEF Arrive, Entered, Amounts
  <2>3. \A q \in Places \ {p} : stock'[q] = stock[q]
    BY <1>1 DEF Arrive, Amounts
  <2>4. \A q \in Places : stock'[q].on \in Nat
    BY <2>1, <2>2, <2>3 DEF Amounts
  <2> QED
    BY <1>1, <2>1, <2>4 DEF Arrive, Moves, Amounts
<1>2. ASSUME NEW p \in Places, Lose(p)
      PROVE  Moves({p}) /\ UNCHANGED <<transfer, edit>>
  BY <1>2 DEF Lose, Moves, Amounts
<1>3. ASSUME NEW s \in Sales, NEW n \in 1..MaxQty, Sell(s, n)
      PROVE  Moves({"shop"}) /\ UNCHANGED <<transfer, edit>>
  <2>1. stock'["shop"].on \in Nat
    BY <1>0, <1>3 DEF Sell, Lawful, Amounts
  <2> QED
    BY <1>0, <1>3, <2>1 DEF Sell, Moves, Amounts
<1>4. ASSUME NEW s \in Sales, NEW n \in 1..MaxQty, NEW restock \in BOOLEAN, NEW p \in Places,
             TakeBack(s, n, restock, p)
      PROVE  /\ UNCHANGED <<transfer, edit>>
             /\ Moves({p}) \/ UNCHANGED <<stock, shelf, count>>
  <2>1. CASE restock
    <3>1. /\ stock' = [stock EXCEPT ![p] = stock'[p]] /\ stock'[p].on = stock[p].on + n
          /\ shelf' = [shelf EXCEPT ![p] = @ + n] /\ count' = Disturbed({p})
      BY <1>0, <1>4, <2>1 DEF TakeBack, Entered, Amounts
    <3>2. \A q \in Places : stock'[q].on \in Nat
      BY <3>1 DEF Amounts
    <3> QED
      BY <1>4, <3>1, <3>2 DEF TakeBack, Moves, Amounts
  <2>2. CASE ~restock
    BY <1>4, <2>2 DEF TakeBack
  <2> QED
    BY <2>1, <2>2
<1>5. ASSUME NEW p \in Places, Moves({p}), UNCHANGED <<transfer, edit>>
      PROVE  CInv' /\ \A c \in Counts : count'[c].status = count[c].status
  <2>1. {p} \in SUBSET Places
    OBVIOUS
  <2> QED
    BY <1>5, <2>1, MoveKeeps DEF Amounts, Moves
<1>6. ASSUME UNCHANGED <<stock, shelf, transfer, edit, count>>
      PROVE  CInv' /\ \A c \in Counts : count'[c].status = count[c].status
  BY <1>6 DEF Amounts, StillTrue
<1>7. CASE BookSales
  BY <1>6, <1>7 DEF BookSales, paper
<1>8. ASSUME NEW m \in Methods, SetWay(m)
      PROVE  CInv' /\ \A c \in Counts : count'[c].status = count[c].status
  BY <1>6, <1>8 DEF SetWay, paper
<1> QED
  BY <1>0, <1>1, <1>2, <1>3, <1>4, <1>5, <1>6, <1>7, <1>8 DEF GoodsMove

LEMMA TransfersKeepCounts ==
  ASSUME CInv, NEW t \in Transfers, TransferSteps(t)
  PROVE  CInv' /\ \A c \in Counts : count'[c].status = count[c].status
<1> USE DEF CInv
<1>0. Places = {"shop", "store"} /\ MaxQty \in Nat
  BY WarehouseConstants DEF Places
<1>1. ASSUME OnPaper, transfer' \in [Transfers -> TransferRecords],
             edit' \in Edits \cup {NoEdit}, UNCHANGED count
      PROVE  CInv' /\ \A c \in Counts : count'[c].status = count[c].status
  BY <1>1 DEF OnPaper, Amounts, StillTrue
<1>2. ASSUME NEW p \in Places, CreateTransfer(t, p)
      PROVE  CInv' /\ \A c \in Counts : count'[c].status = count[c].status
  BY <1>1, <1>2 DEF CreateTransfer, Amounts, TransferRecords
<1>3. ASSUME NEW op \in {"add", "set", "remove"}, NEW n \in 1..MaxQty,
             SeeDraft([t |-> t, op |-> op, qty |-> n])
      PROVE  CInv' /\ \A c \in Counts : count'[c].status = count[c].status
  <2>1. [t |-> t, op |-> op, qty |-> n] \in Edits
    BY <1>0 DEF Edits
  <2> QED
    BY <1>1, <1>3, <2>1 DEF SeeDraft, Amounts
<1>4. CASE Discard(t)
  <2>1. NoTransfer \in TransferRecords
    BY <1>0 DEF NoTransfer, TransferRecords
  <2> QED
    BY <1>1, <1>4, <2>1 DEF Discard, Amounts
<1>5. CASE PostTransfer(t)
  <2> DEFINE n == transfer[t].qty
             from == transfer[t].from
             to == Opposite(from)
             rest == Issued(stock[from], n, way)
  <2>1. /\ n \in Nat /\ from \in Places /\ to \in Places /\ to # from
        /\ transfer' = [transfer EXCEPT ![t].status = "posted"]
        /\ shelf[from] >= n /\ rest.on \in Nat
        /\ shelf' = [shelf EXCEPT ![from] = @ - n, ![to] = @ + n]
        /\ count' = Disturbed(Places) /\ UNCHANGED edit
    BY <1>0, <1>5 DEF PostTransfer, Amounts, TransferRecords, Opposite, Lawful
  <2>2. PICK v, c : stock' = [stock EXCEPT ![from] = rest, ![to] = Landing(@, n, c, v)]
    BY <1>5 DEF PostTransfer
  <2> HIDE DEF n, from, to, rest
  <2>3. stock'[from] = rest /\ stock'[to] = Landing(stock[to], n, c, v)
    BY <2>1, <2>2 DEF Amounts
  <2>4. stock'[to].on = stock[to].on + n
    BY <2>3 DEF Landing, Entered
  <2>5. \A p \in Places : stock'[p].on \in Nat /\ shelf'[p] \in Nat
    BY <1>0, <2>1, <2>3, <2>4 DEF Amounts
  <2>6. Moves(Places)
    BY <2>1, <2>2, <2>5 DEF Moves, Amounts
  <2>7. transfer' \in [Transfers -> TransferRecords]
    BY <2>1 DEF Amounts, TransferRecords
  <2> QED
    BY <2>1, <2>6, <2>7, MoveKeeps DEF Amounts, Moves
<1> QED
  BY <1>2, <1>3, <1>4, <1>5 DEF TransferSteps

LEMMA LandKeepsCounts ==
  ASSUME CInv, EditLands
  PROVE  CInv' /\ \A c \in Counts : count'[c].status = count[c].status
<1> USE DEF CInv
<1>1. edit \in Edits /\ transfer[edit.t] \in TransferRecords
  BY DEF EditLands, Amounts, Edits
<1>2. LineAfter(transfer[edit.t].qty, edit) \in Nat
  BY <1>1 DEF LineAfter, Edits, TransferRecords
<1>3. transfer' \in [Transfers -> TransferRecords]
  BY <1>1, <1>2 DEF EditLands, Amounts, Edits, TransferRecords
<1> QED
  BY <1>3 DEF EditLands, OnPaper, Amounts, StillTrue

(* A posted count leaves what was counted. *)
LEMMA CountedOn ==
  ASSUME NEW p \in Places, NEW n \in Nat, stock[p].on \in Nat
  PROVE  Counted(p, n).on = n
  BY DEF Counted, Entered, Issued, Left

LEMMA CountsKeepCounts ==
  ASSUME CInv, NEW c \in Counts, CountSteps(c)
  PROVE  /\ CInv'
         /\ \A d \in Counts : /\ count'[d].status = "posted" /\ count[d].status = "draft"
                                 /\ count[d].still
                              => stock'[count[d].at].on = shelf[count[d].at]
<1> USE DEF CInv
<1>0. Places = {"shop", "store"}
  BY DEF Places
<1>1. ASSUME NEW r \in CountRecords, count' = [count EXCEPT ![c] = r], OnPaper,
             UNCHANGED <<transfer, edit>>, r.status # "posted",
             r.still => r.counted = shelf[r.at]
      PROVE  /\ CInv'
             /\ \A d \in Counts : count'[d].status = "posted" => count[d].status = "posted"
  BY <1>1 DEF OnPaper, Amounts, StillTrue
<1>2. ASSUME NEW p \in Places, OpenCount(c, p)
      PROVE  /\ CInv'
             /\ \A d \in Counts : count'[d].status = "posted" => count[d].status = "posted"
  <2> DEFINE r == [NoCount EXCEPT !.status = "draft", !.at = p]
  <2>1. r \in CountRecords /\ r.status = "draft" /\ r.still = FALSE
    BY <1>0 DEF NoCount, CountRecords
  <2>2. count' = [count EXCEPT ![c] = r] /\ OnPaper /\ UNCHANGED <<transfer, edit>>
    BY <1>2 DEF OpenCount
  <2> QED
    BY <1>1, <2>1, <2>2
<1>3. CASE CountShelf(c)
  <2> DEFINE r == Written(count[c], shelf[count[c].at])
  <2>1. count[c] \in CountRecords /\ count[c].at \in Places /\ count[c].status = "draft"
    BY <1>3 DEF CountShelf, Amounts, CountRecords
  <2>2. /\ r \in CountRecords /\ r.status = "draft"
        /\ r.counted = shelf[count[c].at] /\ r.at = count[c].at
    BY <2>1 DEF Written, CountRecords, Amounts
  <2>3. count' = [count EXCEPT ![c] = r] /\ OnPaper /\ UNCHANGED <<transfer, edit>>
    BY <1>3 DEF CountShelf, Amounts
  <2> QED
    BY <1>1, <2>2, <2>3
<1>4. CASE Unlist(c)
  <2> DEFINE r == [NoCount EXCEPT !.status = "draft", !.at = count[c].at]
  <2>1. r \in CountRecords /\ r.status = "draft" /\ r.still = FALSE
    BY DEF NoCount, CountRecords, Amounts
  <2>2. count' = [count EXCEPT ![c] = r] /\ OnPaper /\ UNCHANGED <<transfer, edit>>
    BY <1>4 DEF Unlist
  <2> QED
    BY <1>1, <2>1, <2>2
<1>5. CASE CancelCount(c)
  <2> DEFINE r == [count[c] EXCEPT !.status = "cancelled"]
  <2>1. count[c] \in CountRecords
    BY DEF Amounts
  <2>2. /\ r \in CountRecords /\ r.status = "cancelled"
        /\ r.still = count[c].still /\ r.at = count[c].at /\ r.counted = count[c].counted
    BY <2>1 DEF CountRecords
  <2>3. count' = [count EXCEPT ![c] = r] /\ OnPaper /\ UNCHANGED <<transfer, edit>>
    BY <1>5 DEF CancelCount, Amounts
  <2> QED
    BY <1>1, <2>2, <2>3 DEF StillTrue
<1>6. CASE PostCount(c)
  <2> DEFINE p == count[c].at
             new == Counted(p, count[c].counted)
             old == Disturbed({p})
  <2>1. p \in Places /\ {p} \in SUBSET Places /\ count[c].counted \in Nat
    BY DEF Amounts, CountRecords
  <2>2. /\ stock' = [stock EXCEPT ![p] = new]
        /\ count' = [old EXCEPT ![c].status = "posted", ![c].still = FALSE]
        /\ UNCHANGED <<shelf, transfer, edit>>
    BY <1>6 DEF PostCount
  <2>3. new.on = count[c].counted
    BY <2>1, CountedOn DEF Amounts
  <2>4. /\ old = [d \in Counts |-> old[d]]
        /\ \A d \in Counts : /\ old[d] \in CountRecords
                             /\ old[d].status = count[d].status
                             /\ old[d].counted = count[d].counted /\ old[d].at = count[d].at
                             /\ old[d].still => count[d].still
    <3>1. old = [d \in Counts |-> old[d]]
      BY DEF Disturbed
    <3>2. ASSUME NEW d \in Counts
          PROVE  /\ old[d] \in CountRecords
                 /\ old[d].status = count[d].status
                 /\ old[d].counted = count[d].counted /\ old[d].at = count[d].at
                 /\ old[d].still => count[d].still
      BY <2>1, DisturbedCount
    <3> QED
      BY <3>1, <3>2
  <2> HIDE DEF p, new, old
  <2>5. \A q \in Places : stock'[q].on \in Nat
    BY <2>1, <2>2, <2>3 DEF Amounts
  <2>6. /\ count' \in [Counts -> CountRecords]
        /\ \A d \in Counts \ {c} : count'[d] = old[d]
        /\ count'[c].still = FALSE
    <3>1. count'[c] = [[old[c] EXCEPT !.status = "posted"] EXCEPT !.still = FALSE]
      BY <2>2, <2>4
    <3>2. count'[c] \in CountRecords /\ count'[c].still = FALSE
      BY <2>4, <3>1 DEF CountRecords
    <3> QED
      BY <2>2, <2>4, <3>2
  <2>7. Amounts'
    BY <2>2, <2>5, <2>6 DEF Amounts
  <2>8. StillTrue'
    BY <2>2, <2>4, <2>6 DEF StillTrue
  <2>9. count[c].still => stock'[p].on = shelf[p]
    BY <2>1, <2>2, <2>3 DEF Amounts, StillTrue, p
  <2> QED
    BY <2>4, <2>6, <2>7, <2>8, <2>9 DEF p
<1> QED
  BY <1>2, <1>3, <1>4, <1>5, <1>6 DEF CountSteps

LEMMA InitCInv == WarehouseInit => CInv
  BY WarehouseConstants DEF WarehouseInit, CInv, Amounts, StillTrue, NoStock, NoTransfer,
       TransferRecords, NoCount, CountRecords, Places

LEMMA NextCInv == CInv /\ [WarehouseNext]_wvars => CInv'
<1> SUFFICES ASSUME CInv, [WarehouseNext]_wvars PROVE CInv'
  OBVIOUS
<1>1. CASE UNCHANGED wvars
  BY <1>1 DEF wvars, CInv, Amounts, StillTrue
<1> QED
  BY <1>1, GoodsKeepCounts, TransfersKeepCounts, LandKeepsCounts, CountsKeepCounts
  DEF WarehouseNext

LEMMA CInvHolds == WarehouseSpec => []CInv
  BY InitCInv, NextCInv, PTL DEF WarehouseSpec

(* A count that nothing disturbed since the shelf was counted leaves, when it  *)
(* is posted, the system saying what the shelf holds, whatever the costing    *)
(* method and however the stock moved before (CountSettles).                 *)
THEOREM CountsSettle == WarehouseSpec => CountSettles
<1> DEFINE Settles ==
      \A c \in Counts :
        count[c].still /\ count[c].status = "draft" /\ count'[c].status = "posted"
          => LET p == count[c].at IN stock'[p].on = shelf[p]
<1>1. CInv /\ [WarehouseNext]_wvars => [Settles]_wvars
  <2> SUFFICES ASSUME CInv, WarehouseNext PROVE Settles
    OBVIOUS
  <2> QED
    BY GoodsKeepCounts, TransfersKeepCounts, LandKeepsCounts, CountsKeepCounts
    DEF WarehouseNext
<1> QED
  BY <1>1, CInvHolds, PTL DEF WarehouseSpec, CountSettles

-----------------------------------------------------------------------------
(* VInv: what the rows of stock and their layers are worth, by every costing  *)
(* method.                                                                   *)

StoreValues ==
  /\ \A p \in Places : Sound(stock[p])
  /\ lastIn \in [Places -> Nat]
  /\ way \in Methods
  /\ account \in Int /\ unbooked \in Nat
  /\ sale \in [Sales -> SaleRecords]
  /\ arrived \in Nat /\ lost \in Nat

(* What came back of a line that is all restocked has the line's share.       *)
GivenSoFar ==
  \A s \in Sales :
    /\ sale[s].back <= sale[s].qty
    /\ sale[s].qty > 0 /\ sale[s].kept
         => sale[s].given = RoundDiv(sale[s].cogs * sale[s].back, sale[s].qty)

VInv == CInv /\ StoreValues /\ AccountMatchesStock /\ GivenSoFar

Worth == stock["shop"].value + stock["store"].value

(* One row changes. *)
LEMMA OneRow ==
  ASSUME CInv, StoreValues, NEW p \in Places, NEW new, Sound(new),
         stock' = [stock EXCEPT ![p] = new]
  PROVE  /\ \A q \in Places : Sound(stock'[q])
         /\ Worth \in Int /\ Worth' = Worth + new.value - stock[p].value
<1>1. \A q \in Places : stock[q].value \in Nat
  BY DEF StoreValues, Sound, Balances
<1>2. new.value \in Nat
  BY DEF Sound, Balances
<1>3. \A q \in Places : stock'[q] = IF q = p THEN new ELSE stock[q]
  BY DEF CInv, Amounts
<1>4. Worth' = Worth + new.value - stock[p].value
  BY <1>1, <1>2, <1>3 DEF Worth, Places
<1> QED
  BY <1>1, <1>3, <1>4 DEF StoreValues, Worth, Places

LEMMA ArriveKeeps ==
  ASSUME VInv, NEW p \in Places, NEW n \in 1..MaxQty, NEW cost \in Costs, Arrive(p, n, cost)
  PROVE  StoreValues' /\ AccountMatchesStock' /\ GivenSoFar'
<1> USE DEF VInv
<1> DEFINE part == n * cost
           new == Entered(stock[p], n, cost, part)
<1>1. n \in Nat /\ cost \in Nat /\ part \in Nat
  BY WarehouseConstants
<1>2. Sound(stock[p])
  BY DEF StoreValues
<1> HIDE DEF part
<1>3. Sound(new) /\ new.value = stock[p].value + part
  <2>1. Sound(new)
    BY <1>1, <1>2, EnteredSound
  <2> QED
    BY <2>1 DEF Entered
<1> USE DEF part
<1>4. /\ stock' = [stock EXCEPT ![p] = new]
      /\ account' = account + part /\ arrived' = arrived + n
      /\ lastIn' = [lastIn EXCEPT ![p] = cost]
      /\ UNCHANGED <<way, unbooked, sale, lost>>
  BY DEF Arrive
<1> HIDE DEF new, part
<1>5. /\ \A q \in Places : Sound(stock'[q])
      /\ Worth \in Int /\ Worth' = Worth + part
  <2>1. stock[p].value \in Int
    BY <1>2 DEF Sound, Balances
  <2>2. /\ \A q \in Places : Sound(stock'[q])
        /\ Worth \in Int /\ Worth' = Worth + new.value - stock[p].value
    BY <1>3, <1>4, OneRow
  <2> QED
    BY <1>1, <1>3, <2>1, <2>2
<1>6. StoreValues'
  BY <1>1, <1>4, <1>5 DEF StoreValues
<1>7. AccountMatchesStock'
  BY <1>1, <1>4, <1>5 DEF AccountMatchesStock, Worth, StoreValues
<1> QED
  BY <1>4, <1>6, <1>7 DEF GivenSoFar

LEMMA SellKeeps ==
  ASSUME VInv, NEW s \in Sales, NEW n \in 1..MaxQty, Sell(s, n)
  PROVE  StoreValues' /\ AccountMatchesStock' /\ GivenSoFar'
<1> USE DEF VInv
<1> DEFINE p == "shop"
           value == OutValue(stock[p], n, way)
           rest == Issued(stock[p], n, way)
           line == [NoSale EXCEPT !.qty = n, !.cogs = value]
<1>1. n \in Nat \ {0} /\ p \in Places
  BY WarehouseConstants DEF Places, StoreValues
<1>2. /\ stock[p].on >= n /\ Lawful(rest)
      /\ stock' = [stock EXCEPT ![p] = rest] /\ unbooked' = unbooked + value
      /\ sale' = [sale EXCEPT ![s] = line]
      /\ UNCHANGED <<lastIn, way, account, arrived, lost>>
  BY DEF Sell
<1>3. Sound(stock[p]) /\ stock[p].value \in Int /\ n <= stock[p].on
  BY <1>1, <1>2 DEF StoreValues, Sound, Balances
<1>4. Sound(rest) /\ value \in Nat /\ rest.value = stock[p].value - value
  BY <1>1, <1>2, <1>3, IssuedSound
<1>5. line \in SaleRecords /\ line.qty = n /\ line.back = 0 /\ line.given = 0 /\ line.cogs = value
  BY <1>1, <1>4 DEF NoSale, SaleRecords
<1>6. RoundDiv(value * 0, n) = 0
  <2>1. value * 0 = 0 * n
    BY <1>1, <1>4
  <2> QED
    BY <1>1, <2>1, RoundWhole
<1> HIDE DEF value, rest, line, p
<1>7. /\ \A q \in Places : Sound(stock'[q])
      /\ Worth \in Int /\ Worth' = Worth - value
  <2>1. /\ \A q \in Places : Sound(stock'[q])
        /\ Worth \in Int /\ Worth' = Worth + rest.value - stock[p].value
    BY <1>1, <1>2, <1>4, OneRow
  <2> QED
    BY <1>3, <1>4, <2>1
<1>8. StoreValues'
  BY <1>2, <1>4, <1>5, <1>7 DEF StoreValues
<1>9. AccountMatchesStock'
  BY <1>2, <1>4, <1>7 DEF AccountMatchesStock, Worth, StoreValues
<1>10. GivenSoFar'
  <2>1. sale'[s] = line /\ \A r \in Sales \ {s} : sale'[r] = sale[r]
    BY <1>2 DEF StoreValues
  <2> QED
    BY <1>1, <1>5, <1>6, <2>1 DEF GivenSoFar
<1> QED
  BY <1>8, <1>9, <1>10

(* The cost that comes back is the difference of two shares of the line. *)
LEMMA CostBackNat ==
  ASSUME StoreValues, NEW s \in Sales, NEW n \in Nat, sale[s].qty > 0
  PROVE  /\ CostBack(s, n) \in Nat
         /\ RoundDiv(sale[s].cogs * sale[s].back, sale[s].qty) + CostBack(s, n)
              = RoundDiv(sale[s].cogs * (sale[s].back + n), sale[s].qty)
<1> DEFINE q == sale[s].qty
           before == sale[s].cogs * sale[s].back
           after == sale[s].cogs * (sale[s].back + n)
<1>1. q \in Nat \ {0} /\ sale[s].cogs \in Nat /\ sale[s].back \in Nat
  BY DEF StoreValues, SaleRecords
<1>2. before \in Nat /\ after \in Nat /\ before <= after
  <2>1. after = before + sale[s].cogs * n /\ sale[s].cogs * n \in Nat /\ before \in Nat
    BY <1>1
  <2> QED
    BY <2>1
<1>3. CostBack(s, n) = RoundDiv(after, q) - RoundDiv(before, q)
  BY DEF CostBack
<1> HIDE DEF q, before, after
<1>4. /\ RoundDiv(before, q) \in Nat /\ RoundDiv(after, q) \in Nat
      /\ RoundDiv(before, q) <= RoundDiv(after, q)
  BY <1>1, <1>2, RoundNat, RoundMonotone
<1>5. CostBack(s, n) \in Nat /\ RoundDiv(before, q) + CostBack(s, n) = RoundDiv(after, q)
  BY <1>3, <1>4
<1> QED
  BY <1>5 DEF q, before, after

LEMMA TakeBackKeeps ==
  ASSUME VInv, NEW s \in Sales, NEW n \in 1..MaxQty, NEW restock \in BOOLEAN, NEW p \in Places,
         TakeBack(s, n, restock, p)
  PROVE  StoreValues' /\ AccountMatchesStock' /\ GivenSoFar'
<1> USE DEF VInv
<1> DEFINE part == CostBack(s, n)
           line == [sale[s] EXCEPT !.back = @ + n, !.given = IF restock THEN @ + part ELSE @,
                                   !.kept = @ /\ restock]
<1>1. n \in Nat \ {0}
  BY WarehouseConstants
<1>2. /\ sale[s] \in SaleRecords /\ sale[s].back + n <= sale[s].qty
      /\ sale' = [sale EXCEPT ![s] = line]
      /\ UNCHANGED <<way, unbooked, arrived, lost>>
  BY DEF TakeBack, StoreValues
<1>3. sale[s].qty > 0
  BY <1>1, <1>2 DEF SaleRecords
<1>4. /\ part \in Nat
      /\ RoundDiv(sale[s].cogs * sale[s].back, sale[s].qty) + part
           = RoundDiv(sale[s].cogs * (sale[s].back + n), sale[s].qty)
  BY <1>1, <1>3, CostBackNat
<1>5. /\ \A q \in Places : Sound(stock'[q])
      /\ lastIn' \in [Places -> Nat] /\ account' \in Int
      /\ account' - account = Worth' - Worth /\ Worth \in Int /\ Worth' \in Int
  <2>1. CASE restock
    <3> DEFINE cost == RoundDiv(part, n)
               new == Entered(stock[p], n, cost, part)
    <3>1. Sound(stock[p]) /\ stock[p].value \in Int
      BY DEF StoreValues, Sound, Balances
    <3>2. cost \in Nat
      BY <1>1, <1>4, RoundNat
    <3>3. /\ stock' = [stock EXCEPT ![p] = new] /\ account' = account + part
          /\ lastIn' = [lastIn EXCEPT ![p] = cost]
      BY <2>1 DEF TakeBack
    <3> HIDE DEF cost, part
    <3>4. Sound(new) /\ new.value = stock[p].value + part
      <4>1. Sound(new)
        BY <1>1, <1>4, <3>1, <3>2, EnteredSound
      <4> QED
        BY <4>1 DEF Entered
    <3> HIDE DEF new
    <3>5. /\ \A q \in Places : Sound(stock'[q])
          /\ Worth \in Int /\ Worth' = Worth + new.value - stock[p].value
      BY <3>3, <3>4, OneRow
    <3> QED
      BY <1>4, <3>1, <3>2, <3>3, <3>4, <3>5 DEF StoreValues
  <2>2. CASE ~restock
    <3>1. UNCHANGED <<stock, lastIn, account>>
      BY <2>2 DEF TakeBack
    <3>2. Worth \in Int
      BY DEF StoreValues, Sound, Balances, Worth, Places
    <3> QED
      BY <3>1, <3>2 DEF StoreValues, Worth
  <2> QED
    BY <2>1, <2>2
<1>6. /\ line \in SaleRecords
      /\ line.qty = sale[s].qty /\ line.cogs = sale[s].cogs /\ line.back = sale[s].back + n
      /\ line.kept => sale[s].kept /\ line.given = sale[s].given + part
  <2>1. PICK b \in BOOLEAN :
          /\ line = [sale[s] EXCEPT !.back = @ + n, !.given = IF restock THEN @ + part ELSE @,
                                    !.kept = b]
          /\ b => sale[s].kept /\ restock
    <3>1. (sale[s].kept /\ restock) \in BOOLEAN
      OBVIOUS
    <3> QED
      BY <3>1
  <2>2. line.kept = b
    BY <1>2, <2>1 DEF SaleRecords
  <2> HIDE DEF part, line
  <2>3. sale[s].given \in Nat /\ sale[s].back \in Nat
    BY <1>2 DEF SaleRecords
  <2>4. /\ line.qty = sale[s].qty /\ line.cogs = sale[s].cogs /\ line.back = sale[s].back + n
        /\ line.given = IF restock THEN sale[s].given + part ELSE sale[s].given
    BY <1>2, <2>1 DEF SaleRecords
  <2>5. line \in SaleRecords
    <3>1. line = [qty |-> sale[s].qty, cogs |-> sale[s].cogs, back |-> sale[s].back + n,
                  given |-> IF restock THEN sale[s].given + part ELSE sale[s].given, kept |-> b]
      BY <1>2, <2>1 DEF SaleRecords
    <3>2. (IF restock THEN sale[s].given + part ELSE sale[s].given) \in Nat
      BY <1>4, <2>3
    <3>3. sale[s].back + n \in Nat /\ sale[s].qty \in Nat /\ sale[s].cogs \in Nat
      BY <1>1, <1>2, <2>3 DEF SaleRecords
    <3> QED
      BY <3>1, <3>2, <3>3 DEF SaleRecords
  <2> QED
    BY <2>1, <2>2, <2>4, <2>5
<1> HIDE DEF part, line
<1>7. StoreValues'
  BY <1>2, <1>5, <1>6 DEF StoreValues
<1>8. AccountMatchesStock'
  BY <1>2, <1>5 DEF AccountMatchesStock, Worth, StoreValues
<1>9. GivenSoFar'
  <2>1. sale'[s] = line /\ \A r \in Sales \ {s} : sale'[r] = sale[r]
    BY <1>2 DEF StoreValues
  <2>2. line.kept => line.given = RoundDiv(line.cogs * line.back, line.qty)
    BY <1>3, <1>4, <1>6 DEF GivenSoFar
  <2> QED
    BY <1>2, <1>6, <2>1, <2>2 DEF GivenSoFar
<1> QED
  BY <1>7, <1>8, <1>9

LEMMA PostTransferKeeps ==
  ASSUME VInv, NEW t \in Transfers, PostTransfer(t)
  PROVE  StoreValues' /\ AccountMatchesStock' /\ GivenSoFar'
<1> USE DEF VInv
<1> DEFINE n == transfer[t].qty
           from == transfer[t].from
           to == Opposite(from)
           value == OutValue(stock[from], n, way)
           cost == RoundDiv(value, n)
           rest == Issued(stock[from], n, way)
           new == Entered(stock[to], n, cost, value)
<1>1. /\ n \in Nat \ {0} /\ from \in Places /\ to \in Places /\ to # from
      /\ \A p \in Places : p = from \/ p = to
  BY DEF PostTransfer, CInv, Amounts, TransferRecords, Opposite, Places, StoreValues
<1>2. /\ stock[from].on >= n /\ Lawful(rest)
      /\ stock' = [stock EXCEPT ![from] = rest, ![to] = new]
      /\ lastIn' = [lastIn EXCEPT ![to] = cost]
      /\ UNCHANGED <<way, account, unbooked, sale, arrived, lost>>
  BY DEF PostTransfer, Landing
<1> HIDE DEF n, from, to
<1>3. /\ Sound(stock[from]) /\ Sound(stock[to]) /\ n <= stock[from].on
      /\ stock[from].value \in Int /\ stock[to].value \in Int
  BY <1>1, <1>2 DEF StoreValues, Sound, Balances
<1>4. Sound(rest) /\ value \in Nat /\ rest.value = stock[from].value - value
  BY <1>1, <1>2, <1>3, IssuedSound
<1> HIDE DEF rest, value
<1>5. cost \in Nat
  BY <1>1, <1>4, RoundNat
<1> HIDE DEF cost
<1>6. Sound(new) /\ new.value = stock[to].value + value
  <2>1. Sound(new)
    BY <1>1, <1>3, <1>4, <1>5, EnteredSound
  <2> QED
    BY <2>1 DEF Entered
<1> HIDE DEF new
<1>7. stock'[from] = rest /\ stock'[to] = new
  BY <1>1, <1>2 DEF CInv, Amounts
<1>8. \A p \in Places : Sound(stock'[p])
  BY <1>1, <1>4, <1>6, <1>7
<1>9. Worth' = Worth
  <2>1. /\ Worth = stock[from].value + stock[to].value
        /\ Worth' = stock'[from].value + stock'[to].value
    <3>1. \A p \in Places : stock'[p].value \in Int /\ stock[p].value \in Int
      BY <1>8 DEF StoreValues, Sound, Balances
    <3> QED
      BY <1>1, <3>1 DEF Worth, Places
  <2> QED
    BY <1>3, <1>4, <1>6, <1>7, <2>1
<1>10. StoreValues'
  BY <1>2, <1>5, <1>8 DEF StoreValues
<1> QED
  BY <1>2, <1>9, <1>10 DEF AccountMatchesStock, Worth, GivenSoFar

LEMMA PostCountKeeps ==
  ASSUME VInv, NEW c \in Counts, PostCount(c)
  PROVE  StoreValues' /\ AccountMatchesStock' /\ GivenSoFar'
<1> USE DEF VInv
<1> DEFINE p == count[c].at
           n == count[c].counted
           row == stock[p]
           new == Counted(p, n)
           rate == SurplusCost(p)
<1>1. p \in Places /\ n \in Nat
  BY DEF CInv, Amounts, CountRecords, StoreValues
<1>2. /\ Lawful(new)
      /\ stock' = [stock EXCEPT ![p] = new]
      /\ lastIn' = IF n > row.on THEN [lastIn EXCEPT ![p] = rate] ELSE lastIn
      /\ account' = account + new.value - row.value
      /\ UNCHANGED <<way, unbooked, sale, arrived, lost>>
  BY DEF PostCount
<1> HIDE DEF p, n
<1>3. Sound(row) /\ row.value \in Nat /\ row.on \in Nat
  BY <1>1 DEF StoreValues, Sound, Balances
<1>4. rate \in Nat
  BY <1>1, <1>3, RoundNat DEF SurplusCost, StoreValues
<1>5. Sound(new)
  <2>1. CASE n > row.on
    <3> DEFINE more == n - row.on
               worth == more * rate
    <3>1. more \in Nat /\ worth \in Nat
      BY <1>1, <1>3, <1>4, <2>1
    <3>2. new = Entered(row, more, rate, worth)
      BY <2>1 DEF Counted
    <3> HIDE DEF more, worth, row, rate
    <3> QED
      BY <1>3, <1>4, <3>1, <3>2, EnteredSound
  <2>2. CASE n < row.on
    <3> DEFINE less == row.on - n
    <3>1. less \in Nat \ {0} /\ less <= row.on
      BY <1>1, <1>3, <2>2
    <3>2. new = Issued(row, less, way)
      BY <1>1, <1>3, <2>2 DEF Counted
    <3> HIDE DEF less, row, new
    <3> QED
      BY <1>1, <1>2, <1>3, <3>1, <3>2, IssuedSound
  <2>3. CASE n = row.on
    BY <1>3, <2>3 DEF Counted
  <2> QED
    BY <1>1, <1>3, <2>1, <2>2, <2>3
<1> HIDE DEF rate, new
<1>6. /\ \A q \in Places : Sound(stock'[q])
      /\ Worth \in Int /\ Worth' = Worth + new.value - row.value
  BY <1>1, <1>2, <1>5, OneRow
<1>7. new.value \in Nat
  BY <1>5 DEF Sound, Balances
<1>8. lastIn' \in [Places -> Nat]
  BY <1>1, <1>2, <1>4 DEF StoreValues
<1> HIDE DEF row
<1>9. StoreValues'
  BY <1>2, <1>3, <1>6, <1>7, <1>8 DEF StoreValues
<1>10. AccountMatchesStock'
  BY <1>2, <1>3, <1>6, <1>7 DEF AccountMatchesStock, Worth, StoreValues
<1> QED
  BY <1>2, <1>9, <1>10 DEF GivenSoFar

(* The steps that leave the rows alone. *)
LEMMA RestKeeps ==
  ASSUME VInv, NEW m \in Methods, NEW p \in Places,
         \/ Lose(p) \/ BookSales \/ SetWay(m) \/ OnPaper \/ UNCHANGED wvars
  PROVE  StoreValues' /\ AccountMatchesStock' /\ GivenSoFar'
<1> USE DEF VInv
<1>1. CASE Lose(p)
  BY <1>1 DEF Lose, StoreValues, AccountMatchesStock, GivenSoFar
<1>2. CASE BookSales
  <2>1. stock["shop"].value \in Int /\ stock["store"].value \in Int
    BY DEF StoreValues, Sound, Balances, Places
  <2> QED
    BY <1>2, <2>1 DEF BookSales, paper, StoreValues, AccountMatchesStock, GivenSoFar
<1>3. CASE SetWay(m)
  BY <1>3 DEF SetWay, paper, StoreValues, AccountMatchesStock, GivenSoFar
<1>4. CASE OnPaper
  BY <1>4 DEF OnPaper, StoreValues, AccountMatchesStock, GivenSoFar
<1>5. CASE UNCHANGED wvars
  BY <1>5 DEF wvars, StoreValues, AccountMatchesStock, GivenSoFar
<1> QED
  BY <1>1, <1>2, <1>3, <1>4, <1>5

LEMMA VInvInit == WarehouseInit => VInv
<1> SUFFICES ASSUME WarehouseInit PROVE VInv
  OBVIOUS
<1>1. CInv
  BY InitCInv
<1>2. Sound(NoStock)
  BY DEF Sound, NoStock, Balances
<1>3. NoSale \in SaleRecords
  BY DEF NoSale, SaleRecords
<1>4. StoreValues
  BY <1>2, <1>3 DEF WarehouseInit, StoreValues
<1>5. AccountMatchesStock
  BY DEF WarehouseInit, AccountMatchesStock, Places, NoStock
<1>6. GivenSoFar
  BY DEF WarehouseInit, GivenSoFar, NoSale
<1> QED
  BY <1>1, <1>4, <1>5, <1>6 DEF VInv

LEMMA VInvHolds == WarehouseSpec => []VInv
<1>1. VInv /\ [WarehouseNext]_wvars => VInv'
  <2> SUFFICES ASSUME VInv, [WarehouseNext]_wvars PROVE VInv'
    OBVIOUS
  <2>1. CInv'
    BY NextCInv DEF VInv
  <2>2. "shop" \in Places /\ way \in Methods
    BY DEF Places, VInv, StoreValues
  <2>3. ASSUME NEW t \in Transfers, TransferSteps(t), ~PostTransfer(t) PROVE OnPaper
    BY <2>3 DEF TransferSteps, CreateTransfer, SeeDraft, Discard
  <2>4. ASSUME NEW c \in Counts, CountSteps(c), ~PostCount(c) PROVE OnPaper
    BY <2>4 DEF CountSteps, OpenCount, CountShelf, Unlist, CancelCount
  <2>5. EditLands => OnPaper
    BY DEF EditLands
  <2>6. GoodsMove => StoreValues' /\ AccountMatchesStock' /\ GivenSoFar'
    BY <2>2, ArriveKeeps, SellKeeps, TakeBackKeeps, RestKeeps DEF GoodsMove
  <2>7. StoreValues' /\ AccountMatchesStock' /\ GivenSoFar'
    BY <2>2, <2>3, <2>4, <2>5, <2>6, PostTransferKeeps, PostCountKeeps, RestKeeps
    DEF WarehouseNext
  <2> QED
    BY <2>1, <2>7 DEF VInv
<1> QED
  BY <1>1, VInvInit, PTL DEF WarehouseSpec

(* Every variable keeps its type: no costing rule makes a row or a rate        *)
(* negative or fractional (WarehouseTypeOK).                                 *)
THEOREM WarehouseTypeCorrect == WarehouseSpec => []WarehouseTypeOK
<1>1. VInv => WarehouseTypeOK
  BY DEF VInv, CInv, Amounts, StoreValues, Sound, WarehouseTypeOK
<1> QED
  BY <1>1, VInvHolds, PTL

(* The inventory account and the shelves never part, whatever is bought, sold, *)
(* carried, counted or taken back (AccountMatchesStock).                     *)
THEOREM AccountIsStock == WarehouseSpec => []AccountMatchesStock
<1>1. VInv => AccountMatchesStock
  BY DEF VInv
<1> QED
  BY <1>1, VInvHolds, PTL

(* The layers of a warehouse hold as many units as its row says, by whichever *)
(* method they are valued (LayersMatchStock).                                *)
THEOREM LayersAreStock == WarehouseSpec => []LayersMatchStock
<1>1. VInv => LayersMatchStock
  BY DEF VInv, StoreValues, Sound, LayersMatchStock
<1> QED
  BY <1>1, VInvHolds, PTL

(* The parts of a sold line that come back to a shelf bring, together, exactly *)
(* the cost the line was sold at (SoldComesBackWhole).                       *)
THEOREM CostComesBack == WarehouseSpec => []SoldComesBackWhole
<1>1. ASSUME VInv PROVE SoldComesBackWhole
  <2> SUFFICES ASSUME NEW s \in Sales, sale[s].qty > 0, sale[s].back = sale[s].qty, sale[s].kept
               PROVE  sale[s].given = sale[s].cogs
    BY <1>1 DEF VInv, GivenSoFar, SoldComesBackWhole
  <2>1. sale[s].cogs \in Nat /\ sale[s].qty \in Nat \ {0}
    BY <1>1 DEF VInv, StoreValues, SaleRecords
  <2>2. sale[s].given = RoundDiv(sale[s].cogs * sale[s].qty, sale[s].qty)
    BY <1>1 DEF VInv, GivenSoFar
  <2> QED
    BY <2>1, <2>2, RoundWhole
<1> QED
  BY <1>1, VInvHolds, PTL

(***************************************************************************)
(* Purchasing.                                                               *)
(***************************************************************************)
-----------------------------------------------------------------------------
(* Receipts.                                                                *)

Papers ==
  /\ order \in [status : {"draft", "sent", "closed", "cancelled"}, qty : BuyQty]
  /\ receipt \in [Receipts -> ReceiptRecords]
  /\ asked \in [Receipts -> Nat]

(* Only a posted receipt gives goods back, never more than came; the last      *)
(* line is there if any is; and a whole line given back carried its cost.     *)
Given(r, k) ==
  LET l == receipt[r].line[k]
  IN /\ receipt[r].status # "posted" => l.returned = 0 /\ l.given = 0
     /\ l.returned <= l.qty
     /\ l.qty > 0 /\ l.returned = l.qty => l.given = Landed(r, k)

LastIsThere ==
  \A r \in Receipts : Pieces(r) > 0 => receipt[r].line[receipt[r].last].qty > 0

RInv ==
  /\ Papers /\ LastIsThere
  /\ \A r \in Receipts, k \in Kinds : Given(r, k)

(* The shape of a receipt. *)
LEMMA Parts ==
  ASSUME Papers, NEW r \in Receipts
  PROVE  /\ receipt[r] \in ReceiptRecords
         /\ receipt[r].last \in Kinds
         /\ \A k \in Kinds : /\ receipt[r].line[k] \in Lines
                             /\ receipt[r].line[k].qty \in Nat
                             /\ receipt[r].line[k].returned \in Nat
                             /\ receipt[r].line[k].given \in Int
         /\ Pieces(r) \in Nat
         /\ \A k \in Kinds : /\ Other(k) \in Kinds /\ Other(k) # k
                             /\ receipt[r].line[k].qty <= Pieces(r)
                             /\ Pieces(r) = receipt[r].line[k].qty
                                            + receipt[r].line[Other(k)].qty
<1>1. receipt[r] \in ReceiptRecords
  BY DEF Papers
<1>2. \A k \in Kinds : receipt[r].line[k] \in Lines
  BY <1>1 DEF ReceiptRecords
<1>3. \A k \in Kinds : /\ receipt[r].line[k].qty \in Nat
                       /\ receipt[r].line[k].returned \in Nat
                       /\ receipt[r].line[k].given \in Int
  BY <1>2 DEF Lines
<1>4. Kinds = {"ordered", "loose"}
  BY DEF Kinds
<1>5. /\ Pieces(r) \in Nat
      /\ \A k \in Kinds : /\ Other(k) \in Kinds /\ Other(k) # k
                          /\ receipt[r].line[k].qty <= Pieces(r)
                          /\ Pieces(r) = receipt[r].line[k].qty
                                         + receipt[r].line[Other(k)].qty
  BY <1>3, <1>4 DEF Pieces, Other
<1> QED
  BY <1>1, <1>2, <1>3, <1>5 DEF ReceiptRecords

(* The parts of the charge are natural numbers that add up to it. *)
LEMMA Shares ==
  ASSUME Papers, NEW r \in Receipts, Pieces(r) > 0
  PROVE  /\ Charge(r) \in Nat
         /\ \A k \in Kinds : Part(r, k) \in Nat /\ Share(r, k) \in Nat
         /\ Share(r, "ordered") + Share(r, "loose") = Charge(r)
         /\ \A k \in Kinds : receipt[r].line[k].qty = 0 => Part(r, k) = 0
<1>1. Charge(r) \in Nat
  BY PurchasingConstants DEF Charge
<1>2. ASSUME NEW k \in Kinds
      PROVE  Part(r, k) \in Nat /\ Part(r, k) <= Charge(r)
  <2> DEFINE q == receipt[r].line[k].qty
             n == Pieces(r)
             c == Charge(r)
  <2>1. q \in Nat /\ n \in Nat \ {0} /\ q <= n
    <3>1. q \in Nat /\ n \in Nat /\ q <= n
      BY Parts
    <3> QED
      BY <3>1
  <2> HIDE DEF q, n, c
  <2>2. c \in Nat /\ c * q \in Nat /\ c * n \in Nat /\ c * q <= c * n
    <3>1. c \in Nat
      BY <1>1 DEF c
    <3>2. \E d \in Nat : n = q + d
      <4>1. n - q \in Nat /\ n = q + (n - q)
        BY <2>1
      <4> QED
        BY <4>1
    <3> QED
      BY <2>1, <3>1, <3>2
  <2>3. /\ RoundDiv(c * q, n) \in Nat
        /\ RoundDiv(c * q, n) <= RoundDiv(c * n, n) /\ RoundDiv(c * n, n) = c
    BY <2>1, <2>2, RoundNat, RoundMonotone, RoundWhole
  <2> QED
    BY <2>2, <2>3 DEF Part, q, n, c
<1>3. receipt[r].last \in {"ordered", "loose"}
  BY Parts DEF Kinds
<1>4. /\ \A k \in Kinds : Share(r, k) \in Nat
      /\ Share(r, "ordered") + Share(r, "loose") = Charge(r)
  BY <1>1, <1>2, <1>3 DEF Share, Other, Kinds
<1>5. ASSUME NEW k \in Kinds, receipt[r].line[k].qty = 0 PROVE Part(r, k) = 0
  <2>1. Pieces(r) \in Nat \ {0} /\ Charge(r) * 0 = 0 * Pieces(r)
    BY <1>1, Parts
  <2> QED
    BY <1>5, <2>1, RoundWhole DEF Part
<1> QED
  BY <1>1, <1>2, <1>4, <1>5

(* Landed cost of a line that is there. *)
LEMMA LandedNat ==
  ASSUME Papers, NEW r \in Receipts, NEW k \in Kinds, receipt[r].line[k].qty > 0
  PROVE  Landed(r, k) \in Nat /\ UnitCost(r, k) \in Nat
<1>1. receipt[r].line[k].qty \in Nat \ {0} /\ Pieces(r) > 0
  BY Parts
<1>2. Share(r, k) \in Nat
  BY <1>1, Shares
<1>3. Price[r] \in Nat
  BY PurchasingConstants
<1>4. Landed(r, k) \in Nat
  BY <1>1, <1>2, <1>3 DEF Landed, Amount
<1> QED
  BY <1>1, <1>4, RoundNat DEF UnitCost

(* A receipt that did not change says what it said. *)
LEMMA SameReceipt ==
  ASSUME NEW q \in Receipts, receipt'[q] = receipt[q]
  PROVE  /\ Pieces(q)' = Pieces(q)
         /\ \A k \in Kinds : Landed(q, k)' = Landed(q, k) /\ (Given(q, k)' <=> Given(q, k))
<1>1. Pieces(q)' = Pieces(q)
  BY DEF Pieces
<1>2. \A k \in Kinds : Part(q, k)' = Part(q, k)
  BY <1>1 DEF Part, Charge
<1>3. \A k \in Kinds : Other(k) \in Kinds
  BY DEF Other, Kinds
<1>4. \A k \in Kinds : Share(q, k)' = Share(q, k)
  BY <1>2, <1>3 DEF Share, Charge
<1>5. \A k \in Kinds : Landed(q, k)' = Landed(q, k)
  BY <1>4 DEF Landed, Amount
<1>6. \A k \in Kinds : Given(q, k)' <=> Given(q, k)
  BY <1>5 DEF Given
<1> QED
  BY <1>1, <1>5, <1>6

(* One receipt changes, and gives nothing back or is not posted. *)
LEMMA ChangedReceipt ==
  ASSUME RInv, NEW r \in Receipts, NEW new \in ReceiptRecords,
         receipt' = [receipt EXCEPT ![r] = new], UNCHANGED order,
         asked' \in [Receipts -> Nat],
         \A k \in Kinds : new.line[k].returned = 0 /\ new.line[k].given = 0,
         new.line[new.last].qty > 0
           \/ (new.line["ordered"].qty = 0 /\ new.line["loose"].qty = 0)
  PROVE  RInv'
<1> USE DEF RInv
<1>1. receipt'[r] = new /\ \A q \in Receipts \ {r} : receipt'[q] = receipt[q]
  BY DEF Papers
<1>2. Papers'
  BY DEF Papers
<1>3. LastIsThere'
  <2>1. ASSUME NEW q \in Receipts \ {r}, Pieces(q)' > 0
        PROVE  receipt'[q].line[receipt'[q].last].qty > 0
    BY <1>1, <2>1, SameReceipt DEF LastIsThere
  <2>2. Pieces(r)' > 0 => new.line[new.last].qty > 0
    BY <1>1 DEF Pieces
  <2> QED
    BY <1>1, <2>1, <2>2 DEF LastIsThere
<1>4. ASSUME NEW q \in Receipts, NEW k \in Kinds PROVE Given(q, k)'
  <2>1. CASE q # r
    BY <1>1, <2>1, SameReceipt
  <2>2. CASE q = r
    <3>1. new.line[k].qty \in Nat
      BY DEF ReceiptRecords, Lines
    <3> QED
      BY <1>1, <2>2, <3>1 DEF Given
  <2> QED
    BY <2>1, <2>2
<1> QED
  BY <1>2, <1>3, <1>4

(* A draft gave nothing back. *)
LEMMA DraftGaveNothing ==
  ASSUME RInv, NEW r \in Receipts, receipt[r].status # "posted"
  PROVE  \A k \in Kinds : receipt[r].line[k].returned = 0 /\ receipt[r].line[k].given = 0
  BY DEF RInv, Given

(* A receipt with other lines is a receipt. *)
LEMMA Relined ==
  ASSUME NEW x \in ReceiptRecords, NEW l \in [Kinds -> Lines], NEW w \in Kinds
  PROVE  [x EXCEPT !.line = l, !.last = w] \in ReceiptRecords
BY DEF ReceiptRecords

LEMMA EditKeeps ==
  ASSUME RInv, NEW r \in Receipts, NEW k \in Kinds, NEW n \in Nat \ {0},
         \/ AddLine(r, k, n) \/ SetLine(r, k, n) \/ RemoveLine(r, k)
         \/ AddCharge(r) \/ RemoveCharge(r) \/ CancelReceipt(r)
  PROVE  RInv'
<1> DEFINE old == receipt[r]
<1>1. /\ old \in ReceiptRecords /\ old.last \in Kinds
      /\ \A j \in Kinds : old.line[j] \in Lines /\ old.line[j].qty \in Nat
      /\ Kinds = {"ordered", "loose"} /\ n \in Nat \ {0}
  BY Parts, PurchasingConstants DEF RInv, Kinds
<1>2. old.line \in [Kinds -> Lines]
  BY <1>1 DEF ReceiptRecords
<1>3. old.line[old.last].qty > 0 \/ (old.line["ordered"].qty = 0 /\ old.line["loose"].qty = 0)
  BY <1>1 DEF RInv, LastIsThere, Pieces
<1>4. old.status = "draft"
  BY DEF AddLine, SetLine, RemoveLine, AddCharge, RemoveCharge, CancelReceipt, Edit
<1>5. \A j \in Kinds : old.line[j].returned = 0 /\ old.line[j].given = 0
  BY <1>4, DraftGaveNothing
<1>6. asked \in [Receipts -> Nat]
  BY DEF RInv, Papers
<1>7. ASSUME NEW new \in ReceiptRecords, Edit(r, new),
             \A j \in Kinds : new.line[j].returned = 0 /\ new.line[j].given = 0,
             new.line[new.last].qty > 0
               \/ (new.line["ordered"].qty = 0 /\ new.line["loose"].qty = 0)
      PROVE  RInv'
  <2>1. /\ receipt' = [receipt EXCEPT ![r] = new] /\ UNCHANGED order
        /\ asked' \in [Receipts -> Nat]
    BY <1>6, <1>7 DEF Edit
  <2> HIDE DEF old
  <2> QED
    BY <1>7, <2>1, ChangedReceipt
<1>8. CASE AddLine(r, k, n)
  <2> DEFINE l == [old.line EXCEPT ![k].qty = @ + n]
             new == [old EXCEPT !.line[k].qty = @ + n,
                                !.last = IF old.line[k].qty = 0 THEN k ELSE @]
  <2>1. /\ l \in [Kinds -> Lines]
        /\ \A j \in Kinds : l[j].returned = 0 /\ l[j].given = 0
        /\ \A j \in Kinds : l[j].qty = IF j = k THEN old.line[k].qty + n ELSE old.line[j].qty
    BY <1>1, <1>2, <1>5 DEF Lines
  <2>2. new.line = l /\ new.last = IF old.line[k].qty = 0 THEN k ELSE old.last
    BY <1>1, <1>2 DEF ReceiptRecords
  <2>3. new \in ReceiptRecords
    <3>1. PICK w \in Kinds : w = IF old.line[k].qty = 0 THEN k ELSE old.last
      BY <1>1
    <3>2. new = [old EXCEPT !.line = l, !.last = w]
      BY <3>1
    <3>3. [old EXCEPT !.line = l, !.last = w] \in ReceiptRecords
      BY <1>1, <2>1, Relined
    <3> QED
      BY <3>2, <3>3
  <2>4. new.line[new.last].qty > 0
    <3>1. CASE old.line[k].qty = 0
      BY <1>1, <2>1, <2>2, <3>1
    <3>2. CASE old.line[k].qty # 0
      <4>1. old.line[old.last].qty > 0
        BY <1>1, <1>3, <3>2
      <4> QED
        BY <1>1, <2>1, <2>2, <3>2, <4>1
    <3> QED
      BY <3>1, <3>2
  <2>5. Edit(r, new)
    BY <1>8 DEF AddLine
  <2> HIDE DEF new, l
  <2> QED
    BY <1>7, <2>1, <2>2, <2>3, <2>4, <2>5
<1>9. CASE SetLine(r, k, n)
  <2> DEFINE l == [old.line EXCEPT ![k].qty = n]
             new == [old EXCEPT !.line[k].qty = n]
  <2>1. /\ l \in [Kinds -> Lines]
        /\ \A j \in Kinds : l[j].returned = 0 /\ l[j].given = 0
        /\ \A j \in Kinds : l[j].qty = IF j = k THEN n ELSE old.line[j].qty
    BY <1>1, <1>2, <1>5 DEF Lines
  <2>2. new.line = l /\ new.last = old.last
    BY <1>1, <1>2 DEF ReceiptRecords
  <2>3. new \in ReceiptRecords
    BY <1>1, <2>1, <2>2 DEF ReceiptRecords
  <2>4. Edit(r, new) /\ old.line[k].qty # 0
    BY <1>9 DEF SetLine
  <2>5. new.line[new.last].qty > 0
    <3>1. old.line[old.last].qty > 0
      BY <1>1, <1>3, <2>4
    <3> QED
      BY <1>1, <2>1, <2>2, <3>1
  <2> HIDE DEF new, l
  <2> QED
    BY <1>7, <2>1, <2>2, <2>3, <2>4, <2>5
<1>10. CASE RemoveLine(r, k)
  <2> DEFINE l == [old.line EXCEPT ![k] = NoLine]
             new == [old EXCEPT !.line[k] = NoLine, !.last = Other(k)]
  <2>1. NoLine \in Lines /\ NoLine.qty = 0 /\ NoLine.returned = 0 /\ NoLine.given = 0
    BY DEF NoLine, Lines
  <2>2. Other(k) \in Kinds /\ Other(k) # k
    BY Parts DEF RInv
  <2>3. /\ l \in [Kinds -> Lines]
        /\ \A j \in Kinds : l[j].returned = 0 /\ l[j].given = 0
        /\ l[k].qty = 0 /\ l[Other(k)].qty = old.line[Other(k)].qty
    BY <1>1, <1>2, <1>5, <2>1, <2>2
  <2>4. new.line = l /\ new.last = Other(k)
    BY <1>1, <1>2 DEF ReceiptRecords
  <2>5. new \in ReceiptRecords
    BY <1>1, <2>2, <2>3, <2>4 DEF ReceiptRecords
  <2>6. \/ new.line[new.last].qty > 0
        \/ (new.line["ordered"].qty = 0 /\ new.line["loose"].qty = 0)
    BY <1>1, <2>2, <2>3, <2>4
  <2>7. Edit(r, new)
    BY <1>10 DEF RemoveLine
  <2> HIDE DEF new, l
  <2> QED
    BY <1>7, <2>3, <2>4, <2>5, <2>6, <2>7
<1>11. CASE AddCharge(r) \/ RemoveCharge(r) \/ CancelReceipt(r)
  <2>1. PICK b \in BOOLEAN, st \in {"draft", "cancelled"} :
          Edit(r, [old EXCEPT !.freight = b, !.status = st])
    <3>1. /\ old = [old EXCEPT !.freight = old.freight] /\ old.freight \in BOOLEAN
          /\ old = [old EXCEPT !.status = "draft"]
      BY <1>1, <1>4 DEF ReceiptRecords
    <3>2. \A b \in BOOLEAN : [old EXCEPT !.freight = b]
                              = [old EXCEPT !.freight = b, !.status = "draft"]
      BY <1>1, <1>4 DEF ReceiptRecords
    <3>3. [old EXCEPT !.status = "cancelled"]
            = [old EXCEPT !.freight = old.freight, !.status = "cancelled"]
      BY <1>1 DEF ReceiptRecords
    <3> QED
      BY <1>11, <3>1, <3>2, <3>3 DEF AddCharge, RemoveCharge, CancelReceipt
  <2> DEFINE new == [old EXCEPT !.freight = b, !.status = st]
  <2>2. new \in ReceiptRecords /\ new.line = old.line /\ new.last = old.last
    BY <1>1 DEF ReceiptRecords
  <2> HIDE DEF new
  <2> QED
    BY <1>3, <1>5, <1>7, <2>1, <2>2 DEF new
<1> QED
  BY <1>8, <1>9, <1>10, <1>11

LEMMA OpenKeeps ==
  ASSUME RInv, NEW r \in Receipts, NEW linked \in BOOLEAN,
         AskReceipt(r) \/ OpenForOrder(r) \/ OpenReceipt(r, linked)
  PROVE  RInv'
<1> DEFINE old == receipt[r]
<1>1. /\ old \in ReceiptRecords /\ old.last \in Kinds
      /\ Kinds = {"ordered", "loose"}
  BY Parts DEF RInv, Kinds
<1>2. asked \in [Receipts -> Nat] /\ order.qty \in Nat
  BY PurchasingConstants DEF RInv, Papers, BuyQty
<1>3. old.status # "posted"
       => \A j \in Kinds : old.line[j].returned = 0 /\ old.line[j].given = 0
  BY DraftGaveNothing
<1>4. CASE AskReceipt(r)
  <2>1. asked' \in [Receipts -> Nat] /\ UNCHANGED <<order, receipt>>
    BY <1>2, <1>4 DEF AskReceipt
  <2>2. LastIsThere'
    BY <2>1 DEF RInv, LastIsThere, Pieces
  <2>3. \A q \in Receipts, k \in Kinds : Given(q, k)'
    BY <2>1, SameReceipt DEF RInv
  <2> QED
    BY <2>1, <2>2, <2>3 DEF RInv, Papers
<1>5. CASE OpenForOrder(r)
  <2> DEFINE n == asked[r]
             l == [old.line EXCEPT !["ordered"].qty = n]
             new == [old EXCEPT !.status = "draft", !.linked = TRUE,
                                !.line["ordered"].qty = n, !.last = "ordered"]
  <2>1. n \in Nat \ {0} /\ old.status = "none" /\ old.line \in [Kinds -> Lines]
    BY <1>1, <1>2, <1>5 DEF OpenForOrder, ReceiptRecords
  <2>2. /\ receipt' = [receipt EXCEPT ![r] = new] /\ UNCHANGED order
        /\ asked' \in [Receipts -> Nat]
    <3>1. asked' \in [Receipts -> Nat] /\ UNCHANGED order
      BY <1>2, <1>5 DEF OpenForOrder
    <3>2. receipt' = [receipt EXCEPT ![r] = new]
      BY <1>5, ZenonT(60) DEF OpenForOrder, RInv, Papers
    <3> QED
      BY <3>1, <3>2
  <2> HIDE DEF n
  <2>3. /\ l \in [Kinds -> Lines] /\ l["ordered"].qty = n
        /\ \A j \in Kinds : l[j].returned = 0 /\ l[j].given = 0
    BY <1>1, <1>3, <2>1 DEF Lines
  <2>4. new.line = l /\ new.last = "ordered"
    BY <1>1 DEF ReceiptRecords
  <2>5. new \in ReceiptRecords
    BY <1>1, <2>3, <2>4 DEF ReceiptRecords
  <2>6. /\ new.line[new.last].qty > 0
        /\ \A j \in Kinds : new.line[j].returned = 0 /\ new.line[j].given = 0
    BY <2>1, <2>3, <2>4
  <2> HIDE DEF new
  <2> QED
    BY <2>2, <2>5, <2>6, ChangedReceipt
<1>6. CASE OpenReceipt(r, linked)
  <2> DEFINE new == [old EXCEPT !.status = "draft", !.linked = linked]
  <2>1. old.status = "none"
    BY <1>6 DEF OpenReceipt
  <2>2. /\ receipt' = [receipt EXCEPT ![r] = new] /\ UNCHANGED order
        /\ asked' \in [Receipts -> Nat]
    BY <1>2, <1>6 DEF OpenReceipt, RInv, Papers
  <2>3. new \in ReceiptRecords /\ new.line = old.line /\ new.last = old.last
    BY <1>1 DEF ReceiptRecords
  <2>4. \/ old.line[old.last].qty > 0
        \/ (old.line["ordered"].qty = 0 /\ old.line["loose"].qty = 0)
    <3>1. \A k \in Kinds : old.line[k].qty \in Nat
      BY Parts DEF RInv
    <3> QED
      BY <1>1, <3>1 DEF RInv, LastIsThere, Pieces
  <2> HIDE DEF new, old
  <2> QED
    BY <1>3, <2>1, <2>2, <2>3, <2>4, ChangedReceipt
<1> QED
  BY <1>4, <1>5, <1>6

LEMMA PostKeeps ==
  ASSUME RInv, NEW r \in Receipts, PostReceipt(r)
  PROVE  RInv'
<1> DEFINE new == [receipt[r] EXCEPT !.status = "posted"]
<1>1. /\ receipt[r] \in ReceiptRecords /\ receipt[r].status = "draft"
      /\ receipt' = [receipt EXCEPT ![r] = new] /\ UNCHANGED order
      /\ asked' \in [Receipts -> Nat] /\ Pieces(r) > 0
  BY DEF PostReceipt, RInv, Papers
<1>2. new \in ReceiptRecords /\ new.line = receipt[r].line /\ new.last = receipt[r].last
  BY <1>1 DEF ReceiptRecords
<1>3. \A k \in Kinds : receipt[r].line[k].returned = 0 /\ receipt[r].line[k].given = 0
  BY <1>1, DraftGaveNothing
<1>4. receipt[r].line[receipt[r].last].qty > 0
  BY <1>1 DEF RInv, LastIsThere
<1> HIDE DEF new
<1> QED
  BY <1>1, <1>2, <1>3, <1>4, ChangedReceipt

(* What a return takes of a line. *)
LEMMA CostOfInt ==
  ASSUME RInv, NEW r \in Receipts, NEW k \in Kinds, NEW n \in Nat,
         receipt[r].line[k].returned + n <= receipt[r].line[k].qty
  PROVE  CostOf(r, k, n) \in Int
<1> DEFINE l == receipt[r].line[k]
<1>1. l.qty \in Nat /\ l.returned \in Nat /\ l.given \in Int
  BY Parts DEF RInv
<1>2. CASE n = 0
  BY <1>2 DEF CostOf
<1>3. CASE n > 0
  <2>1. l.qty \in Nat \ {0}
    BY <1>1, <1>3
  <2>2. Landed(r, k) \in Nat
    BY <2>1, LandedNat DEF RInv
  <2>3. Landed(r, k) * n \in Nat
    BY <2>2
  <2> HIDE DEF l
  <2>4. RoundDiv(Landed(r, k) * n, l.qty) \in Nat
    BY <2>1, <2>3, RoundNat
  <2> QED
    BY <1>1, <2>2, <2>4 DEF CostOf, l
<1> QED
  BY <1>2, <1>3

LEMMA ReturnKeeps ==
  ASSUME RInv, NEW r \in Receipts, NEW n \in [Kinds -> BuyQty], ReturnGoods(r, n)
  PROVE  RInv'
<1> USE DEF RInv
<1> DEFINE l == [k \in Kinds |-> Back(r, k, n[k])]
           new == [receipt[r] EXCEPT !.line = l]
<1>1. /\ receipt[r] \in ReceiptRecords /\ receipt[r].status = "posted"
      /\ receipt' = [receipt EXCEPT ![r].line = l] /\ UNCHANGED <<order, asked>>
      /\ \A k \in Kinds : receipt[r].line[k].returned + n[k] <= receipt[r].line[k].qty
  BY DEF ReturnGoods, Papers
<1>2. \A k \in Kinds : n[k] \in Nat
  BY PurchasingConstants DEF BuyQty
<1>3. ASSUME NEW k \in Kinds
      PROVE  /\ l[k] \in Lines /\ l[k].qty = receipt[r].line[k].qty
             /\ l[k].returned = receipt[r].line[k].returned + n[k]
             /\ l[k].given = receipt[r].line[k].given + CostOf(r, k, n[k])
  <2>1. CostOf(r, k, n[k]) \in Int
    BY <1>1, <1>2, CostOfInt
  <2>2. /\ receipt[r].line[k] \in Lines
        /\ receipt[r].line[k].returned \in Nat /\ receipt[r].line[k].given \in Int
    BY Parts
  <2>3. l[k] = [receipt[r].line[k] EXCEPT !.returned = receipt[r].line[k].returned + n[k],
                                          !.given = receipt[r].line[k].given + CostOf(r, k, n[k])]
    BY DEF Back
  <2>4. /\ receipt[r].line[k].returned + n[k] \in Nat
        /\ receipt[r].line[k].given + CostOf(r, k, n[k]) \in Int
    BY <1>2, <2>1, <2>2
  <2> HIDE DEF l
  <2> QED
    BY <2>2, <2>3, <2>4 DEF Lines
<1>4. l \in [Kinds -> Lines]
  BY <1>3
<1> HIDE DEF l
<1>5. /\ receipt'[r] = new /\ new \in ReceiptRecords
      /\ \A q \in Receipts \ {r} : receipt'[q] = receipt[q]
  BY <1>1, <1>4 DEF Papers, ReceiptRecords
<1>6. /\ new.line = l /\ new.last = receipt[r].last /\ new.freight = receipt[r].freight
      /\ new.status = "posted"
  BY <1>1 DEF ReceiptRecords
<1> HIDE DEF new
<1>7. Papers'
  BY <1>1, <1>4 DEF Papers, ReceiptRecords
<1>8. "ordered" \in Kinds /\ "loose" \in Kinds /\ receipt[r].last \in Kinds
  BY Parts DEF Kinds
<1>9. Pieces(r)' = Pieces(r)
  BY <1>3, <1>5, <1>6, <1>8 DEF Pieces
<1>10. \A k \in Kinds : Landed(r, k)' = Landed(r, k)
  <2>1. \A k \in Kinds : Part(r, k)' = Part(r, k)
    BY <1>3, <1>5, <1>6, <1>9 DEF Part, Charge
  <2>2. \A k \in Kinds : Other(k) \in Kinds
    BY DEF Other, Kinds
  <2>3. \A k \in Kinds : Share(r, k)' = Share(r, k)
    BY <1>5, <1>6, <2>1, <2>2 DEF Share, Charge
  <2> QED
    BY <1>3, <1>5, <1>6, <2>3 DEF Landed, Amount
<1>11. LastIsThere'
  <2>1. ASSUME NEW q \in Receipts \ {r}, Pieces(q)' > 0
        PROVE  receipt'[q].line[receipt'[q].last].qty > 0
    BY <1>5, <2>1, SameReceipt DEF LastIsThere
  <2>2. Pieces(r)' > 0 => receipt'[r].line[receipt'[r].last].qty > 0
    BY <1>3, <1>5, <1>6, <1>8, <1>9 DEF LastIsThere
  <2> QED
    BY <2>1, <2>2 DEF LastIsThere
<1>12. ASSUME NEW k \in Kinds PROVE Given(r, k)'
  <2> DEFINE old == receipt[r].line[k]
  <2>1. old.qty \in Nat /\ old.returned \in Nat /\ old.given \in Int
    BY Parts
  <2>2. /\ old.returned + n[k] <= old.qty
        /\ old.qty > 0 /\ old.returned = old.qty => old.given = Landed(r, k)
    BY <1>1 DEF Given
  <2>3. old.qty > 0 => Landed(r, k) \in Int
    BY LandedNat
  <2>4. old.qty > 0 /\ old.returned + n[k] = old.qty
          => old.given + CostOf(r, k, n[k]) = Landed(r, k)
    BY <1>2, <2>1, <2>2, <2>3 DEF CostOf
  <2> HIDE DEF old
  <2>5. /\ receipt'[r].line[k].returned <= receipt'[r].line[k].qty
        /\ receipt'[r].line[k].qty > 0
             /\ receipt'[r].line[k].returned = receipt'[r].line[k].qty
             => receipt'[r].line[k].given = Landed(r, k)
    BY <1>3, <1>5, <1>6, <2>2, <2>4 DEF old
  <2> QED
    BY <1>5, <1>6, <1>10, <2>5 DEF Given
<1>13. \A q \in Receipts \ {r}, k \in Kinds : Given(q, k)'
  BY <1>5, SameReceipt
<1> QED
  BY <1>7, <1>11, <1>12, <1>13

LEMMA RInvInit == PurchasingInit => RInv
<1> SUFFICES ASSUME PurchasingInit PROVE RInv
  OBVIOUS
<1>1. /\ \A r \in Receipts : receipt[r] = NoReceipt
      /\ receipt = [r \in Receipts |-> NoReceipt]
  BY DEF PurchasingInit
<1>2. NoLine \in Lines /\ NoLine.qty = 0 /\ NoLine.returned = 0 /\ NoLine.given = 0
  BY DEF NoLine, Lines
<1>3. NoReceipt \in ReceiptRecords /\ \A k \in Kinds : NoReceipt.line[k] = NoLine
  BY <1>2 DEF NoReceipt, ReceiptRecords, Kinds
<1>4. Papers
  BY <1>1, <1>3, PurchasingConstants DEF PurchasingInit, Papers, BuyQty
<1>5. LastIsThere
  BY <1>1, <1>2, <1>3 DEF LastIsThere, Pieces, Kinds
<1>6. \A r \in Receipts, k \in Kinds : Given(r, k)
  BY <1>1, <1>2, <1>3 DEF Given
<1> QED
  BY <1>4, <1>5, <1>6 DEF RInv

LEMMA RInvNext == RInv /\ [PurchasingNext]_pvars => RInv'
<1> SUFFICES ASSUME RInv, [PurchasingNext]_pvars PROVE RInv'
  OBVIOUS
<1>1. ASSUME UNCHANGED <<receipt, asked>>,
             order' \in [status : {"draft", "sent", "closed", "cancelled"}, qty : BuyQty]
      PROVE  RInv'
  <2>1. LastIsThere'
    BY <1>1 DEF RInv, LastIsThere, Pieces
  <2>2. \A r \in Receipts, k \in Kinds : Given(r, k)'
    BY <1>1, SameReceipt DEF RInv
  <2> QED
    BY <1>1, <2>1, <2>2 DEF RInv, Papers
<1>2. OrderSteps => RInv'
  BY <1>1 DEF OrderSteps, SetOrderLine, SendOrder, CloseOrder, RInv, Papers
<1>3. ShopSteps => RInv'
  BY <1>1 DEF ShopSteps, SellBought, BookBought, SetMethod, RInv, Papers
<1>4. UNCHANGED pvars => RInv'
  BY <1>1 DEF pvars, RInv, Papers
<1>5. ASSUME NEW r \in Receipts, PostSteps(r) PROVE RInv'
  BY <1>5, PostKeeps, ReturnKeeps DEF PostSteps
<1>6. ASSUME NEW r \in Receipts, DraftSteps(r) PROVE RInv'
  <2>1. ASSUME NEW linked \in BOOLEAN, AskReceipt(r) \/ OpenForOrder(r) \/ OpenReceipt(r, linked)
        PROVE  RInv'
    BY <2>1, OpenKeeps
  <2>2. TRUE \in BOOLEAN /\ "loose" \in Kinds
    BY DEF Kinds
  <2>3. ASSUME NEW k \in Kinds, NEW n \in 1..MaxBuy, AddLine(r, k, n) \/ SetLine(r, k, n)
        PROVE  RInv'
    <3>1. n \in Nat \ {0}
      BY PurchasingConstants
    <3> QED
      BY <2>3, <3>1, EditKeeps
  <2>4. ASSUME NEW k \in Kinds,
               RemoveLine(r, k) \/ AddCharge(r) \/ RemoveCharge(r) \/ CancelReceipt(r)
        PROVE  RInv'
    <3>1. 1 \in Nat \ {0}
      OBVIOUS
    <3> QED
      BY <2>4, <3>1, EditKeeps
  <2> QED
    BY <1>6, <2>1, <2>2, <2>3, <2>4 DEF DraftSteps
<1> QED
  BY <1>2, <1>3, <1>4, <1>5, <1>6 DEF PurchasingNext

LEMMA RInvHolds == PurchasingSpec => []RInv
  BY RInvInit, RInvNext, PTL DEF PurchasingSpec

(* However a receipt line is sent back, never more than came, and the whole     *)
(* line carries exactly its landed cost, whatever the charge and the rounding *)
(* of its parts (ReturnsAddUp).                                             *)
THEOREM ReturnsCarryCost == PurchasingSpec => []ReturnsAddUp
<1>1. RInv => ReturnsAddUp
  BY DEF RInv, Given, ReturnsAddUp
<1> QED
  BY <1>1, RInvHolds, PTL

-----------------------------------------------------------------------------
(* BInv: what the goods are worth and what the ledger says they are.          *)

Values ==
  /\ Sound(goods) /\ method \in BuyMethods
  /\ books \in Int /\ owed \in Nat /\ sold \in Nat

BInv == RInv /\ Values /\ BooksMatchGoods

(* What a line puts on the shelf. *)
Put(r, k) == IF receipt[r].line[k].qty = 0 THEN 0 ELSE Landed(r, k)

LEMMA ArrivedSound ==
  ASSUME Papers, NEW r \in Receipts, NEW k \in Kinds, NEW b, Sound(b)
  PROVE  /\ Sound(Arrived(b, r, k)) /\ Revaluation(b, r, k) \in Int /\ Put(r, k) \in Nat
         /\ Arrived(b, r, k).value = b.value + Revaluation(b, r, k) + Put(r, k)
<1> DEFINE q == receipt[r].line[k].qty
           mid == AtNewRate(b, r, k)
<1>1. q \in Nat /\ b.value \in Nat /\ b.on \in Nat
  BY Parts DEF Sound, Balances
<1>2. CASE q = 0
  <2>1. mid = b /\ Arrived(b, r, k) = b
    BY <1>2 DEF AtNewRate, Arrived
  <2> QED
    BY <1>1, <1>2, <2>1 DEF Revaluation, Put
<1>3. CASE q > 0
  <2>1. Landed(r, k) \in Nat /\ UnitCost(r, k) \in Nat
    BY <1>3, LandedNat
  <2>2. Sound(mid)
    <3>1. CASE mid = b
      BY <3>1
    <3>2. CASE mid = Revalued(b, UnitCost(r, k)) /\ b.on # 0
      <4>1. mid = [b EXCEPT !.value = b.on * UnitCost(r, k)]
        BY <3>2 DEF Revalued
      <4>2. b.on * UnitCost(r, k) \in Nat
        BY <1>1, <2>1
      <4> QED
        BY <4>1, <4>2 DEF Sound, Balances
    <3> QED
      BY <3>1, <3>2 DEF AtNewRate, Revalued
  <2>3. mid.value \in Nat
    BY <2>2 DEF Sound, Balances
  <2>4. Arrived(b, r, k) = Entered(mid, q, UnitCost(r, k), Landed(r, k))
    BY <1>1, <1>3 DEF Arrived
  <2> HIDE DEF mid
  <2>5. Sound(Arrived(b, r, k))
    BY <1>1, <2>1, <2>2, <2>4, EnteredSound
  <2>6. Arrived(b, r, k).value = mid.value + Landed(r, k)
    BY <2>4 DEF Entered
  <2>7. Revaluation(b, r, k) = mid.value - b.value
    BY DEF Revaluation, mid
  <2>8. Put(r, k) = Landed(r, k)
    BY <1>1, <1>3 DEF Put
  <2> QED
    BY <1>1, <2>1, <2>3, <2>5, <2>6, <2>7, <2>8
<1> QED
  BY <1>1, <1>2, <1>3

(* The lines together put on the shelf what the receipt costs. *)
LEMMA PutAll ==
  ASSUME RInv, NEW r \in Receipts, Pieces(r) > 0
  PROVE  Put(r, "ordered") + Put(r, "loose") = Pieces(r) * Price[r] + Charge(r)
<1> DEFINE o == receipt[r].line["ordered"].qty
           l == receipt[r].line["loose"].qty
           p == Price[r]
<1>1. /\ o \in Nat /\ l \in Nat /\ p \in Nat /\ Pieces(r) = o + l
      /\ "ordered" \in Kinds /\ "loose" \in Kinds
  BY Parts, PurchasingConstants DEF RInv, Kinds, Pieces
<1>2. /\ Charge(r) \in Nat
      /\ \A k \in Kinds : Share(r, k) \in Nat
      /\ Share(r, "ordered") + Share(r, "loose") = Charge(r)
  BY Shares DEF RInv
<1>3. ASSUME NEW k \in Kinds PROVE Put(r, k) = receipt[r].line[k].qty * p + Share(r, k)
  <2>1. CASE receipt[r].line[k].qty = 0
    <3>1. k # receipt[r].last
      BY <2>1 DEF RInv, LastIsThere
    <3>2. Share(r, k) = 0
      BY <2>1, <3>1, Shares DEF Share, RInv
    <3> QED
      BY <1>1, <2>1, <3>2 DEF Put
  <2>2. CASE receipt[r].line[k].qty # 0
    BY <2>2 DEF Put, Landed, Amount
  <2> QED
    BY <2>1, <2>2
<1>4. Pieces(r) * p = o * p + l * p /\ o * p \in Nat /\ l * p \in Nat
  BY <1>1
<1> HIDE DEF o, l, p
<1>5. Put(r, "ordered") = o * p + Share(r, "ordered") /\ Put(r, "loose") = l * p + Share(r, "loose")
  BY <1>1, <1>3 DEF o, l
<1>6. \A a, b, c, d \in Nat : (a + c) + (b + d) = (a + b) + (c + d)
  OBVIOUS
<1>7. Put(r, "ordered") + Put(r, "loose") = (o * p + l * p) + Charge(r)
  BY <1>1, <1>2, <1>4, <1>5, <1>6
<1> QED
  BY <1>4, <1>7 DEF p

LEMMA PostBooks ==
  ASSUME BInv, NEW r \in Receipts, PostReceipt(r)
  PROVE  Values' /\ BooksMatchGoods'
<1> DEFINE first == Arrived(goods, r, "ordered")
           second == Arrived(first, r, "loose")
           x == Revaluation(goods, r, "ordered")
           y == Revaluation(first, r, "loose")
           cost == Pieces(r) * Price[r] + Charge(r)
<1>1. /\ Pieces(r) > 0 /\ goods' = second
      /\ books' = books + Pieces(r) * Price[r] + Charge(r) + x + y
      /\ UNCHANGED <<method, owed, sold>>
  BY DEF PostReceipt
<1>2. "ordered" \in Kinds /\ "loose" \in Kinds /\ Papers
  BY DEF Kinds, BInv, RInv
<1>3. /\ Sound(first) /\ x \in Int /\ Put(r, "ordered") \in Nat
      /\ first.value = goods.value + x + Put(r, "ordered")
  BY <1>2, ArrivedSound DEF BInv, Values
<1>4. goods.value \in Nat /\ first.value \in Nat /\ books \in Int /\ owed \in Nat
  BY <1>3 DEF Sound, Balances, BInv, Values
<1> HIDE DEF first, x
<1>5. /\ Sound(second) /\ y \in Int /\ Put(r, "loose") \in Nat
      /\ second.value = first.value + y + Put(r, "loose")
  BY <1>2, <1>3, ArrivedSound
<1> HIDE DEF second, y
<1>6. Put(r, "ordered") + Put(r, "loose") = cost
  BY <1>1, PutAll DEF BInv
<1>7. cost \in Nat /\ books' = books + cost + x + y
  <2>1. Pieces(r) \in Nat /\ Price[r] \in Nat /\ Charge(r) \in Nat
    BY <1>1, <1>2, Parts, Shares, PurchasingConstants
  <2>2. Pieces(r) * Price[r] \in Nat
    BY <2>1
  <2> QED
    BY <1>1, <1>3, <1>4, <1>5, <2>1, <2>2
<1> HIDE DEF cost
<1>8. goods'.value = goods.value + cost + x + y
  BY <1>1, <1>3, <1>4, <1>5, <1>6
<1> QED
  BY <1>1, <1>3, <1>4, <1>5, <1>7, <1>8 DEF BInv, Values, BooksMatchGoods

LEMMA ReturnBooks ==
  ASSUME BInv, NEW r \in Receipts, NEW n \in [Kinds -> BuyQty], ReturnGoods(r, n)
  PROVE  Values' /\ BooksMatchGoods'
<1> DEFINE x == CostOf(r, "ordered", n["ordered"])
           y == CostOf(r, "loose", n["loose"])
           one == Left(goods, n["ordered"], x)
           two == Left(one, n["loose"], y)
<1>1. /\ Lawful(one) /\ Lawful(two) /\ goods' = two /\ books' = books - x - y
      /\ \A k \in Kinds : receipt[r].line[k].returned + n[k] <= receipt[r].line[k].qty
      /\ UNCHANGED <<method, owed, sold>>
  BY DEF ReturnGoods
<1>2. "ordered" \in Kinds /\ "loose" \in Kinds
  BY DEF Kinds
<1>3. n["ordered"] \in Nat /\ n["loose"] \in Nat
  BY <1>2, PurchasingConstants DEF BuyQty
<1>4. x \in Int /\ y \in Int
  BY <1>1, <1>2, <1>3, CostOfInt DEF BInv
<1>5. Sound(goods) /\ goods.value \in Nat /\ books \in Int /\ owed \in Nat
  BY DEF BInv, Values, Sound, Balances
<1> HIDE DEF x, y
<1>6. Sound(one) /\ one.value = goods.value - x
  BY <1>1, <1>3, <1>4, <1>5, LeftSound
<1> HIDE DEF one
<1>7. Sound(two) /\ two.value = one.value - y
  BY <1>1, <1>3, <1>4, <1>6, LeftSound
<1> HIDE DEF two
<1> QED
  BY <1>1, <1>4, <1>5, <1>6, <1>7 DEF BInv, Values, BooksMatchGoods

LEMMA ShopBooks ==
  ASSUME BInv, ShopSteps
  PROVE  Values' /\ BooksMatchGoods'
<1> USE DEF BInv
<1>1. ASSUME NEW n \in 1..MaxSold, SellBought(n) PROVE Values' /\ BooksMatchGoods'
  <2> DEFINE value == OutValue(goods, n, method)
             rest == Issued(goods, n, method)
  <2>1. /\ goods.on >= n /\ Lawful(rest) /\ goods' = rest /\ owed' = owed + value
        /\ sold' = sold + n /\ UNCHANGED <<method, books>>
    BY <1>1 DEF SellBought, CanSell
  <2>2. /\ n \in Nat \ {0} /\ Sound(goods)
        /\ goods.value \in Nat /\ goods.on \in Nat /\ books \in Int
        /\ owed \in Nat /\ sold \in Nat
    BY PurchasingConstants DEF Values, Sound, Balances
  <2>3. n <= goods.on
    BY <2>1, <2>2
  <2>4. Sound(rest) /\ value \in Nat /\ rest.value = goods.value - value
    BY <2>1, <2>2, <2>3, IssuedSound
  <2> HIDE DEF rest, value
  <2> QED
    BY <2>1, <2>2, <2>4 DEF Values, BooksMatchGoods
<1>2. BookBought => Values' /\ BooksMatchGoods'
  BY DEF BookBought, Values, BooksMatchGoods, Sound, Balances
<1>3. ASSUME NEW m \in BuyMethods, SetMethod(m) PROVE Values' /\ BooksMatchGoods'
  BY <1>3 DEF SetMethod, Values, BooksMatchGoods
<1> QED
  BY <1>1, <1>2, <1>3 DEF ShopSteps

LEMMA BInvHolds == PurchasingSpec => []BInv
<1>1. PurchasingInit => BInv
  <2>1. Sound(NoStock) /\ NoStock.value = 0
    BY DEF Sound, NoStock, Balances
  <2> QED
    BY <2>1, RInvInit DEF PurchasingInit, BInv, Values, BooksMatchGoods
<1>2. BInv /\ [PurchasingNext]_pvars => BInv'
  <2> SUFFICES ASSUME BInv, [PurchasingNext]_pvars PROVE BInv'
    OBVIOUS
  <2>1. RInv'
    BY RInvNext DEF BInv
  <2>2. UNCHANGED <<goods, method, books, owed, sold>> => Values' /\ BooksMatchGoods'
    BY DEF BInv, Values, BooksMatchGoods
  <2>3. OrderSteps => UNCHANGED <<goods, method, books, owed, sold>>
    BY DEF OrderSteps, SetOrderLine, SendOrder, CloseOrder
  <2>4. ASSUME NEW r \in Receipts, DraftSteps(r)
        PROVE  UNCHANGED <<goods, method, books, owed, sold>>
    BY <2>4 DEF DraftSteps, AskReceipt, OpenForOrder, OpenReceipt, AddLine, SetLine, RemoveLine,
         AddCharge, RemoveCharge, CancelReceipt, Edit
  <2>5. ASSUME NEW r \in Receipts, PostSteps(r) PROVE Values' /\ BooksMatchGoods'
    BY <2>5, PostBooks, ReturnBooks DEF PostSteps
  <2>6. UNCHANGED pvars => UNCHANGED <<goods, method, books, owed, sold>>
    BY DEF pvars
  <2> QED
    BY <2>1, <2>2, <2>3, <2>4, <2>5, <2>6, ShopBooks DEF PurchasingNext, BInv
<1> QED
  BY <1>1, <1>2, PTL DEF PurchasingSpec

(* Every variable keeps its type: rounding, revaluation and returns never      *)
(* leave a negative stock or value (PurchasingTypeOK).                       *)
THEOREM PurchasingTypeCorrect == PurchasingSpec => []PurchasingTypeOK
<1>1. BInv => PurchasingTypeOK
  BY DEF BInv, RInv, Papers, Values, Sound, PurchasingTypeOK
<1> QED
  BY <1>1, BInvHolds, PTL

(* The inventory account is the value of the shelf and of the sales not booked *)
(* yet, to a rial, for every price, charge, costing method and order of       *)
(* receipts, returns and sales (BooksMatchGoods).                            *)
THEOREM BooksAreGoods == PurchasingSpec => []BooksMatchGoods
<1>1. BInv => BooksMatchGoods
  BY DEF BInv
<1> QED
  BY <1>1, BInvHolds, PTL

(* A share of a whole among one or more is no more than the whole. *)
LEMMA ShareWithinWhole ==
  ASSUME NEW v \in Nat, NEW q \in Nat \ {0}
  PROVE  RoundDiv(v, q) <= v
<1>1. v <= v * q /\ v * q \in Nat
  OBVIOUS
<1>2. RoundDiv(v, q) <= RoundDiv(v * q, q)
  BY <1>1, RoundMonotone
<1> QED
  BY <1>2, RoundWhole

(* Whenever units are valued at the average or the last purchase, a piece on   *)
(* the shelf can be sold, whatever was bought, returned, revalued or switched  *)
(* before (ShelfSells).  Under fifo the layers may cost more than a row that   *)
(* a revaluation brought down, and the theorem says nothing of it.            *)
THEOREM ShelfAlwaysSells == PurchasingSpec => []ShelfSells
<1>1. ASSUME BInv, method # "fifo", goods.on > 0
      PROVE  CanSell(1)
  <2>1. goods \in Balances /\ goods.on \in Nat \ {0} /\ goods.value \in Nat
    BY <1>1 DEF BInv, Values, Sound, Balances
  <2>2. /\ OutValue(goods, 1, method) \in Nat
        /\ OutValue(goods, 1, method) <= goods.value
        /\ goods.on = 1 => OutValue(goods, 1, method) = goods.value
    <3>1. RoundDiv(goods.value, goods.on) \in Nat /\ RoundDiv(goods.value, goods.on) <= goods.value
      BY <2>1, RoundNat, ShareWithinWhole
    <3> QED
      BY <1>1, <2>1, <3>1 DEF OutValue
  <2>3. /\ Issued(goods, 1, method).on = goods.on - 1
        /\ Issued(goods, 1, method).value = goods.value - OutValue(goods, 1, method)
    BY DEF Issued, Left
  <2> QED
    BY <2>1, <2>2, <2>3 DEF CanSell, Lawful
<1>2. BInv => ShelfSells
  BY <1>1 DEF ShelfSells
<1> QED
  BY <1>2, BInvHolds, PTL

=============================================================================
