------------------------- MODULE StockLedgerProofs --------------------------
(* Proofs about StockLedger for any number of items, epochs and failures.   *)
EXTENDS StockLedger, Sums, TLAPS

USE DEF coreVars, ledgerVars, siteVars, netVars

-----------------------------------------------------------------------------
(* What the variables the arguments speak of look like; the numbers made of  *)
(* them, sums over the items, come with StockTypeCorrect.                   *)

Shapes ==
  /\ log \in Seq(Balances) /\ Len(log) >= 1
  /\ backup \in Nat /\ backup <= Len(log)
  /\ item \in [Items -> ItemRecords]
  /\ hold \in [Items -> Holds]
  /\ epoch \in Nat /\ epoch >= 1
  /\ pull \in States
  /\ req \in [Items -> Requests]
  /\ frozen \in [Items -> Nat]
shaped == <<log, backup, item, hold, epoch, pull, req, frozen>>

LEMMA InitShapes == Init => Shapes
<1> SUFFICES ASSUME Init PROVE Shapes
  OBVIOUS
<1>1. [n |-> Start, a |-> TRUE, has |-> [i \in Items |-> 0]] \in Balances
  BY StockConstants DEF Balances
<1>2. log \in Seq(Balances) /\ Len(log) = 1
  BY <1>1 DEF Init
<1>3. NewItem \in ItemRecords /\ NoHold \in Holds /\ NoState \in States /\ NoReq \in Requests
  BY DEF NewItem, ItemRecords, NoHold, Holds, NoAck, NoState, States, NoReq, Requests
<1> QED
  BY <1>2, <1>3 DEF Init, Shapes

\* What Core last wrote, and what it says of any version.
LEMMA CoreType == Shapes => Core \in Balances
BY DEF Shapes, Core

LEMMA SnapshotType ==
  ASSUME Shapes, NEW r \in 1..Len(log), NEW e \in Nat
  PROVE  Snapshot(r, e) \in States /\ Snapshot(r, e).r = r /\ Snapshot(r, e).e = e
<1>1. log[r] \in Balances
  BY DEF Shapes
<1> QED
  BY <1>1 DEF Snapshot, States, Balances, Pos

LEMMA RecordedType ==
  ASSUME NEW b \in Balances, NEW i \in Items, NEW q \in Nat
  PROVE  Recorded(b, i, q) \in Balances
BY DEF Recorded, Balances

\* A new version of the balance.
LEMMA VersionedShapes ==
  ASSUME Shapes, NEW b \in Balances, Versioned(b)
  PROVE  /\ log' \in Seq(Balances) /\ Len(log') = Len(log) + 1
         /\ backup' = backup
         /\ \A r \in 1..Len(log) : log'[r] = log[r]
BY DEF Shapes, Versioned

LEMMA CoreShapes ==
  ASSUME Shapes,
         \/ \E d \in {-1, 1} : InStore(d)
         \/ StatusFlips \/ Backup \/ Restore
         \/ \E i \in Items : CoreRecords(i) \/ CoreGivesBack(i)
  PROVE  Shapes'
<1>1. Core \in Balances
  BY CoreType
<1>2. ASSUME NEW d \in {-1, 1}, InStore(d) PROVE Shapes'
  <2>1. [Core EXCEPT !.n = @ + d] \in Balances
    BY <1>1 DEF Balances
  <2> QED
    BY <1>2, <2>1, VersionedShapes DEF InStore, Shapes
<1>3. CASE StatusFlips
  <2>1. [Core EXCEPT !.a = ~@] \in Balances
    BY <1>1 DEF Balances
  <2> QED
    BY <1>3, <2>1, VersionedShapes DEF StatusFlips, Shapes
<1>4. CASE Backup
  BY <1>4 DEF Backup, Shapes
<1>5. CASE Restore
  <2>1. SubSeq(log, 1, backup) \in Seq(Balances) /\ Len(SubSeq(log, 1, backup)) = backup
    BY <1>5 DEF Restore, Shapes
  <2> QED
    BY <1>5, <2>1 DEF Restore, Shapes
<1>6. ASSUME NEW i \in Items, CoreRecords(i) PROVE Shapes'
  <2>1. req[i].q \in Nat
    BY DEF Shapes, Requests
  <2>2. Recorded(Core, i, req[i].q) \in Balances
    BY <1>1, <2>1, RecordedType
  <2>3. log' \in Seq(Balances) /\ Len(log') >= Len(log) /\ backup' = backup
    <3>1. CASE Core.has[i] = 0
      <4>1. Versioned(Recorded(Core, i, req[i].q))
        BY <1>6, <3>1 DEF CoreRecords
      <4> QED
        BY <2>2, <4>1, VersionedShapes DEF Shapes
    <3>2. CASE Core.has[i] # 0
      <4>1. log' = log /\ backup' = backup
        BY <1>6, <3>2 DEF CoreRecords
      <4> QED
        BY <4>1 DEF Shapes
    <3> QED
      BY <3>1, <3>2
  <2>4. Len(log') \in Nat
    BY <2>3
  <2>5. [req EXCEPT ![i] = [@ EXCEPT !.st = "answered", !.rev = Len(log')]]
          \in [Items -> Requests]
    <3>1. req[i] \in Requests
      BY DEF Shapes
    <3>2. [req[i] EXCEPT !.st = "answered", !.rev = Len(log')] \in Requests
      BY <2>4, <3>1 DEF Requests
    <3> QED
      BY <3>2 DEF Shapes
  <2>6. req' \in [Items -> Requests] /\ UNCHANGED <<item, hold, epoch, pull, frozen>>
    BY <1>6, <2>5 DEF CoreRecords
  <2> QED
    BY <2>3, <2>6 DEF Shapes
<1>7. ASSUME NEW i \in Items, CoreGivesBack(i) PROVE Shapes'
  <2>1. item[i].sold \in Nat /\ Core.has[i] \in Nat /\ Core.n \in Int
    BY <1>1 DEF Shapes, ItemRecords, Balances
  <2>2. Recorded(Core, i, item[i].sold) \in Balances
    BY <1>1, <2>1, RecordedType
  <2>3. [item EXCEPT ![i].gave = TRUE] \in [Items -> ItemRecords]
    <3>1. item[i] \in ItemRecords
      BY DEF Shapes
    <3>2. [item[i] EXCEPT !.gave = TRUE] \in ItemRecords
      BY <3>1 DEF ItemRecords
    <3> QED
      BY <3>2 DEF Shapes
  <2>4. log' \in Seq(Balances) /\ Len(log') >= Len(log) /\ backup' = backup
    <3>1. Versioned(Recorded(Core, i, item[i].sold))
      BY <1>7 DEF CoreGivesBack
    <3> QED
      BY <2>2, <3>1, VersionedShapes DEF Shapes
  <2>5. item' \in [Items -> ItemRecords] /\ UNCHANGED <<hold, epoch, pull, req, frozen>>
    BY <1>7, <2>3 DEF CoreGivesBack
  <2> QED
    BY <2>4, <2>5 DEF Shapes
<1> QED
  BY <1>2, <1>3, <1>4, <1>5, <1>6, <1>7

\* The rows the hooks write.
LEMMA RowTypes ==
  ASSUME NEW h \in Holds, NEW m \in Nat, NEW t \in Nat
  PROVE  /\ Intended(h, t) \in Holds
         /\ Adjusted(h, m, t) \in Holds
         /\ Followed(h, m) \in Holds
<1>2. NoHold \in Holds
  BY DEF NoHold, NoAck, Holds
<1>1. ASSUME NEW st \in {"intent", "confirmed", "adjust"}, NEW q \in Nat
      PROVE  Row(st, q) \in Holds
  BY <1>2 DEF Row, Holds
<1>3. [h EXCEPT !.st = "confirmed", !.q = m] \in Holds
  BY DEF Holds
<1>4. Intended(h, t) \in Holds
  BY <1>1 DEF Intended
<1>5. Adjusted(h, m, t) \in Holds
  BY <1>1 DEF Adjusted
<1>6. Followed(h, m) \in Holds
  BY <1>1, <1>2, <1>3 DEF Followed
<1> QED
  BY <1>4, <1>5, <1>6

LEMMA SyncedType ==
  ASSUME Shapes, NEW i \in Items, NEW fin \in BOOLEAN
  PROVE  Synced(i, fin) \in Holds
BY RowTypes DEF Shapes, Synced, ItemRecords

\* An item at work and at rest.
LEMMA WorksType ==
  ASSUME Shapes, NEW i \in Items, NEW t \in Nat,
         NEW op \in {"reduce", "raise", "lower", "cancel"},
         NEW pc \in {"idle", "move", "meta", "sync", "recompute"}
  PROVE  Works(i, op, pc, t) \in [Items -> ItemRecords]
<1>1. item[i] \in ItemRecords
  BY DEF Shapes
<1>2. [item[i] EXCEPT !.op = op, !.pc = pc, !.to = t] \in ItemRecords
  BY <1>1 DEF ItemRecords
<1> QED
  BY <1>2 DEF Shapes, Works

LEMMA RestsType ==
  ASSUME Shapes, NEW i \in Items, NEW pc \in {"idle", "recompute"}
  PROVE  Rests(i, pc) \in [Items -> ItemRecords]
<1>1. [item[i] EXCEPT !.op = "none", !.pc = pc] \in ItemRecords
  <2>1. item[i] \in ItemRecords
    BY DEF Shapes
  <2> QED
    BY <2>1 DEF ItemRecords
<1> QED
  BY <1>1 DEF Shapes, Rests

\* What is given back is neither more than _reduced_stock nor more than was taken.
LEMMA AttestedLeast ==
  ASSUME NEW i \in Items, item[i] \in ItemRecords
  PROVE  /\ Attested(i) \in Nat /\ Attested(i) <= item[i].sold /\ Attested(i) <= item[i].meta
         /\ Attested(i) \in {item[i].sold, item[i].meta}
BY DEF Attested, ItemRecords

LEMMA OrderShapes ==
  ASSUME Shapes, NEW i \in Items, Order(i)
  PROVE  Shapes'
<1>1. ASSUME NEW t \in 1..MaxQty, BeginReduce(i, t) PROVE Shapes'
  <2>1. t \in Nat
    BY StockConstants
  <2>2. Intended(hold[i], t) \in Holds
    BY <2>1, RowTypes DEF Shapes
  <2>3. hold' \in [Items -> Holds]
    BY <1>1, <2>2 DEF BeginReduce, Intends, Shapes
  <2> QED
    BY <1>1, <2>1, <2>3, WorksType DEF BeginReduce, Shapes
<1>2. ASSUME NEW t \in 1..MaxQty, BeginRaise(i, t) PROVE Shapes'
  <2>1. t \in Nat /\ item[i].meta \in Nat
    BY StockConstants DEF Shapes, ItemRecords
  <2>2. Adjusted(hold[i], item[i].meta, t) \in Holds
    BY <2>1, RowTypes DEF Shapes
  <2>3. hold' \in [Items -> Holds]
    BY <1>2, <2>2 DEF BeginRaise, Intends, Shapes
  <2> QED
    BY <1>2, <2>1, <2>3, WorksType DEF BeginRaise, Shapes
<1>3. ASSUME NEW t \in 1..MaxQty, BeginLower(i, t) PROVE Shapes'
  <2>1. t \in Nat
    BY StockConstants
  <2> QED
    BY <1>3, <2>1, WorksType DEF BeginLower, Shapes
<1>4. CASE Cancel(i)
  <2>1. [item[i] EXCEPT !.op = "cancel", !.to = 0, !.open = FALSE,
                        !.pc = IF item[i].meta > 0 THEN "move" ELSE "sync",
                        !.sold = Attested(i)] \in ItemRecords
    <3>1. item[i] \in ItemRecords /\ Attested(i) \in Nat
      BY AttestedLeast DEF Shapes
    <3>2. (IF item[i].meta > 0 THEN "move" ELSE "sync") \in {"move", "sync"}
      OBVIOUS
    <3> QED
      BY <3>1, <3>2 DEF ItemRecords
  <2>2. item' \in [Items -> ItemRecords]
    BY <1>4, <2>1 DEF Cancel, Shapes
  <2> QED
    BY <1>4, <2>2 DEF Cancel, Shapes
<1> QED
  BY <1>1, <1>2, <1>3, <1>4 DEF Order

LEMMA ItemShapes ==
  ASSUME Shapes, NEW i \in Items,
         ItemStep(i) \/ MoveFails(i) \/ ItemDies(i) \/ Drain(i)
  PROVE  Shapes'
<1>1. CASE Move(i)
  <2>1. [item[i] EXCEPT !.sold = item[i].to, !.pc = "meta"] \in ItemRecords
    <3>1. item[i] \in ItemRecords
      BY DEF Shapes
    <3> QED
      BY <3>1 DEF ItemRecords
  <2> QED
    BY <1>1, <2>1 DEF Move, Shapes
<1>2. CASE WriteMeta(i)
  <2>1. [item[i] EXCEPT !.meta = item[i].to, !.pc = "sync"] \in ItemRecords
    <3>1. item[i] \in ItemRecords
      BY DEF Shapes
    <3> QED
      BY <3>1 DEF ItemRecords
  <2> QED
    BY <1>2, <2>1 DEF WriteMeta, Shapes
<1>3. CASE Sync(i)
  <2>1. hold' \in [Items -> Holds]
    <3>1. Synced(i, item[i].op = "reduce") \in Holds
      BY SyncedType
    <3> QED
      BY <1>3, <3>1 DEF Sync, Shapes
  <2>2. item' \in [Items -> ItemRecords]
    <3>1. ASSUME NEW pc \in {"idle", "recompute"}, NEW f \in BOOLEAN
          PROVE  [item[i] EXCEPT !.op = "none", !.pc = pc, !.flag = f] \in ItemRecords
      <4>1. item[i] \in ItemRecords
        BY DEF Shapes
      <4> QED
        BY <4>1 DEF ItemRecords
    <3>2. ((item[i].flag \/ item[i].op = "reduce") /\ item[i].op # "cancel") \in BOOLEAN
      OBVIOUS
    <3> QED
      BY <1>3, <3>1, <3>2 DEF Sync, Shapes
  <2> QED
    BY <1>3, <2>1, <2>2 DEF Sync, Shapes
<1>4. CASE ItemRecomputes(i)
  <2>1. [item[i] EXCEPT !.pc = "idle"] \in ItemRecords
    <3>1. item[i] \in ItemRecords
      BY DEF Shapes
    <3> QED
      BY <3>1 DEF ItemRecords
  <2> QED
    BY <1>4, <2>1 DEF ItemRecomputes, Shapes
<1>5. CASE MoveFails(i)
  <2>1. item' \in [Items -> ItemRecords]
    <3>1. [item[i] EXCEPT !.sold = Attested(i), !.pc = "sync"] \in ItemRecords
      <4>1. item[i] \in ItemRecords
        BY DEF Shapes
      <4>2. Attested(i) \in Nat
        BY <4>1, AttestedLeast
      <4> QED
        BY <4>1, <4>2 DEF ItemRecords
    <3> QED
      BY <1>5, <3>1, RestsType DEF MoveFails, Shapes
  <2> QED
    BY <1>5, <2>1 DEF MoveFails, Shapes
<1>6. CASE ItemDies(i)
  BY <1>6, RestsType DEF ItemDies, Shapes
<1>7. CASE Drain(i)
  <2>1. Synced(i, FALSE) \in Holds
    BY SyncedType
  <2> QED
    BY <1>7, <2>1 DEF Drain, Shapes
<1> QED
  BY <1>1, <1>2, <1>3, <1>4, <1>5, <1>6, <1>7 DEF ItemStep

LEMMA WireShapes ==
  ASSUME Shapes, Wire
  PROVE  Shapes'
<1>1. CASE StartPull
  <2>1. Len(log) \in 1..Len(log)
    BY DEF Shapes
  <2>2. Snapshot(Len(log), epoch) \in States
    BY <2>1, SnapshotType DEF Shapes
  <2>3. hold' \in [Items -> Holds]
    <3>1. ASSUME NEW i \in Items
          PROVE  hold[i] \in Holds /\ [hold[i] EXCEPT !.rel = "ripe"] \in Holds
      <4>1. hold[i] \in Holds
        BY DEF Shapes
      <4> QED
        BY <4>1 DEF Holds
    <3> QED
      BY <1>1, <3>1 DEF StartPull
  <2> QED
    BY <1>1, <2>2, <2>3 DEF StartPull, Shapes
<1>2. CASE ApplyPull
  <2>1. pull.r \in Nat /\ NoState \in States
    BY DEF Shapes, States, NoState
  <2>2. ASSUME NEW i \in Items
        PROVE  [hold[i] EXCEPT !.st = "confirmed", !.ack = pull.r, !.ep = epoch,
                               !.rel = "no", !.relEp = 0] \in Holds
    <3> DEFINE h == [hold[i] EXCEPT !.st = "confirmed", !.ack = pull.r, !.ep = epoch]
    <3>1. hold[i] \in Holds /\ epoch \in Nat /\ pull.r \in Int
      BY <2>1 DEF Shapes
    <3>2. h \in Holds
      BY <3>1 DEF Holds
    <3>3. [h EXCEPT !.rel = "no", !.relEp = 0] \in Holds
      <4> HIDE DEF h
      <4> QED BY <3>2 DEF Holds
    <3>4. [h EXCEPT !.rel = "no", !.relEp = 0]
            = [hold[i] EXCEPT !.st = "confirmed", !.ack = pull.r, !.ep = epoch,
                              !.rel = "no", !.relEp = 0]
      OBVIOUS
    <3> QED
      BY <3>3, <3>4
  <2>3. Bound \in [Items -> Holds]
    BY <2>2 DEF Bound, Shapes
  <2> QED
    BY <1>2, <2>1, <2>3 DEF ApplyPull, Shapes
<1>3. CASE DropPull
  <2>1. NoState \in States
    BY DEF States, NoState
  <2> QED
    BY <1>3, <2>1 DEF DropPull, Shapes
<1>4. ASSUME NEW r \in 1..Len(log), Push(r) PROVE Shapes'
  BY <1>4 DEF Push, Shapes
<1> QED
  BY <1>1, <1>2, <1>3, <1>4 DEF Wire

LEMMA ExchangeShapes ==
  ASSUME Shapes, NEW i \in Items, Exchange(i)
  PROVE  Shapes'
<1>0. NoReq \in Requests
  BY DEF NoReq, Requests
<1>1. CASE Send(i)
  <2>1. frozen' \in [Items -> Nat]
    BY <1>1 DEF Send, Shapes, ItemRecords
  <2>2. [st |-> "sent", e |-> epoch, q |-> frozen'[i], rev |-> 0] \in Requests
    BY <2>1 DEF Shapes, Requests
  <2>3. req' \in [Items -> Requests]
    BY <1>1, <2>2 DEF Send, Shapes
  <2> QED
    BY <1>1, <2>1, <2>3 DEF Send, Shapes
<1>2. CASE RequestLost(i)
  BY <1>0, <1>2 DEF RequestLost, Shapes
<1>3. CASE AckArrives(i)
  <2>1. hold' \in [Items -> Holds]
    <3>1. req[i].rev \in Int
      BY DEF Shapes, Requests
    <3>2. [hold[i] EXCEPT !.ack = req[i].rev, !.ep = epoch] \in Holds
      <4>1. hold[i] \in Holds /\ epoch \in Nat
        BY DEF Shapes
      <4> QED
        BY <3>1, <4>1 DEF Holds
    <3>3. Acknowledged(i) \in Holds
      BY <3>2 DEF Acknowledged, Shapes
    <3> QED
      BY <1>3, <3>3 DEF AckArrives, Shapes
  <2>2. req' \in [Items -> Requests]
    <3>1. [req[i] EXCEPT !.st = "recompute"] \in Requests
      <4>1. req[i] \in Requests
        BY DEF Shapes
      <4> QED
        BY <4>1 DEF Requests
    <3> QED
      BY <1>0, <1>3, <3>1 DEF AckArrives, Shapes
  <2> QED
    BY <1>3, <2>1, <2>2 DEF AckArrives, Shapes
<1>4. CASE AckRecomputes(i)
  BY <1>0, <1>4 DEF AckRecomputes, Shapes
<1>5. CASE CoreRecords(i)
  BY <1>5, CoreShapes
<1> QED
  BY <1>1, <1>2, <1>3, <1>4, <1>5 DEF Exchange

LEMMA ManagerShapes ==
  ASSUME Shapes,
         \/ \E i \in Items, reason \in Releases : ReleaseHold(i, reason)
         \/ \E carry \in Carries : Reset(carry)
  PROVE  Shapes'
<1>1. ASSUME NEW i \in Items, NEW reason \in Releases, ReleaseHold(i, reason) PROVE Shapes'
  <2>1. hold[i] \in Holds /\ epoch \in Nat
    BY DEF Shapes
  <2>2. [hold[i] EXCEPT !.rel = "asked", !.relEp = epoch] \in Holds
    BY <2>1 DEF Holds
  <2> QED
    BY <1>1, <2>2 DEF ReleaseHold, Shapes
<1>2. ASSUME NEW carry \in Carries, Reset(carry) PROVE Shapes'
  <2>1. ASSUME NEW i \in Items PROVE Carried(hold[i]) \in Holds
    <3>1. hold[i] \in Holds /\ epoch + 1 \in Nat /\ 0 \in Int
      BY DEF Shapes
    <3> QED
      BY <3>1 DEF Carried, Holds
  <2>2. hold' \in [Items -> Holds]
    BY <1>2, <2>1 DEF Reset, Shapes
  <2> QED
    BY <1>2, <2>2 DEF Reset, Shapes
<1> QED
  BY <1>1, <1>2

\* The writers of _stock, and a step that does nothing.
WriterStep == Writers \/ JobGivesUp \/ JobDies \/ FixStep \/ FixDies
LEMMA WriterShapes ==
  ASSUME Shapes, WriterStep \/ UNCHANGED vars
  PROVE  Shapes' /\ UNCHANGED shaped
<1>1. UNCHANGED shaped
  BY DEF WriterStep, Writers, JobReads, JobCommits, Maintain, JobGivesUp, JobDies,
     FixStep, FixReads, FixCommits, FixEnds, FixDies, vars, shaped
<1> QED
  BY <1>1 DEF Shapes, shaped

LEMMA NextShapes ==
  ASSUME Shapes, [Next]_vars
  PROVE  Shapes'
<1>1. ASSUME NEW i \in Items,
             \/ Order(i) \/ ItemStep(i) \/ Exchange(i) \/ CoreGivesBack(i)
             \/ MoveFails(i) \/ ItemDies(i) \/ Drain(i)
      PROVE  Shapes'
  BY <1>1, OrderShapes, ItemShapes, ExchangeShapes, CoreShapes
<1>2. CASE WriterStep \/ UNCHANGED vars
  BY <1>2, WriterShapes
<1>3. CASE \/ \E d \in {-1, 1} : InStore(d)
           \/ StatusFlips \/ Backup \/ Restore \/ Wire
           \/ \E i \in Items, reason \in Releases : ReleaseHold(i, reason)
           \/ \E carry \in Carries : Reset(carry)
  BY <1>3, CoreShapes, WireShapes, ManagerShapes
<1> QED
  BY <1>1, <1>2, <1>3 DEF Next, WriterStep

-----------------------------------------------------------------------------
(* A hold covers every unit WooCommerce took.                               *)

(* What the argument leaves out: a mark that holds the write of a row back, *)
(* and a reset that clears the fault of an intent that was never written.   *)
Steady ==
  /\ "sync" \notin Failures
  /\ MaxEpoch <= 1 \/ "intent" \notin Failures

\* The row of item x holds what x took, and what the step it is at will take.
Covers(x, h) ==
  /\ Releases = {} => h.rel = "no"
  /\ h.rel # "no" => h.st # "none"
  /\ x.sold <= h.q /\ x.meta <= h.q
  /\ h.st = "none" => h.q = 0
  /\ x.pc = "move" => x.to <= h.q
  /\ x.pc = "meta" => x.sold = x.to
  /\ x.pc = "sync" => x.sold <= x.meta
  /\ x.pc \in {"move", "meta"} => x.to > 0 \/ ~x.open
  /\ x.open /\ x.meta = 0 =>
       x.sold \in {0, x.to} /\ (h.st = "none" \/ (0 < x.to /\ x.to <= h.q))

Faulted == fault /\ "intent" \in Failures
CInv ==
  /\ Shapes
  /\ backlog = {}
  /\ Faulted \/ \A i \in Items : Covers(item[i], hold[i])

\* A manager releases a hold only because Core recorded the order, and Core is
\* not restored where he does.
Recording == Releases \subseteq {"recorded"}
Unrestored == Releases = {} \/ MaxEpoch <= 1

LEMMA InitCInv == Init => CInv
<1> SUFFICES ASSUME Init PROVE CInv
  OBVIOUS
<1>1. Shapes /\ backlog = {}
  BY InitShapes DEF Init
<1>2. ASSUME NEW i \in Items PROVE Covers(item[i], hold[i])
  <2>1. item[i] = NewItem /\ hold[i] = NoHold
    BY DEF Init
  <2> QED
    BY <2>1 DEF Covers, NewItem, NoHold
<1> QED
  BY <1>1, <1>2 DEF CInv

\* A step of one item that keeps its own cover keeps every cover.
LEMMA OneItem ==
  ASSUME CInv, Shapes', NEW i \in Items, backlog' = {}, Faulted => fault',
         \A j \in Items \ {i} : item'[j] = item[j] /\ hold'[j] = hold[j],
         Covers(item[i], hold[i]) => Covers(item'[i], hold'[i]) \/ Faulted'
  PROVE  CInv'
BY DEF CInv, Faulted

\* A step that leaves what the cover speaks of alone.
SameItem(x, y) ==
  /\ y.meta = x.meta /\ y.sold = x.sold /\ y.open = x.open
  /\ y.op = x.op /\ y.pc = x.pc /\ y.to = x.to
\* A row that is only released, or bound to a snapshot and so confirmed.
SameRow(g, h) ==
  /\ h.q = g.q
  /\ h.st = g.st \/ (g.st # "none" /\ h.st = "confirmed")
  /\ h.rel \in {"no", g.rel} \/ (g.st # "none" /\ Releases # {})

LEMMA SameCover ==
  ASSUME CInv, Shapes', backlog' = {}, Faulted => fault',
         ~Faulted => \A j \in Items : SameItem(item[j], item'[j]) /\ SameRow(hold[j], hold'[j])
  PROVE  CInv'
<1>1. ASSUME NEW j \in Items, Covers(item[j], hold[j]), ~Faulted
      PROVE  Covers(item'[j], hold'[j])
  BY <1>1 DEF Covers, SameItem, SameRow
<1> QED
  BY <1>1 DEF CInv, Faulted

\* What the hooks write before WooCommerce takes units covers them.
LEMMA IntendedCovers ==
  ASSUME NEW x \in ItemRecords, NEW h \in Holds, NEW t \in Nat \ {0},
         Covers(x, h), x.open, x.meta = 0, x.to \in {0, t}
  PROVE  Covers([x EXCEPT !.op = "reduce", !.pc = "move", !.to = t], Intended(h, t))
<1> DEFINE y == [x EXCEPT !.op = "reduce", !.pc = "move", !.to = t]
<1>1. /\ y.op = "reduce" /\ y.pc = "move" /\ y.to = t
      /\ y.sold = x.sold /\ y.meta = x.meta /\ y.open = x.open
  BY DEF ItemRecords
<1>2. x.sold \in Nat /\ x.sold \in {0, t} /\ h.q \in Nat /\ (h.st = "none" \/ t <= h.q)
  BY DEF Covers, ItemRecords, Holds
<1>3. Row("intent", t).rel = "no" /\ Row("intent", t).q = t /\ Row("intent", t).st = "intent"
  BY DEF Row, NoHold
<1>4. CASE Intended(h, t) = Row("intent", t)
  BY <1>1, <1>2, <1>3, <1>4 DEF Covers
<1>5. CASE Intended(h, t) = h /\ h.st # "none"
  BY <1>1, <1>2, <1>5 DEF Covers
<1> QED
  BY <1>4, <1>5 DEF Intended

LEMMA AdjustedCovers ==
  ASSUME NEW x \in ItemRecords, NEW h \in Holds, NEW t \in Nat,
         Covers(x, h), x.open, 0 < x.meta, x.meta < t
  PROVE  Covers([x EXCEPT !.op = "raise", !.pc = "move", !.to = t], Adjusted(h, x.meta, t))
<1> DEFINE y == [x EXCEPT !.op = "raise", !.pc = "move", !.to = t]
<1>1. /\ y.op = "raise" /\ y.pc = "move" /\ y.to = t
      /\ y.sold = x.sold /\ y.meta = x.meta /\ y.open = x.open
  BY DEF ItemRecords
<1>2. /\ Row("adjust", t).rel = "no" /\ Row("adjust", t).q = t
      /\ Row("adjust", t).st = "adjust"
  BY DEF Row, NoHold
<1>3. x.meta \in Nat /\ x.sold \in Nat /\ h.q \in Nat
  BY DEF ItemRecords, Holds
<1>4. CASE Adjusted(h, x.meta, t) = Row("adjust", t) /\ x.sold <= t
  BY <1>1, <1>2, <1>3, <1>4 DEF Covers
<1>5. CASE Adjusted(h, x.meta, t) = h /\ t <= h.q
  BY <1>1, <1>3, <1>5 DEF Covers
<1> QED
  BY <1>3, <1>4, <1>5 DEF Adjusted, Covers

\* The row the item ends with covers what it took.
LEMMA SyncedCovers ==
  ASSUME Shapes, NEW i \in Items, NEW fin \in BOOLEAN,
         NEW y \in ItemRecords, Covers(item[i], hold[i]), item[i].pc = "sync",
         fin = (item[i].op = "reduce"),
         y.pc \in {"idle", "recompute"}, y.sold = item[i].sold, y.meta = item[i].meta,
         y.open = item[i].open, y.to = item[i].to
  PROVE  Covers(y, Synced(i, fin))
<1> DEFINE h == hold[i]
           m == item[i].meta
<1>1. h \in Holds /\ m \in Nat /\ item[i].sold \in Nat /\ item[i].sold <= m /\ h.q \in Nat
  BY DEF Shapes, Covers, ItemRecords, Holds
<1>2. CASE Synced(i, fin) = h
  BY <1>2 DEF Covers
<1>3. CASE Synced(i, fin) = Followed(h, m)
  <2>1. CASE m = 0
    <3>1. Synced(i, fin) = NoHold
      BY <1>3, <2>1 DEF Followed
    <3> QED
      BY <1>1, <2>1, <3>1 DEF Covers, NoHold
  <2>2. CASE m # 0
    <3>1. /\ Followed(h, m).st = "confirmed" /\ Followed(h, m).q = m
          /\ Followed(h, m).rel \in {"no", h.rel}
      <4>1. /\ Row("confirmed", m).st = "confirmed" /\ Row("confirmed", m).q = m
            /\ Row("confirmed", m).rel = "no"
        BY DEF Row, NoHold
      <4>2. /\ [h EXCEPT !.st = "confirmed", !.q = m].st = "confirmed"
            /\ [h EXCEPT !.st = "confirmed", !.q = m].q = m
            /\ [h EXCEPT !.st = "confirmed", !.q = m].rel = h.rel
        BY <1>1 DEF Holds
      <4> QED
        BY <2>2, <4>1, <4>2 DEF Followed
    <3> QED
      BY <1>1, <1>3, <2>2, <3>1 DEF Covers
  <2> QED
    BY <2>1, <2>2
<1> QED
  BY <1>2, <1>3 DEF Synced

LEMMA OrderCInv ==
  ASSUME CInv, NEW i \in Items, Order(i)
  PROVE  CInv'
<1>1. Shapes' /\ backlog' = {} /\ (Faulted => fault')
  <2>1. Shapes'
    BY OrderShapes DEF CInv
  <2>2. backlog' = backlog /\ (fault' = fault \/ fault' = TRUE)
    BY DEF Order, BeginReduce, BeginRaise, BeginLower, Cancel, Intends
  <2> QED
    BY <2>1, <2>2 DEF CInv, Faulted
<1>2. /\ item[i] \in ItemRecords /\ hold[i] \in Holds
      /\ item \in [Items -> ItemRecords] /\ hold \in [Items -> Holds]
  BY DEF CInv, Shapes
<1>3. \A j \in Items \ {i} : item'[j] = item[j] /\ hold'[j] = hold[j]
  BY <1>2 DEF Order, BeginReduce, BeginRaise, BeginLower, Cancel, Works, Intends
<1>4. ASSUME NEW t \in 1..MaxQty, BeginReduce(i, t), Covers(item[i], hold[i])
      PROVE  Covers(item'[i], hold'[i]) \/ Faulted'
  <2>1. t \in Nat \ {0}
    BY StockConstants
  <2>2. item'[i] = [item[i] EXCEPT !.op = "reduce", !.pc = "move", !.to = t]
    BY <1>2, <1>4 DEF BeginReduce, Works
  <2>3. CASE hold' = [hold EXCEPT ![i] = Intended(hold[i], t)]
    <3>1. item[i].open /\ item[i].meta = 0 /\ item[i].to \in {0, t}
      BY <1>4 DEF BeginReduce
    <3>2. Covers([item[i] EXCEPT !.op = "reduce", !.pc = "move", !.to = t],
                 Intended(hold[i], t))
      BY <1>2, <1>4, <2>1, <3>1, IntendedCovers
    <3>3. hold'[i] = Intended(hold[i], t)
      BY <1>2, <2>3
    <3> QED
      BY <2>2, <3>2, <3>3
  <2>4. CASE Fails("intent") /\ fault' = TRUE
    BY <2>4 DEF Fails, Faulted
  <2> QED
    BY <1>4, <2>3, <2>4 DEF BeginReduce, Intends
<1>5. ASSUME NEW t \in 1..MaxQty, BeginRaise(i, t), Covers(item[i], hold[i])
      PROVE  Covers(item'[i], hold'[i]) \/ Faulted'
  <2>1. t \in Nat
    BY StockConstants
  <2>2. item'[i] = [item[i] EXCEPT !.op = "raise", !.pc = "move", !.to = t]
    BY <1>2, <1>5 DEF BeginRaise, Works
  <2>3. CASE hold' = [hold EXCEPT ![i] = Adjusted(hold[i], item[i].meta, t)]
    <3>1. item[i].open /\ 0 < item[i].meta /\ item[i].meta < t
      BY <1>5 DEF BeginRaise
    <3>2. Covers([item[i] EXCEPT !.op = "raise", !.pc = "move", !.to = t],
                 Adjusted(hold[i], item[i].meta, t))
      BY <1>2, <1>5, <2>1, <3>1, AdjustedCovers
    <3>3. hold'[i] = Adjusted(hold[i], item[i].meta, t)
      BY <1>2, <2>3
    <3> QED
      BY <2>2, <3>2, <3>3
  <2>4. CASE Fails("intent") /\ fault' = TRUE
    BY <2>4 DEF Fails, Faulted
  <2> QED
    BY <1>5, <2>3, <2>4 DEF BeginRaise, Intends
<1>6. ASSUME NEW t \in 1..MaxQty, BeginLower(i, t), Covers(item[i], hold[i])
      PROVE  Covers(item'[i], hold'[i])
  <2>1. /\ item[i].meta \in Nat /\ item[i].sold \in Nat /\ hold[i].q \in Nat /\ t \in Nat
        /\ t < item[i].meta /\ 0 < t
    BY <1>2, <1>6, StockConstants DEF BeginLower, ItemRecords, Holds
  <2>2. hold' = hold /\ item'[i] = [item[i] EXCEPT !.op = "lower", !.pc = "move", !.to = t]
    BY <1>2, <1>6 DEF BeginLower, Works
  <2>3. /\ item'[i].op = "lower" /\ item'[i].pc = "move" /\ item'[i].to = t
        /\ item'[i].sold = item[i].sold /\ item'[i].meta = item[i].meta
        /\ item'[i].open = item[i].open
    BY <1>2, <2>2 DEF ItemRecords
  <2> QED
    BY <1>6, <2>1, <2>2, <2>3 DEF Covers
<1>7. ASSUME Cancel(i), Covers(item[i], hold[i])
      PROVE  Covers(item'[i], hold'[i])
  <2>1. /\ item[i].meta \in Nat /\ item[i].sold \in Nat /\ hold[i].q \in Nat
        /\ Attested(i) \in Nat /\ Attested(i) <= item[i].sold /\ Attested(i) <= item[i].meta
    BY <1>2, AttestedLeast DEF ItemRecords, Holds
  <2>2. /\ item'[i].op = "cancel" /\ item'[i].to = 0 /\ item'[i].open = FALSE
        /\ item'[i].pc = (IF item[i].meta > 0 THEN "move" ELSE "sync")
        /\ item'[i].sold = Attested(i) /\ item'[i].meta = item[i].meta
        /\ hold' = hold
    BY <1>2, <1>7 DEF Cancel, ItemRecords
  <2> QED
    BY <1>7, <2>1, <2>2 DEF Covers
<1> QED
  BY <1>1, <1>3, <1>4, <1>5, <1>6, <1>7, OneItem DEF Order

\* recompute may set the fault and never clears it.
LEMMA RecomputeFault == Recompute /\ fault => fault'
<1>1. MarkRedo => fault' = fault \/ fault' = TRUE
  BY DEF MarkRedo
<1>2. Recompute => MarkRedo \/ fault' = fault
  BY DEF Recompute
<1> QED
  BY <1>1, <1>2

LEMMA ItemCInv ==
  ASSUME CInv, Steady, NEW i \in Items,
         ItemStep(i) \/ MoveFails(i) \/ ItemDies(i) \/ Drain(i)
  PROVE  CInv'
<1>1. Shapes'
  BY ItemShapes DEF CInv
<1>2. /\ item[i] \in ItemRecords /\ hold[i] \in Holds
      /\ item \in [Items -> ItemRecords] /\ hold \in [Items -> Holds]
  BY DEF CInv, Shapes
<1>3. /\ item[i].meta \in Nat /\ item[i].sold \in Nat /\ item[i].to \in Nat
      /\ hold[i].q \in Nat
  BY <1>2 DEF ItemRecords, Holds
<1>4. CASE Move(i)
  <2>1. /\ item' = [item EXCEPT ![i] = [@ EXCEPT !.sold = item[i].to, !.pc = "meta"]]
        /\ hold' = hold /\ item[i].pc = "move" /\ backlog' = backlog /\ fault' = fault
    BY <1>4 DEF Move
  <2>2. /\ item'[i].op = item[i].op /\ item'[i].to = item[i].to /\ item'[i].open = item[i].open
        /\ item'[i].pc = "meta" /\ item'[i].sold = item[i].to /\ item'[i].meta = item[i].meta
    BY <1>2, <2>1 DEF ItemRecords
  <2>3. Covers(item[i], hold[i]) => Covers(item'[i], hold'[i])
    BY <1>3, <2>1, <2>2 DEF Covers
  <2> QED
    <3>1. \A j \in Items \ {i} : item'[j] = item[j] /\ hold'[j] = hold[j]
      BY <1>2, <2>1
    <3> QED
      BY <1>1, <2>1, <2>3, <3>1, OneItem DEF CInv, Faulted
<1>5. CASE WriteMeta(i)
  <2>1. /\ item' = [item EXCEPT ![i] = [@ EXCEPT !.meta = item[i].to, !.pc = "sync"]]
        /\ hold' = hold /\ item[i].pc = "meta" /\ backlog' = backlog /\ fault' = fault
    BY <1>5 DEF WriteMeta
  <2>2. /\ item'[i].op = item[i].op /\ item'[i].to = item[i].to /\ item'[i].open = item[i].open
        /\ item'[i].pc = "sync" /\ item'[i].sold = item[i].sold /\ item'[i].meta = item[i].to
    BY <1>2, <2>1 DEF ItemRecords
  <2>3. Covers(item[i], hold[i]) => Covers(item'[i], hold'[i])
    BY <1>3, <2>1, <2>2 DEF Covers
  <2> QED
    <3>1. \A j \in Items \ {i} : item'[j] = item[j] /\ hold'[j] = hold[j]
      BY <1>2, <2>1
    <3> QED
      BY <1>1, <2>1, <2>3, <3>1, OneItem DEF CInv, Faulted
<1>6. CASE Sync(i)
  <2> DEFINE fin == item[i].op = "reduce"
             flag == (item[i].flag \/ item[i].op = "reduce") /\ item[i].op # "cancel"
  <2>1. PICK pc \in {"idle", "recompute"} :
          item' = [item EXCEPT ![i] = [@ EXCEPT !.op = "none", !.pc = pc, !.flag = flag]]
    BY <1>6 DEF Sync
  <2>2. /\ item[i].pc = "sync" /\ backlog' = backlog
        /\ \/ hold' = [hold EXCEPT ![i] = Synced(i, fin)] /\ fault' = fault
           \/ hold' = hold /\ fault' = TRUE
    BY <1>6 DEF Sync, Fails, Steady
  <2>3. /\ item'[i] \in ItemRecords
        /\ item'[i].to = item[i].to /\ item'[i].open = item[i].open
        /\ item'[i].pc = pc /\ item'[i].sold = item[i].sold /\ item'[i].meta = item[i].meta
    <3>1. item'[i] = [item[i] EXCEPT !.op = "none", !.pc = pc, !.flag = flag]
      BY <1>2, <2>1
    <3>2. item'[i] \in ItemRecords
      BY <1>1 DEF Shapes
    <3> QED
      BY <1>2, <3>1, <3>2 DEF ItemRecords
  <2>4. ASSUME Covers(item[i], hold[i]) PROVE Covers(item'[i], hold'[i])
    <3>1. CASE hold' = hold
      BY <1>3, <2>2, <2>3, <2>4, <3>1 DEF Covers
    <3>2. CASE hold' = [hold EXCEPT ![i] = Synced(i, fin)]
      <4>1. Shapes /\ fin \in BOOLEAN /\ hold'[i] = Synced(i, fin)
        BY <1>2, <3>2 DEF CInv
      <4> QED
        BY <2>2, <2>3, <2>4, <4>1, SyncedCovers
    <3> QED
      BY <2>2, <3>1, <3>2
  <2>5. \A j \in Items \ {i} : item'[j] = item[j] /\ hold'[j] = hold[j]
    BY <1>2, <2>1, <2>2
  <2>6. backlog' = {} /\ (Faulted => fault')
    BY <2>2 DEF CInv, Faulted
  <2> QED
    BY <1>1, <2>4, <2>5, <2>6, OneItem
<1>7. CASE ItemRecomputes(i) \/ ItemDies(i)
  <2>1. PICK y \in ItemRecords :
          /\ item' = [item EXCEPT ![i] = y] /\ y.pc = "idle"
          /\ y.sold = item[i].sold /\ y.meta = item[i].meta
          /\ y.open = item[i].open /\ y.to = item[i].to
    <3>1. CASE ItemRecomputes(i)
      <4>1. [item[i] EXCEPT !.pc = "idle"] \in ItemRecords
        BY <1>2 DEF ItemRecords
      <4> QED
        BY <1>2, <3>1, <4>1 DEF ItemRecomputes, ItemRecords
    <3>2. CASE ItemDies(i)
      <4>1. [item[i] EXCEPT !.op = "none", !.pc = "idle"] \in ItemRecords
        BY <1>2 DEF ItemRecords
      <4> QED
        BY <1>2, <3>2, <4>1 DEF ItemDies, Rests, ItemRecords
    <3> QED
      BY <1>7, <3>1, <3>2
  <2>2. hold' = hold /\ backlog' = backlog /\ (fault => fault')
    <3>1. CASE ItemDies(i)
      BY <3>1 DEF ItemDies
    <3>2. CASE ItemRecomputes(i)
      <4>1. hold' = hold /\ backlog' = backlog /\ Recompute
        BY <3>2 DEF ItemRecomputes
      <4> QED
        BY <4>1, RecomputeFault
    <3> QED
      BY <1>7, <3>1, <3>2
  <2>3. Covers(item[i], hold[i]) => Covers(item'[i], hold'[i])
    BY <1>2, <1>3, <2>1, <2>2 DEF Covers
  <2> QED
    BY <1>1, <1>2, <2>1, <2>2, <2>3, OneItem DEF CInv, Faulted
<1>8. CASE MoveFails(i)
  <2>1. hold' = hold /\ backlog' = backlog /\ fault' = fault /\ item[i].pc = "move"
    BY <1>8 DEF MoveFails
  <2>2. PICK y \in ItemRecords :
          /\ item' = [item EXCEPT ![i] = y]
          /\ y.meta = item[i].meta /\ y.open = item[i].open /\ y.to = item[i].to
          /\ \/ y.pc = "idle" /\ y.sold = item[i].sold
             \/ y.pc = "sync" /\ y.sold = Attested(i)
    <3>1. CASE item[i].op \in {"raise", "lower"}
      <4>1. [item[i] EXCEPT !.op = "none", !.pc = "idle"] \in ItemRecords
        BY <1>2 DEF ItemRecords
      <4> QED
        BY <1>2, <1>8, <3>1, <4>1 DEF MoveFails, Rests, ItemRecords
    <3>2. CASE item[i].op \notin {"raise", "lower"}
      <4>1. [item[i] EXCEPT !.sold = Attested(i), !.pc = "sync"] \in ItemRecords
        BY <1>2, AttestedLeast DEF ItemRecords
      <4> QED
        BY <1>2, <1>8, <3>2, <4>1 DEF MoveFails, ItemRecords
    <3> QED
      BY <3>1, <3>2
  <2>3. Covers(item[i], hold[i]) => Covers(item'[i], hold'[i])
    BY <1>2, <1>3, <2>1, <2>2, AttestedLeast DEF Covers
  <2> QED
    <3>1. \A j \in Items \ {i} : item'[j] = item[j] /\ hold'[j] = hold[j]
      BY <1>2, <2>1, <2>2
    <3> QED
      BY <1>1, <2>1, <2>3, <3>1, OneItem DEF CInv, Faulted
<1>9. CASE Drain(i)
  BY <1>9 DEF Drain, CInv
<1> QED
  BY <1>4, <1>5, <1>6, <1>7, <1>8, <1>9 DEF ItemStep

\* The steps that touch neither the items nor the rows.
LEMMA QuietCInv ==
  ASSUME CInv, [Next]_vars, UNCHANGED <<item, hold, backlog>>,
         fault' = fault \/ fault' = TRUE
  PROVE  CInv'
<1>1. Shapes'
  BY NextShapes DEF CInv
<1> QED
  BY <1>1, SameCover DEF CInv, Faulted, SameItem, SameRow

LEMMA WireCInv ==
  ASSUME CInv, Wire
  PROVE  CInv'
<1>1. Shapes' /\ hold \in [Items -> Holds] /\ backlog' = backlog /\ fault' = fault /\ item' = item
  BY WireShapes DEF CInv, Shapes, Wire, StartPull, ApplyPull, DropPull, Push
<1>2. ASSUME NEW j \in Items, ~Faulted PROVE SameRow(hold[j], hold'[j])
  <2>1. /\ hold[j] \in Holds
        /\ Releases = {} => hold[j].rel = "no"
        /\ hold[j].rel # "no" => hold[j].st # "none"
    BY <1>1, <1>2 DEF CInv, Covers
  <2>5. CASE hold'[j] = hold[j]
    BY <2>5 DEF SameRow
  <2>2. CASE StartPull
    <3>1. CASE hold'[j] = [hold[j] EXCEPT !.rel = "ripe"] /\ hold[j].rel = "asked"
      BY <2>1, <3>1 DEF SameRow, Holds
    <3> QED
      BY <2>2, <2>5, <3>1 DEF StartPull
  <2>3. CASE ApplyPull
    <3>1. CASE j \in Bindable
      <4>1. hold[j].st # "none"
        BY <2>1, <3>1 DEF Bindable
      <4>2. hold'[j] = [hold[j] EXCEPT !.st = "confirmed", !.ack = pull.r, !.ep = epoch,
                                       !.rel = "no", !.relEp = 0]
        BY <2>3, <3>1 DEF ApplyPull, Bound
      <4>3. hold'[j].st = "confirmed" /\ hold'[j].q = hold[j].q /\ hold'[j].rel = "no"
        BY <2>1, <4>2 DEF Holds
      <4> QED
        BY <4>1, <4>3 DEF SameRow
    <3> QED
      BY <2>3, <2>5, <3>1 DEF ApplyPull, Bound
  <2>4. CASE hold' = hold
    BY <2>4 DEF SameRow
  <2> QED
    BY <2>2, <2>3, <2>4 DEF Wire, DropPull, Push
<1> QED
  BY <1>1, <1>2, SameCover DEF CInv, Faulted, SameItem

LEMMA ExchangeCInv ==
  ASSUME CInv, NEW i \in Items, Exchange(i) \/ CoreGivesBack(i)
  PROVE  CInv'
<1>1. Shapes' /\ hold \in [Items -> Holds] /\ item \in [Items -> ItemRecords]
  BY ExchangeShapes, CoreShapes DEF CInv, Shapes
<1>2. backlog' = backlog /\ (fault => fault')
  <2>1. CASE AckRecomputes(i)
    BY <2>1, RecomputeFault DEF AckRecomputes
  <2>2. CASE Send(i) \/ RequestLost(i) \/ AckArrives(i) \/ CoreRecords(i) \/ CoreGivesBack(i)
    BY <2>2 DEF Send, RequestLost, AckArrives, CoreRecords, CoreGivesBack
  <2> QED
    BY <2>1, <2>2 DEF Exchange
<1>3. ASSUME NEW j \in Items PROVE SameItem(item[j], item'[j])
  <2>1. CASE item' = item
    BY <2>1 DEF SameItem
  <2>2. CASE CoreGivesBack(i)
    <3>1. item' = [item EXCEPT ![i].gave = TRUE]
      BY <2>2 DEF CoreGivesBack
    <3> QED
      BY <1>1, <3>1 DEF SameItem, ItemRecords
  <2> QED
    BY <2>1, <2>2 DEF Exchange, Send, RequestLost, AckArrives, AckRecomputes, CoreRecords
<1>4. ASSUME NEW j \in Items PROVE SameRow(hold[j], hold'[j])
  <2>1. CASE hold' = hold
    BY <2>1 DEF SameRow
  <2>2. CASE hold' = [hold EXCEPT ![i] = Acknowledged(i)]
    <3>1. SameRow(hold[i], Acknowledged(i))
      BY <1>1 DEF Acknowledged, SameRow, Holds
    <3> QED
      BY <1>1, <2>2, <3>1 DEF SameRow
  <2> QED
    BY <2>1, <2>2 DEF Exchange, Send, RequestLost, AckArrives, AckRecomputes, CoreRecords,
       CoreGivesBack
<1> QED
  BY <1>1, <1>2, <1>3, <1>4, SameCover DEF CInv, Faulted

\* A released hold counts on: its row keeps its quantity.
LEMMA ReleaseCInv ==
  ASSUME CInv, NEW i \in Items, NEW reason \in Releases, ReleaseHold(i, reason)
  PROVE  CInv'
<1>1. Shapes' /\ hold \in [Items -> Holds]
  BY ManagerShapes DEF CInv, Shapes
<1>2. item' = item /\ backlog' = backlog /\ fault' = fault /\ hold[i].st # "none"
  BY DEF ReleaseHold, Unresolved
<1>3. hold' = [hold EXCEPT ![i] = [@ EXCEPT !.rel = "asked", !.relEp = epoch]]
  BY DEF ReleaseHold
<1>4. ASSUME NEW j \in Items PROVE SameRow(hold[j], hold'[j])
  <2>1. CASE j = i
    <3>1. hold'[i].st = hold[i].st /\ hold'[i].q = hold[i].q
      BY <1>1, <1>3 DEF Holds
    <3> QED
      BY <1>2, <2>1, <3>1 DEF SameRow
  <2>2. CASE j # i
    <3>1. hold'[j] = hold[j]
      BY <1>1, <1>3, <2>2
    <3> QED
      BY <3>1 DEF SameRow
  <2> QED
    BY <2>1, <2>2
<1> QED
  BY <1>1, <1>2, <1>4, SameCover DEF CInv, Faulted, SameItem

\* A reset happens in a second epoch only, where no fault hides an intent.
LEMMA ResetCInv ==
  ASSUME CInv, Steady, NEW carry \in Carries, Reset(carry)
  PROVE  CInv'
<1>1. Shapes' /\ hold \in [Items -> Holds] /\ epoch \in Nat /\ epoch >= 1
  BY ManagerShapes DEF CInv, Shapes
<1>2. ~Faulted
  BY <1>1, StockConstants DEF Reset, Steady, Faulted
<1>3. ASSUME NEW j \in Items PROVE SameRow(hold[j], hold'[j])
  <2>1. SameRow(hold[j], Carried(hold[j]))
    BY <1>1 DEF Carried, SameRow, Holds
  <2>2. SameRow(hold[j], hold[j])
    BY DEF SameRow
  <2>3. hold'[j] = Carried(hold[j]) \/ hold'[j] = hold[j]
    BY DEF Reset
  <2> QED
    BY <2>1, <2>2, <2>3
<1>4. item' = item /\ backlog' = backlog
  BY DEF Reset
<1> QED
  BY <1>1, <1>2, <1>3, <1>4, SameCover DEF CInv, SameItem

LEMMA NextCInv ==
  ASSUME CInv, Steady, [Next]_vars
  PROVE  CInv'
<1>1. ASSUME NEW i \in Items,
             \/ Order(i) \/ ItemStep(i) \/ Exchange(i) \/ CoreGivesBack(i)
             \/ MoveFails(i) \/ ItemDies(i) \/ Drain(i)
             \/ \E reason \in Releases : ReleaseHold(i, reason)
      PROVE  CInv'
  BY <1>1, OrderCInv, ItemCInv, ExchangeCInv, ReleaseCInv
<1>2. CASE Wire
  BY <1>2, WireCInv
<1>3. ASSUME NEW carry \in Carries, Reset(carry) PROVE CInv'
  BY <1>3, ResetCInv
<1>4. CASE \/ \E d \in {-1, 1} : InStore(d)
           \/ StatusFlips \/ Backup \/ Restore \/ WriterStep \/ UNCHANGED vars
  <2>1. UNCHANGED <<item, hold, backlog, fault>>
    BY <1>4 DEF InStore, StatusFlips, Backup, Restore, WriterStep, Writers, JobReads,
       JobCommits, Maintain, JobGivesUp, JobDies, FixStep, FixReads, FixCommits, FixEnds,
       FixDies, vars
  <2> QED
    BY <2>1, QuietCInv
<1> QED
  BY <1>1, <1>2, <1>3, <1>4 DEF Next, WriterStep

(* Whatever dies or fails between the steps of WooCommerce and of the       *)
(* ledger, and whatever a manager releases, every unit an order took stands *)
(* in its row, or the fault is set.                                         *)
THEOREM UnitsAreCovered == Steady => (Spec => []HoldsCover)
<1> SUFFICES ASSUME Steady PROVE Spec => []HoldsCover
  OBVIOUS
<1>1. Init => CInv
  BY InitCInv
<1>2. CInv /\ [Next]_vars => CInv'
  BY NextCInv
<1>3. CInv => HoldsCover
  BY DEF CInv, Covers, Faulted, HoldsCover
<1> QED
  BY <1>1, <1>2, <1>3, PTL DEF Spec

-----------------------------------------------------------------------------
(* The snapshot only moves on: nothing asked for in an earlier epoch, no     *)
(* late push and no older pull replaces it.                                 *)

JobShape ==
  job = [by |-> job.by, s |-> job.s, pub |-> job.pub, st |-> job.st, n |-> job.n, cl |-> job.cl]

WInv ==
  /\ Shapes
  /\ base \in Nat /\ base <= Len(log)
  /\ lost => backup > 0 /\ Len(log) = backup
  /\ backup > 0 => base <= backup
  /\ state \in States /\ state.e <= epoch /\ (state.e = epoch => state.r >= base)
  /\ pull.e <= epoch /\ (pull.e = epoch => pull.r >= base)
  /\ JobShape /\ job.s \in States /\ job.s.e <= epoch
  /\ job.st = "read" => job.s.e = epoch
  /\ job.pub /\ job.s.e = epoch =>
       job.s.r >= base /\ (state.e = epoch => state.r < job.s.r)

LEMMA InitWInv == Init => WInv
<1> SUFFICES ASSUME Init PROVE WInv
  OBVIOUS
<1>1. Shapes
  BY InitShapes
<1>2. NoState \in States /\ NoState.e = 0
  BY DEF NoState, States
<1>3. /\ NoJob = [by |-> "none", s |-> NoState, pub |-> FALSE, st |-> "none", n |-> 0, cl |-> 0]
      /\ NoJob.pub = FALSE /\ NoJob.st = "none" /\ NoJob.s = NoState
  BY DEF NoJob
<1>4. JobShape
  BY <1>3 DEF Init, JobShape
<1> QED
  BY <1>1, <1>2, <1>3, <1>4 DEF Init, WInv, Shapes

\* Core's versions grow, but for a restore, which ends at the backup.
LEMMA CoreWInv ==
  ASSUME WInv, Shapes',
         \/ \E d \in {-1, 1} : InStore(d)
         \/ StatusFlips \/ Backup \/ Restore
         \/ \E i \in Items : CoreRecords(i) \/ CoreGivesBack(i)
  PROVE  WInv'
<1>1. UNCHANGED <<siteVars, job, pull>>
  BY DEF InStore, StatusFlips, Backup, Restore, CoreRecords, CoreGivesBack
<1>2. /\ base <= Len(log') /\ (lost' => backup' > 0 /\ Len(log') = backup')
      /\ backup' > 0 => base <= backup'
  <2>1. CASE \E b : Versioned(b)
    BY <2>1 DEF Versioned, WInv, Shapes
  <2>2. CASE UNCHANGED coreVars /\ ~lost
    BY <2>2 DEF WInv
  <2>3. CASE Backup
    BY <2>3 DEF Backup, WInv, Shapes
  <2>4. CASE Restore
    <3>1. Len(SubSeq(log, 1, backup)) = backup
      BY <2>4 DEF Restore, WInv, Shapes
    <3> QED
      BY <2>4, <3>1 DEF Restore, WInv, Shapes
  <2> QED
    BY <2>1, <2>2, <2>3, <2>4 DEF InStore, StatusFlips, CoreRecords, CoreGivesBack
<1> QED
  BY <1>1, <1>2 DEF WInv, JobShape

\* A step that leaves Core's versions and the site's writers alone.
LEMMA QuietWInv ==
  ASSUME WInv, Shapes', UNCHANGED <<log, backup, lost, epoch, state, base, job, pull>>
  PROVE  WInv'
BY DEF WInv, JobShape

\* The lock is taken for snapshot s.
LEMMA TakenWInv ==
  ASSUME WInv, Shapes', UNCHANGED <<log, backup, lost, siteVars>>,
         pull'.e <= epoch, pull'.e = epoch => pull'.r >= base,
         NEW by, NEW s \in States, NEW pub \in BOOLEAN, TakeLock(by, s, pub),
         s.e <= epoch,
         pub /\ s.e = epoch => s.r >= base /\ (state.e = epoch => state.r < s.r)
  PROVE  WInv'
<1>1. job' = [by |-> by, s |-> s, pub |-> pub, st |-> "held", n |-> 0, cl |-> 0]
  BY DEF TakeLock, NoJob
<1>2. JobShape' /\ job'.s = s /\ job'.pub = pub /\ job'.st = "held"
  BY <1>1 DEF JobShape
<1> QED
  BY <1>2 DEF WInv

\* recompute publishes nothing: it writes the number of the present snapshot.
LEMMA RecomputeWInv ==
  ASSUME WInv, Shapes', Recompute, UNCHANGED <<log, backup, lost, siteVars, pull>>
  PROVE  WInv'
<1>1. CASE job' = job
  BY <1>1, QuietWInv
<1>2. CASE TakeLock("recompute", state, FALSE)
  BY <1>2, TakenWInv DEF WInv
<1> QED
  BY <1>1, <1>2 DEF Recompute

LEMMA ItemWInv ==
  ASSUME WInv, Shapes', NEW i \in Items,
         \/ Order(i) \/ ItemStep(i) \/ Exchange(i)
         \/ MoveFails(i) \/ ItemDies(i) \/ Drain(i)
         \/ \E reason \in Releases : ReleaseHold(i, reason)
  PROVE  WInv'
<1>1. CASE ItemRecomputes(i) \/ AckRecomputes(i)
  <2>1. Recompute /\ UNCHANGED <<log, backup, lost, siteVars, pull>>
    BY <1>1 DEF ItemRecomputes, AckRecomputes
  <2> QED
    BY <2>1, RecomputeWInv
<1>2. CASE CoreRecords(i)
  BY <1>2, CoreWInv
<1>3. CASE Order(i)
  BY <1>3, QuietWInv DEF Order, BeginReduce, BeginRaise, BeginLower, Cancel
<1>4. CASE \/ Move(i) \/ WriteMeta(i) \/ Sync(i) \/ MoveFails(i) \/ ItemDies(i) \/ Drain(i)
           \/ \E reason \in Releases : ReleaseHold(i, reason)
  BY <1>4, QuietWInv DEF Move, WriteMeta, Sync, MoveFails, ItemDies, Drain, ReleaseHold
<1>5. CASE Send(i) \/ RequestLost(i) \/ AckArrives(i)
  BY <1>5, QuietWInv DEF Send, RequestLost, AckArrives
<1> QED
  BY <1>1, <1>2, <1>3, <1>4, <1>5 DEF ItemStep, Exchange

LEMMA WireWInv ==
  ASSUME WInv, Shapes', Wire
  PROVE  WInv'
<1>0. NoState.e = 0 /\ epoch \in Nat /\ epoch >= 1 /\ pull \in States /\ Shapes
  BY DEF NoState, WInv, Shapes
<1>1. CASE StartPull
  <2>1. Len(log) \in 1..Len(log) /\ epoch \in Nat
    BY <1>0 DEF Shapes
  <2>2. pull'.e = epoch /\ pull'.r = Len(log)
    BY <1>0, <1>1, <2>1, SnapshotType DEF StartPull
  <2> QED
    <3>1. UNCHANGED <<log, backup, lost, siteVars, job>>
      BY <1>1 DEF StartPull
    <3>2. pull'.e <= epoch /\ pull'.r >= base
      BY <1>0, <2>2 DEF WInv
    <3> QED
      BY <3>1, <3>2 DEF WInv, JobShape
<1>2. CASE ApplyPull
  <2>1. /\ UNCHANGED <<log, backup, lost, siteVars>>
        /\ pull' = NoState /\ pull.e = epoch
    BY <1>2 DEF ApplyPull
  <2>2. pull'.e <= epoch /\ pull'.e # epoch
    BY <1>0, <2>1
  <2>3. CASE ~Stale(pull) /\ TakeLock("pull", pull, TRUE)
    <3>1. pull.r >= base /\ (state.e = epoch => state.r < pull.r)
      BY <1>0, <2>1, <2>3 DEF WInv, Stale, Known, States
    <3> QED
      <4>1. pull.e <= epoch /\ pull \in States
        BY <1>0, <2>1
      <4> QED
        BY <2>1, <2>2, <2>3, <3>1, <4>1, TakenWInv
  <2>4. CASE TakeLock("pull", state, FALSE)
    BY <2>1, <2>2, <2>4, TakenWInv DEF WInv
  <2>5. CASE job' = job
    BY <2>1, <2>2, <2>5 DEF WInv, JobShape
  <2> QED
    BY <1>2, <2>3, <2>4, <2>5 DEF ApplyPull
<1>3. CASE DropPull
  <2>1. UNCHANGED <<log, backup, lost, siteVars, job>> /\ pull' = NoState
    BY <1>3 DEF DropPull
  <2> QED
    BY <1>0, <2>1 DEF WInv, JobShape
<1>4. ASSUME NEW r \in 1..Len(log), Push(r) PROVE WInv'
  <2>1. UNCHANGED <<log, backup, lost, siteVars, pull>>
    BY <1>4 DEF Push
  <2>2. CASE job' = job
    BY <2>1, <2>2, QuietWInv
  <2>3. CASE Known /\ ~Stale(Snapshot(r, epoch)) /\ TakeLock("push", Snapshot(r, epoch), TRUE)
    <3>1. /\ Snapshot(r, epoch) \in States
          /\ Snapshot(r, epoch).r = r /\ Snapshot(r, epoch).e = epoch
      BY <1>0, SnapshotType
    <3>2. state.r < r /\ base <= state.r /\ state.r \in Nat /\ base \in Nat
      BY <2>3, <3>1 DEF Stale, Known, WInv, States
    <3> QED
      <4> DEFINE s == Snapshot(r, epoch)
      <4>1. s \in States /\ s.e <= epoch /\ s.r >= base /\ state.r < s.r
        BY <1>0, <3>1, <3>2
      <4>2. pull'.e <= epoch /\ (pull'.e = epoch => pull'.r >= base)
        BY <2>1 DEF WInv
      <4>3. TakeLock("push", s, TRUE)
        BY <2>3
      <4> HIDE DEF s
      <4> QED
        BY <2>1, <4>1, <4>2, <4>3, TakenWInv
  <2> QED
    BY <1>4, <2>2, <2>3 DEF Push
<1> QED
  BY <1>1, <1>2, <1>3, <1>4 DEF Wire

\* A reset closes every snapshot asked for before it.
LEMMA ResetWInv ==
  ASSUME WInv, Shapes', NEW carry \in Carries, Reset(carry)
  PROVE  WInv'
<1>1. /\ UNCHANGED <<log, backup, state, excess, job, pull>>
      /\ lost' = FALSE /\ base' = Len(log) /\ epoch' = epoch + 1 /\ lost
      /\ job.st # "read"
  BY DEF Reset, RowLocked
<1>2. Len(log) \in Nat /\ epoch \in Nat /\ state.e \in Nat /\ pull.e \in Nat /\ job.s.e \in Nat
  <2>1. Len(log) \in Nat /\ epoch \in Nat
    BY DEF WInv, Shapes
  <2>2. state \in States /\ pull \in States /\ job.s \in States
    BY DEF WInv, Shapes
  <2> QED
    BY <2>1, <2>2 DEF States
<1> QED
  BY <1>1, <1>2 DEF WInv, JobShape

\* Under the lock of the row the epoch is the one of the job.
LEMMA WriterWInv ==
  ASSUME WInv, Shapes', WriterStep
  PROVE  WInv'
<1>0. UNCHANGED <<log, backup, lost, epoch, base, pull>>
  BY DEF WriterStep, Writers, JobReads, JobCommits, Maintain, JobGivesUp, JobDies,
     FixStep, FixReads, FixCommits, FixEnds, FixDies
<1>n. /\ NoJob = [by |-> "none", s |-> NoState, pub |-> FALSE, st |-> "none", n |-> 0, cl |-> 0]
      /\ NoState \in States /\ NoState.e = 0
  BY DEF NoJob, NoState, States
<1>g. JobShape /\ epoch \in Nat
  BY DEF WInv, Shapes
<1>f. CASE job' = NoJob /\ state' = state
  BY <1>0, <1>f, <1>n, <1>g DEF WInv, JobShape
<1>1. CASE JobReads
  <2>1. state' = state /\ job.s.e = epoch /\ job'.s = job.s /\ job'.pub = job.pub /\ JobShape'
    BY <1>1, <1>g DEF JobReads, JobShape
  <2> QED
    BY <1>0, <2>1 DEF WInv
<1>2. CASE JobCommits
  <2>1. job' = NoJob /\ job.st = "read" /\ (state' = state \/ (job.pub /\ state' = job.s))
    BY <1>2 DEF JobCommits, Published
  <2>2. CASE state' = state
    BY <1>f, <2>1, <2>2
  <2>3. CASE job.pub /\ state' = job.s
    <3>1. job.s.e = epoch /\ job.s.r >= base /\ job.s \in States
      BY <2>1, <2>3 DEF WInv
    <3> QED
      BY <1>0, <1>n, <1>g, <2>1, <2>3, <3>1 DEF WInv, JobShape
  <2> QED
    BY <2>1, <2>2, <2>3
<1>3. CASE Maintain
  <2>1. state' = state /\ excess' = excess /\ intent' = intent
    BY <1>3 DEF Maintain
  <2>2. CASE job' = job
    BY <1>0, <2>1, <2>2, QuietWInv
  <2>3. CASE TakeLock("maintain", state, FALSE)
    BY <1>0, <2>1, <2>3, TakenWInv DEF WInv
  <2> QED
    BY <1>3, <2>2, <2>3 DEF Maintain
<1>4. CASE JobGivesUp \/ JobDies
  BY <1>4, <1>f DEF JobGivesUp, JobDies
<1>5. CASE FixStep \/ FixDies
  <2>1. state' = state /\ job' = job
    BY <1>5 DEF FixStep, FixReads, FixCommits, FixEnds, FixDies
  <2> QED
    BY <1>0, <2>1 DEF WInv, JobShape
<1> QED
  BY <1>1, <1>2, <1>3, <1>4, <1>5 DEF WriterStep, Writers

LEMMA NextWInv ==
  ASSUME WInv, [Next]_vars
  PROVE  WInv'
<1>1. Shapes'
  BY NextShapes DEF WInv
<1>2. ASSUME NEW i \in Items,
             \/ Order(i) \/ ItemStep(i) \/ Exchange(i)
             \/ MoveFails(i) \/ ItemDies(i) \/ Drain(i)
             \/ \E reason \in Releases : ReleaseHold(i, reason)
      PROVE  WInv'
  BY <1>1, <1>2, ItemWInv
<1>3. CASE \/ \E d \in {-1, 1} : InStore(d)
           \/ StatusFlips \/ Backup \/ Restore
           \/ \E i \in Items : CoreGivesBack(i)
  BY <1>1, <1>3, CoreWInv
<1>4. CASE Wire \/ WriterStep \/ \E carry \in Carries : Reset(carry)
  BY <1>1, <1>4, WireWInv, WriterWInv, ResetWInv
<1>5. CASE UNCHANGED vars
  BY <1>1, <1>5, QuietWInv DEF vars
<1> QED
  BY <1>2, <1>3, <1>4, <1>5 DEF Next, WriterStep

\* Only a commit replaces the snapshot.
LEMMA OnlyCommits ==
  ASSUME Next, state' # state
  PROVE  JobCommits
<1>1. ASSUME NEW i \in Items,
             \/ Order(i) \/ ItemStep(i) \/ Exchange(i) \/ CoreGivesBack(i)
             \/ MoveFails(i) \/ ItemDies(i) \/ Drain(i)
             \/ \E reason \in Releases : ReleaseHold(i, reason)
      PROVE  FALSE
  BY <1>1 DEF Order, BeginReduce, BeginRaise, BeginLower, Cancel, ItemStep, Move, WriteMeta,
     Sync, ItemRecomputes, Exchange, Send, RequestLost, AckArrives, AckRecomputes,
     CoreRecords, CoreGivesBack, MoveFails, ItemDies, Drain, ReleaseHold
<1>2. CASE \/ \E d \in {-1, 1} : InStore(d)
           \/ StatusFlips \/ Backup \/ Restore \/ Wire
           \/ JobReads \/ Maintain \/ JobGivesUp \/ JobDies \/ FixStep \/ FixDies
           \/ \E carry \in Carries : Reset(carry)
  BY <1>2 DEF InStore, StatusFlips, Backup, Restore, Wire, StartPull, ApplyPull, DropPull,
     Push, JobReads, Maintain, JobGivesUp, JobDies, FixStep, FixReads, FixCommits, FixEnds,
     FixDies, Reset
<1> QED
  BY <1>1, <1>2 DEF Next, Writers

(* For any number of items, resets, deaths and delayed messages.            *)
THEOREM SnapshotMovesOn == Spec => WatermarkAdvances
<1>1. Init => WInv
  BY InitWInv
<1>2. WInv /\ [Next]_vars => WInv'
  BY NextWInv
<1>3. WInv /\ WInv' /\ [Next]_vars =>
        [state' # state => /\ state'.e = epoch' /\ state'.r >= base
                           /\ state.e = state'.e => state.r < state'.r]_vars
  <2> SUFFICES ASSUME WInv, WInv', Next, state' # state
               PROVE  /\ state'.e = epoch' /\ state'.r >= base
                      /\ state.e = state'.e => state.r < state'.r
    BY DEF vars
  <2>1. /\ job.st = "read" /\ job.pub /\ state' = job.s /\ epoch' = epoch
    BY OnlyCommits DEF JobCommits, Published
  <2> QED
    BY <2>1 DEF WInv
<1> QED
  BY <1>1, <1>2, <1>3, PTL DEF Spec, WatermarkAdvances
-----------------------------------------------------------------------------
(* An acknowledgement proves that Core has the units.                       *)

\* Version r of the balance holds the units of the row, or the order was given
\* back at Core and r holds those it still has.
Held(i, r) ==
  \/ hold[i].q <= log[r].has[i]
  \/ item[i].gave /\ item[i].sold <= log[r].has[i]

\* What Core recorded of item i is what was frozen for it, once and for all
\* until it gives units back, and an answer names a version that has it.
Told(i) ==
  /\ item[i].gave => /\ req[i] = NoReq
                     /\ item[i].pc = "move" => item[i].to <= item[i].sold
  /\ ~item[i].gave =>
       \A r, s \in 1..Len(log) :
          r <= s /\ log[r].has[i] # 0 => log[r].has[i] = frozen[i] /\ log[s].has[i] = frozen[i]
  /\ req[i] # NoReq => frozen[i] > 0 /\ req[i].q = frozen[i] /\ req[i].e <= epoch
  /\ req[i].st = "answered" /\ req[i].e = epoch =>
       /\ req[i].rev >= 1 /\ (~lost => req[i].rev <= Len(log))
       /\ req[i].rev <= Len(log) => log[req[i].rev].has[i] = frozen[i]

\* An acknowledgement of the epoch holds from its version on, and one older
\* than the backup holds for the backup too.  A pull of a restored Core may
\* acknowledge a released hold for nothing; the reset does not carry that.
Proven(i) ==
  /\ hold[i].ack # NoAck => hold[i].st = "confirmed"
  /\ hold[i].ep <= epoch
  /\ Acked(i) /\ ~Faulted /\ (lost => Releases = {}) =>
       /\ ~lost => hold[i].ack <= Len(log)
       /\ \A r \in 1..Len(log) : r >= hold[i].ack /\ r >= base => Held(i, r)
  /\ i \in early /\ Acked(i) /\ ~Faulted => backup > 0 /\ Held(i, backup)

\* A hold released because Core recorded the order is in the last version, and
\* in every one from the pull on that may acknowledge it.
Freed(i) ==
  /\ hold[i].relEp <= epoch
  /\ hold[i].rel # "no" /\ hold[i].relEp = epoch /\ ~lost /\ ~Faulted =>
       /\ Held(i, Len(log))
       /\ hold[i].rel = "ripe" /\ pull # NoState /\ pull.e = epoch =>
            /\ pull.r <= Len(log)
            /\ \A r \in 1..Len(log) : r >= pull.r => Held(i, r)

AInv == CInv /\ WInv /\ \A i \in Items : Told(i) /\ Proven(i) /\ Freed(i)

LEMMA ATypes ==
  ASSUME Shapes, NEW i \in Items
  PROVE  /\ item[i] \in ItemRecords /\ hold[i] \in Holds /\ req[i] \in Requests
         /\ frozen[i] \in Nat /\ epoch \in Nat /\ Len(log) \in Nat \ {0}
         /\ hold[i].q \in Nat /\ hold[i].ack \in Int /\ hold[i].ep \in Nat
         /\ item[i].sold \in Nat /\ item[i].to \in Nat /\ item[i].meta \in Nat
         /\ req[i].rev \in Nat /\ req[i].e \in Nat /\ req[i].q \in Nat
         /\ \A r \in 1..Len(log) : log[r] \in Balances /\ log[r].has[i] \in Nat
<1>1. /\ item[i] \in ItemRecords /\ hold[i] \in Holds /\ req[i] \in Requests
      /\ frozen[i] \in Nat /\ epoch \in Nat /\ Len(log) \in Nat \ {0}
  BY DEF Shapes
<1>2. hold[i].q \in Nat /\ hold[i].ack \in Int /\ hold[i].ep \in Nat
  BY <1>1 DEF Holds
<1>3. item[i].sold \in Nat /\ item[i].to \in Nat /\ item[i].meta \in Nat
  BY <1>1 DEF ItemRecords
<1>4. req[i].rev \in Nat /\ req[i].e \in Nat /\ req[i].q \in Nat
  BY <1>1 DEF Requests
<1>5. ASSUME NEW r \in 1..Len(log) PROVE log[r] \in Balances /\ log[r].has[i] \in Nat
  <2>1. log[r] \in Balances
    BY DEF Shapes
  <2> QED
    BY <2>1 DEF Balances
<1> QED
  BY <1>1, <1>2, <1>3, <1>4, <1>5

LEMMA InitAInv == Init => AInv
<1> SUFFICES ASSUME Init PROVE AInv
  OBVIOUS
<1>1. CInv /\ WInv
  BY InitCInv, InitWInv
<1>2. ASSUME NEW i \in Items PROVE Told(i) /\ Proven(i) /\ Freed(i)
  <2>1. item[i] = NewItem /\ hold[i] = NoHold /\ req[i] = NoReq /\ epoch = 1 /\ early = {}
    BY DEF Init
  <2>2. Len(log) = 1 /\ log[1].has[i] = 0
    BY DEF Init
  <2>3. /\ NewItem.gave = FALSE /\ NoReq.st = "none"
        /\ NoHold.ack = NoAck /\ NoHold.ep = 0 /\ NoHold.rel = "no" /\ NoHold.relEp = 0
    BY DEF NewItem, NoReq, NoHold
  <2>4. \A r \in 1..Len(log) : log[r].has[i] = 0
    BY <2>2
  <2> QED
    BY <2>1, <2>3, <2>4 DEF Told, Proven, Acked, Freed
<1> QED
  BY <1>1, <1>2 DEF AInv

\* A step of the site that leaves the order's way to Core alone.
LEMMA ToldStays ==
  ASSUME NEW i \in Items, Told(i), UNCHANGED <<log, lost, epoch, frozen, req>>,
         item'[i].gave = item[i].gave,
         item[i].gave /\ item'[i].pc = "move" => item'[i].to <= item'[i].sold
  PROVE  Told(i)'
BY DEF Told

\* A row that is written anew, or kept with no more units in it.
KeptRow(h, g) ==
  \/ g.ack = NoAck /\ g.ep <= epoch /\ g.rel = "no" /\ g.relEp <= epoch
  \/ /\ g.ack = h.ack /\ g.ep = h.ep /\ g.st \in {h.st, "confirmed"}
     /\ g.rel = h.rel /\ g.relEp = h.relEp
     /\ g.q <= h.q \/ Faulted'

LEMMA ProvenStays ==
  ASSUME NEW i \in Items, Shapes, Shapes', Proven(i),
         UNCHANGED <<log, backup, lost, base, epoch, early>>,
         KeptRow(hold[i], hold'[i]), Faulted => Faulted',
         item'[i].gave = item[i].gave,
         Faulted' \/ (item[i].gave => item'[i].sold <= item[i].sold)
  PROVE  Proven(i)'
<1>1. CASE hold'[i].ack = NoAck /\ hold'[i].ep <= epoch
  BY <1>1 DEF Proven, Acked
<1>2. CASE /\ hold'[i].ack = hold[i].ack /\ hold'[i].ep = hold[i].ep
           /\ hold'[i].st \in {hold[i].st, "confirmed"}
           /\ hold'[i].q <= hold[i].q \/ Faulted'
  <2>1. ASSUME NEW r \in 1..Len(log), Held(i, r), ~Faulted' PROVE Held(i, r)'
    <3>1. /\ hold[i].q \in Nat /\ hold'[i].q \in Nat /\ item[i].sold \in Nat
          /\ item'[i].sold \in Nat /\ log[r].has[i] \in Nat
      BY ATypes DEF Shapes, ItemRecords, Holds
    <3> QED
      BY <1>2, <2>1, <3>1 DEF Held
  <2>2. backup \in Nat /\ backup <= Len(log)
    BY DEF Shapes
  <2>3. backup > 0 /\ Held(i, backup) /\ ~Faulted' => Held(i, backup)'
    BY <2>1, <2>2
  <2> QED
    BY <1>2, <2>1, <2>3 DEF Proven, Acked
<1> QED
  BY <1>1, <1>2 DEF KeptRow
\* A step that changes nothing these speak of.
LEMMA QuietProof ==
  ASSUME AInv, Shapes', NEW i \in Items, Faulted => Faulted',
         UNCHANGED <<log, backup, lost, base, epoch, early, frozen>>,
         item'[i] = item[i], hold'[i] = hold[i], req'[i] = req[i]
  PROVE  Told(i)' /\ Proven(i)'
<1>1. Told(i) /\ Proven(i) /\ Shapes
  BY DEF AInv, CInv
<1>2. Told(i)'
  BY <1>1 DEF Told
<1>3. KeptRow(hold[i], hold'[i]) /\ item'[i].gave = item[i].gave /\ item'[i].sold <= item[i].sold
  BY <1>1, ATypes DEF KeptRow
<1> QED
  BY <1>1, <1>2, <1>3, ProvenStays

\* Core writes its balance again; what it has of the item stays.
LEMMA SameUnits ==
  ASSUME AInv, Shapes', NEW i \in Items, NEW b \in Balances, Versioned(b),
         b.has[i] = Core.has[i], UNCHANGED <<base, epoch, early, hold, fault>>,
         item'[i] = item[i], req'[i] = req[i], frozen'[i] = frozen[i]
  PROVE  Told(i)' /\ Proven(i)'
<1>1. Told(i) /\ Proven(i) /\ Shapes /\ base \in Nat /\ base <= Len(log)
  BY DEF AInv, CInv, WInv
<1>2. /\ Len(log') = Len(log) + 1 /\ Len(log) \in Nat /\ lost' = lost /\ backup' = backup
      /\ \A r \in 1..Len(log) : log'[r] = log[r]
  BY <1>1, VersionedShapes, ATypes DEF Versioned
<1>3. log'[Len(log')] = b /\ ~lost
  BY <1>1 DEF Versioned, Shapes
<1>4. log'[Len(log) + 1].has[i] = log[Len(log)].has[i]
  BY <1>2, <1>3 DEF Core
<1>5. \A r \in 1..Len(log') : r \in 1..Len(log) \/ r = Len(log) + 1
  BY <1>2
<1>6. Len(log) \in 1..Len(log)
  BY <1>1, ATypes
<1>7. Told(i)'
  <2>1. ASSUME ~item[i].gave, NEW r \in 1..Len(log'), NEW s \in 1..Len(log'),
               r <= s, log'[r].has[i] # 0
        PROVE  log'[r].has[i] = frozen[i] /\ log'[s].has[i] = frozen[i]
    <3> DEFINE q == IF r = Len(log) + 1 THEN Len(log) ELSE r
               t == IF s = Len(log) + 1 THEN Len(log) ELSE s
    <3>1. q \in 1..Len(log) /\ t \in 1..Len(log) /\ q <= t
      BY <1>2, <1>5, <1>6, <2>1
    <3>2. log'[r].has[i] = log[q].has[i] /\ log'[s].has[i] = log[t].has[i]
      BY <1>2, <1>4, <1>5
    <3> HIDE DEF q, t
    <3> QED
      BY <1>1, <2>1, <3>1, <3>2 DEF Told
  <2>2. req[i].st = "answered" /\ req[i].e = epoch =>
          /\ req[i].rev >= 1 /\ req[i].rev <= Len(log')
          /\ log'[req[i].rev].has[i] = frozen[i]
    <3>1. req[i].st = "answered" /\ req[i].e = epoch =>
            req[i].rev \in 1..Len(log) /\ log[req[i].rev].has[i] = frozen[i]
      BY <1>1, <1>3, ATypes DEF Told
    <3> QED
      BY <1>2, <3>1
  <2> QED
    BY <1>1, <1>2, <2>1, <2>2 DEF Told
<1>8. Proven(i)'
  <2>1. ASSUME NEW r \in 1..Len(log) PROVE Held(i, r)' <=> Held(i, r)
    BY <1>2 DEF Held
  <2>2. ASSUME NEW r, r = Len(log) + 1 PROVE Held(i, r)' <=> Held(i, Len(log))
    BY <1>4, <2>2 DEF Held
  <2>3. ASSUME Acked(i), ~Faulted
        PROVE  /\ hold[i].ack <= Len(log')
               /\ \A r \in 1..Len(log') : r >= hold[i].ack /\ r >= base => Held(i, r)'
    <3>1. /\ hold[i].ack <= Len(log) /\ hold[i].ack \in Int
          /\ \A r \in 1..Len(log) : r >= hold[i].ack /\ r >= base => Held(i, r)
      BY <1>1, <1>3, <2>3, ATypes DEF Proven
    <3>2. hold[i].ack <= Len(log')
      BY <1>2, <3>1
    <3>3. ASSUME NEW r \in 1..Len(log'), r >= hold[i].ack, r >= base PROVE Held(i, r)'
      <4>1. CASE r \in 1..Len(log)
        BY <2>1, <3>1, <3>3, <4>1
      <4>2. CASE r = Len(log) + 1
        BY <1>1, <1>6, <2>2, <3>1, <4>2
      <4> QED
        BY <1>5, <4>1, <4>2
    <3> QED
      BY <3>2, <3>3
  <2>4. backup > 0 => (Held(i, backup)' <=> Held(i, backup))
    <3>1. backup > 0 => backup \in 1..Len(log)
      BY <1>1 DEF Shapes
    <3> QED
      BY <1>2, <2>1, <3>1
  <2> QED
    BY <1>1, <1>2, <2>3, <2>4 DEF Proven, Acked, Faulted
<1> QED
  BY <1>7, <1>8
\* Core records the order it is told of, or answers a replay.
LEMMA RecordsProof ==
  ASSUME AInv, Shapes', NEW i \in Items, CoreRecords(i), NEW j \in Items
  PROVE  Told(j)' /\ Proven(j)'
<1>1. /\ Told(i) /\ Proven(i) /\ Told(j) /\ Proven(j) /\ Shapes
      /\ base \in Nat /\ base <= Len(log) /\ req[i].st = "sent" /\ ~lost
      /\ UNCHANGED <<item, hold, epoch, base, early, frozen, fault>>
  BY DEF AInv, CInv, WInv, CoreRecords, Versioned
<1>2. req[i] # NoReq /\ ~item[i].gave /\ frozen[i] > 0 /\ req[i].q = frozen[i]
  BY <1>1 DEF Told, NoReq
<1>3. /\ req'[i].st = "answered" /\ req'[i].e = req[i].e /\ req'[i].q = req[i].q
      /\ req'[i].rev = Len(log') /\ \A k \in Items \ {i} : req'[k] = req[k]
  BY <1>1, ATypes DEF CoreRecords, Shapes, Requests
<1>4. Core \in Balances /\ Core.has[i] \in Nat
  BY <1>1, CoreType DEF Balances
<1>5. CASE Core.has[i] = 0
  <2> DEFINE b == Recorded(Core, i, req[i].q)
  <2>1. /\ b \in Balances /\ b.has[i] = frozen[i]
        /\ \A k \in Items \ {i} : b.has[k] = Core.has[k]
    BY <1>1, <1>2, <1>4, ATypes, RecordedType DEF Recorded, Balances
  <2>2. Versioned(b)
    BY <1>5 DEF CoreRecords
  <2> HIDE DEF b
  <2>3. CASE j # i
    BY <1>1, <1>3, <2>1, <2>2, <2>3, SameUnits
  <2>4. CASE j = i
    <3>1. /\ Len(log') = Len(log) + 1 /\ Len(log) \in Nat \ {0} /\ backup' = backup /\ lost' = lost
          /\ \A r \in 1..Len(log) : log'[r] = log[r]
      BY <1>1, <2>1, <2>2, VersionedShapes, ATypes DEF Versioned
    <3>2. log'[Len(log')] = b
      BY <1>1, <2>1, <2>2 DEF Versioned, Shapes
    <3>3. ASSUME NEW r \in 1..Len(log) PROVE log[r].has[i] = 0
      <4>1. Len(log) \in 1..Len(log) /\ r <= Len(log) /\ log[Len(log)].has[i] = 0
        BY <1>5, <3>1 DEF Core
      <4>2. log[r].has[i] # 0 => log[Len(log)].has[i] = frozen[i]
        BY <1>1, <1>2, <4>1 DEF Told
      <4> QED
        BY <1>2, <4>1, <4>2
    <3>4. Told(i)'
      <4>1. ASSUME NEW r \in 1..Len(log'), NEW s \in 1..Len(log'), r <= s, log'[r].has[i] # 0
            PROVE  log'[r].has[i] = frozen[i] /\ log'[s].has[i] = frozen[i]
        BY <2>1, <3>1, <3>2, <3>3, <4>1
      <4>2. Len(log') \in 1..Len(log')
        BY <3>1
      <4>3. req'[i].q = frozen'[i] /\ req'[i].e <= epoch'
        BY <1>1, <1>2, <1>3 DEF Told
      <4>4. req'[i].rev \in 1..Len(log') /\ log'[req'[i].rev].has[i] = frozen'[i]
        BY <1>1, <1>3, <2>1, <3>2, <4>2
      <4> QED
        BY <1>1, <1>2, <4>1, <4>3, <4>4 DEF Told
    <3>5. Proven(i)'
      <4>1. ASSUME NEW r \in 1..Len(log) PROVE Held(i, r)' <=> Held(i, r)
        BY <1>1, <3>1 DEF Held
      <4>2. ASSUME NEW r, r = Len(log'), hold[i].q <= 0 PROVE Held(i, r)'
        BY <1>1, <1>2, <2>1, <3>2, <4>2, ATypes DEF Held
      <4>3. ASSUME Acked(i), ~Faulted
            PROVE  /\ hold[i].ack <= Len(log')
                   /\ \A r \in 1..Len(log') : r >= hold[i].ack /\ r >= base => Held(i, r)'
        <5>1. /\ hold[i].ack <= Len(log) /\ hold[i].ack \in Int
              /\ \A r \in 1..Len(log) : r >= hold[i].ack /\ r >= base => Held(i, r)
          BY <1>1, <4>3, ATypes DEF Proven
        <5>2. Len(log) \in 1..Len(log)
          BY <3>1
        <5>3. Held(i, Len(log))
          BY <1>1, <5>1, <5>2
        <5>4. hold[i].q <= 0
          BY <1>2, <3>3, <5>2, <5>3 DEF Held
        <5>5. hold[i].ack <= Len(log')
          BY <3>1, <5>1
        <5>6. ASSUME NEW r \in 1..Len(log'), r >= hold[i].ack, r >= base PROVE Held(i, r)'
          <6>1. r \in 1..Len(log) \/ r = Len(log')
            BY <3>1
          <6> QED
            BY <4>1, <4>2, <5>1, <5>4, <5>6, <6>1
        <5> QED
          BY <5>5, <5>6
      <4>4. backup > 0 => (Held(i, backup)' <=> Held(i, backup))
        <5>1. backup > 0 => backup \in 1..Len(log)
          BY <1>1 DEF Shapes
        <5> QED
          BY <3>1, <4>1, <5>1
      <4> QED
        BY <1>1, <3>1, <4>3, <4>4 DEF Proven, Acked, Faulted
    <3> QED
      BY <2>4, <3>4, <3>5
  <2> QED
    BY <2>3, <2>4
<1>6. CASE Core.has[i] # 0
  <2>1. UNCHANGED <<log, backup, lost>>
    BY <1>6 DEF CoreRecords
  <2>2. CASE j # i
    <3>1. req'[j] = req[j]
      BY <1>3, <2>2
    <3> QED
      BY <1>1, <2>1, <3>1, QuietProof DEF Faulted
  <2>3. CASE j = i
    <3>1. Len(log) \in 1..Len(log)
      BY <1>1, ATypes
    <3>2. log[Len(log)].has[i] = frozen[i]
      <4>1. \A r, s \in 1..Len(log) :
               r <= s /\ log[r].has[i] # 0 =>
                  log[r].has[i] = frozen[i] /\ log[s].has[i] = frozen[i]
        BY <1>1, <1>2 DEF Told
      <4>2. log[Len(log)].has[i] # 0
        BY <1>6 DEF Core
      <4>3. Len(log) <= Len(log)
        BY <3>1
      <4> QED
        BY <3>1, <4>1, <4>2, <4>3
    <3>3. Told(i)'
      BY <1>1, <1>2, <1>3, <2>1, <3>1, <3>2 DEF Told
    <3>4. KeptRow(hold[i], hold'[i])
      BY <1>1, ATypes DEF KeptRow
    <3>5. Proven(i)'
      BY <1>1, <2>1, <3>4, ProvenStays, ATypes DEF Faulted
    <3> QED
      BY <2>3, <3>3, <3>5
  <2> QED
    BY <2>2, <2>3
<1> QED
  BY <1>5, <1>6
\* Core takes units back: the versions before this one had more of them.
LEMMA GivesBackProof ==
  ASSUME AInv, Shapes', NEW i \in Items, CoreGivesBack(i), NEW j \in Items
  PROVE  Told(j)' /\ Proven(j)'
<1> DEFINE b == Recorded(Core, i, item[i].sold)
<1>1. /\ Told(i) /\ Proven(i) /\ Told(j) /\ Proven(j) /\ Shapes
      /\ base \in Nat /\ base <= Len(log) /\ req[i] = NoReq /\ ~lost
      /\ item[i].pc = "idle" /\ Versioned(b)
      /\ UNCHANGED <<hold, epoch, base, early, req, frozen, fault>>
  BY DEF AInv, CInv, WInv, CoreGivesBack, Versioned
<1>2. Core \in Balances
  BY <1>1, CoreType
<1>3. /\ b \in Balances /\ b.has[i] = item[i].sold
      /\ \A k \in Items \ {i} : b.has[k] = Core.has[k]
  BY <1>1, <1>2, ATypes, RecordedType DEF Recorded, Balances
<1> HIDE DEF b
<1>4. /\ item'[i].gave = TRUE /\ item'[i].sold = item[i].sold /\ item'[i].pc = item[i].pc
      /\ \A k \in Items \ {i} : item'[k] = item[k]
  BY <1>1, ATypes DEF CoreGivesBack, Shapes, ItemRecords
<1>5. CASE j # i
  BY <1>1, <1>3, <1>4, <1>5, SameUnits
<1>6. CASE j = i
  <2>1. /\ Len(log') = Len(log) + 1 /\ Len(log) \in Nat \ {0} /\ backup' = backup /\ lost' = lost
        /\ \A r \in 1..Len(log) : log'[r] = log[r]
    BY <1>1, <1>3, VersionedShapes, ATypes DEF Versioned
  <2>2. log'[Len(log')] = b
    BY <1>1, <1>3 DEF Versioned, Shapes
  <2>3. Told(i)'
    BY <1>1, <1>4 DEF Told, NoReq
  <2>4. ASSUME NEW r \in 1..Len(log), Held(i, r) PROVE Held(i, r)'
    BY <1>1, <1>4, <2>1, <2>4 DEF Held
  <2>5. ASSUME NEW r, r = Len(log') PROVE Held(i, r)'
    BY <1>1, <1>3, <1>4, <2>2, <2>5, ATypes DEF Held
  <2>6. ASSUME Acked(i), ~Faulted
        PROVE  /\ hold[i].ack <= Len(log')
               /\ \A r \in 1..Len(log') : r >= hold[i].ack /\ r >= base => Held(i, r)'
    <3>1. /\ hold[i].ack <= Len(log) /\ hold[i].ack \in Int
          /\ \A r \in 1..Len(log) : r >= hold[i].ack /\ r >= base => Held(i, r)
      BY <1>1, <2>6, ATypes DEF Proven
    <3>2. hold[i].ack <= Len(log')
      BY <2>1, <3>1
    <3>3. ASSUME NEW r \in 1..Len(log'), r >= hold[i].ack, r >= base PROVE Held(i, r)'
      <4>1. r \in 1..Len(log) \/ r = Len(log')
        BY <2>1
      <4> QED
        BY <2>4, <2>5, <3>1, <3>3, <4>1
    <3> QED
      BY <3>2, <3>3
  <2>7. backup > 0 /\ Held(i, backup) => Held(i, backup)'
    <3>1. backup > 0 => backup \in 1..Len(log)
      BY <1>1 DEF Shapes
    <3> QED
      BY <2>1, <2>4, <3>1
  <2>8. Proven(i)'
    BY <1>1, <2>1, <2>6, <2>7 DEF Proven, Acked, Faulted
  <2> QED
    BY <1>6, <2>3, <2>8
<1> QED
  BY <1>5, <1>6

\* The backup has what was acknowledged before it was taken.
LEMMA BackupProof ==
  ASSUME AInv, Shapes', Backup, NEW i \in Items
  PROVE  Told(i)' /\ Proven(i)'
<1>1. /\ Told(i) /\ Proven(i) /\ Shapes /\ base \in Nat /\ base <= Len(log) /\ ~lost
      /\ UNCHANGED <<log, lost, item, hold, epoch, base, req, frozen, fault>>
      /\ backup' = Len(log) /\ Len(log) \in Nat \ {0} /\ Len(log) \in 1..Len(log)
  BY ATypes DEF AInv, CInv, WInv, Backup
<1>2. Told(i)'
  BY <1>1 DEF Told
<1>3. Acked(i) /\ ~Faulted => Held(i, Len(log))
  BY <1>1, ATypes DEF Proven
<1>4. Held(i, backup)' <=> Held(i, Len(log))
  BY <1>1 DEF Held
<1>5. ASSUME NEW r PROVE Held(i, r)' <=> Held(i, r)
  BY <1>1 DEF Held
<1>6. Proven(i)'
  BY <1>1, <1>3, <1>4, <1>5 DEF Proven, Acked, Faulted
<1> QED
  BY <1>2, <1>6

\* A restore brings the versions of the backup back.
LEMMA RestoreProof ==
  ASSUME AInv, Shapes', Restore, NEW i \in Items
  PROVE  Told(i)' /\ Proven(i)'
<1>1. /\ Told(i) /\ Proven(i) /\ Shapes /\ backup \in 1..Len(log)
      /\ UNCHANGED <<backup, item, hold, early, epoch, base, req, frozen, fault>> /\ lost'
  BY DEF AInv, CInv, Shapes, Restore
<1>2. Len(log') = backup /\ \A r \in 1..backup : log'[r] = log[r]
  BY <1>1 DEF Restore, Shapes
<1>3. \A r \in 1..backup : r \in 1..Len(log)
  BY <1>1 DEF Shapes
<1>4. Told(i)'
  <2>1. req[i].rev \in Nat /\ (req[i].rev >= 1 /\ req[i].rev <= backup => req[i].rev \in 1..backup)
    BY <1>1, ATypes
  <2>2. req[i].rev \in 1..backup => req[i].rev <= Len(log) /\ log'[req[i].rev] = log[req[i].rev]
    BY <1>2, <1>3
  <2>3. ~item[i].gave =>
          \A r, q \in 1..Len(log') :
             r <= q /\ log'[r].has[i] # 0 =>
               log'[r].has[i] = frozen[i] /\ log'[q].has[i] = frozen[i]
    BY <1>1, <1>2, <1>3 DEF Told
  <2> QED
    BY <1>1, <1>2, <2>1, <2>2, <2>3 DEF Told
<1>5. \A r \in 1..backup : Held(i, r)' <=> Held(i, r)
  BY <1>1, <1>2 DEF Held
<1>6. Proven(i)'
  <2>1. backup \in 1..backup
    BY <1>1
  <2>2. Acked(i) /\ ~Faulted /\ Releases = {} =>
          \A r \in 1..Len(log') : r >= hold[i].ack /\ r >= base => Held(i, r)'
    BY <1>1, <1>2, <1>3, <1>5 DEF Proven
  <2> QED
    BY <1>1, <1>5, <2>1, <2>2 DEF Proven, Acked, Faulted
<1> QED
  BY <1>4, <1>6

LEMMA CoreProof ==
  ASSUME AInv, Shapes', NEW j \in Items,
         \/ \E d \in {-1, 1} : InStore(d)
         \/ StatusFlips \/ Backup \/ Restore
         \/ \E i \in Items : CoreRecords(i) \/ CoreGivesBack(i)
  PROVE  Told(j)' /\ Proven(j)'
<1>1. Core \in Balances
  BY CoreType DEF AInv, CInv
<1>2. ASSUME NEW d \in {-1, 1}, InStore(d) PROVE Told(j)' /\ Proven(j)'
  <2> DEFINE b == [Core EXCEPT !.n = @ + d]
  <2>1. b \in Balances /\ b.has[j] = Core.has[j]
    BY <1>1 DEF Balances
  <2>2. Versioned(b) /\ UNCHANGED <<base, epoch, early, hold, fault, item, req, frozen>>
    BY <1>2 DEF InStore
  <2> HIDE DEF b
  <2> QED
    BY <2>1, <2>2, SameUnits
<1>3. ASSUME StatusFlips PROVE Told(j)' /\ Proven(j)'
  <2> DEFINE b == [Core EXCEPT !.a = ~@]
  <2>1. b \in Balances /\ b.has[j] = Core.has[j]
    BY <1>1 DEF Balances
  <2>2. Versioned(b) /\ UNCHANGED <<base, epoch, early, hold, fault, item, req, frozen>>
    BY <1>3 DEF StatusFlips
  <2> HIDE DEF b
  <2> QED
    BY <2>1, <2>2, SameUnits
<1> QED
  BY <1>2, <1>3, BackupProof, RestoreProof, RecordsProof, GivesBackProof
\* A step of one item at the site.
OneItemStep(i) ==
  /\ UNCHANGED <<log, backup, lost, base, epoch, early, pull, frozen, req>>
  /\ Faulted => Faulted'
  /\ \A k \in Items \ {i} : item'[k] = item[k] /\ hold'[k] = hold[k]
  /\ KeptRow(hold[i], hold'[i])
  /\ item'[i].gave = item[i].gave
  /\ item[i].gave /\ item'[i].pc = "move" => item'[i].to <= item'[i].sold
  /\ Faulted' \/ (item[i].gave => item'[i].sold <= item[i].sold)

LEMMA OneItemProof ==
  ASSUME AInv, Shapes', NEW i \in Items, OneItemStep(i), NEW j \in Items
  PROVE  Told(j)' /\ Proven(j)'
<1>1. CASE j # i
  BY <1>1, QuietProof DEF OneItemStep
<1>2. CASE j = i
  <2>1. Told(i) /\ Proven(i) /\ Shapes
    BY DEF AInv, CInv
  <2> QED
    BY <1>2, <2>1, ToldStays, ProvenStays DEF OneItemStep
<1> QED
  BY <1>1, <1>2

LEMMA KeptAsIs ==
  ASSUME Shapes, NEW i \in Items, hold'[i] = hold[i]
  PROVE  KeptRow(hold[i], hold'[i])
BY ATypes DEF KeptRow

LEMMA IntendsFault ==
  ASSUME NEW i \in Items, NEW h, Intends(i, h)
  PROVE  Faulted => Faulted'
BY DEF Intends, Faulted

LEMMA OrderIsOne ==
  ASSUME AInv, Shapes', NEW i \in Items, Order(i)
  PROVE  OneItemStep(i)
<1>1. /\ Shapes /\ Told(i) /\ Proven(i) /\ item[i] \in ItemRecords
      /\ hold[i].ep <= epoch /\ 0 <= epoch
      /\ UNCHANGED <<log, backup, lost, base, epoch, early, pull, frozen, req>>
  BY ATypes DEF AInv, CInv, Proven, Order, BeginReduce, BeginRaise, BeginLower, Cancel
<1>2. ASSUME NEW t \in Nat, NEW op, item' = Works(i, op, "move", t)
      PROVE  /\ item'[i].gave = item[i].gave /\ item'[i].sold = item[i].sold /\ item'[i].to = t
             /\ item'[i].pc = "move" /\ \A k \in Items \ {i} : item'[k] = item[k]
  BY <1>1, <1>2 DEF Works, Shapes, ItemRecords
<1>3. ASSUME NEW st, NEW q PROVE KeptRow(hold[i], Row(st, q))
  BY <1>1 DEF Row, NoHold, KeptRow
<1>4. KeptRow(hold[i], hold[i])
  BY <1>1, ATypes DEF KeptRow
<1>5. ASSUME NEW h, KeptRow(hold[i], h), Intends(i, h)
      PROVE  KeptRow(hold[i], hold'[i]) /\ \A k \in Items \ {i} : hold'[k] = hold[k]
  BY <1>1, <1>4, <1>5 DEF Intends, Shapes
<1>6. ASSUME NEW t \in 1..MaxQty, BeginReduce(i, t) PROVE OneItemStep(i)
  <2>1. KeptRow(hold[i], Intended(hold[i], t))
    BY <1>3, <1>4 DEF Intended
  <2>2. t \in Nat /\ ~item[i].gave /\ item' = Works(i, "reduce", "move", t)
        /\ Intends(i, Intended(hold[i], t))
    BY <1>6, StockConstants DEF BeginReduce
  <2> QED
    BY <1>1, <1>2, <1>5, <2>1, <2>2, IntendsFault, ATypes DEF OneItemStep
<1>7. ASSUME NEW t \in 1..MaxQty, BeginRaise(i, t) PROVE OneItemStep(i)
  <2>1. KeptRow(hold[i], Adjusted(hold[i], item[i].meta, t))
    BY <1>3, <1>4 DEF Adjusted
  <2>2. t \in Nat /\ ~item[i].gave /\ item' = Works(i, "raise", "move", t)
        /\ Intends(i, Adjusted(hold[i], item[i].meta, t))
    BY <1>7, StockConstants DEF BeginRaise
  <2> QED
    BY <1>1, <1>2, <1>5, <2>1, <2>2, IntendsFault, ATypes DEF OneItemStep
<1>8. ASSUME NEW t \in 1..MaxQty, BeginLower(i, t) PROVE OneItemStep(i)
  <2>1. /\ t \in Nat /\ (item[i].gave => t <= item[i].sold)
        /\ item' = Works(i, "lower", "move", t) /\ hold' = hold /\ fault' = fault
    BY <1>1, <1>8, StockConstants, ATypes DEF BeginLower
  <2>2. KeptRow(hold[i], hold'[i])
    BY <1>4, <2>1
  <2>3. Faulted => Faulted'
    BY <2>1 DEF Faulted
  <2>4. /\ item'[i].gave = item[i].gave /\ (item[i].gave => item'[i].to <= item'[i].sold)
        /\ item'[i].sold <= item[i].sold /\ \A k \in Items \ {i} : item'[k] = item[k]
    BY <1>1, <1>2, <2>1, ATypes
  <2> QED
    BY <1>1, <2>1, <2>2, <2>3, <2>4 DEF OneItemStep
<1>9. CASE Cancel(i)
  <2>1. /\ item'[i].gave = item[i].gave /\ item'[i].sold = Attested(i) /\ item'[i].to = 0
        /\ \A k \in Items \ {i} : item'[k] = item[k]
    BY <1>1, <1>9 DEF Cancel, Shapes, ItemRecords
  <2>2. Attested(i) <= item[i].sold /\ 0 <= Attested(i) /\ hold' = hold /\ fault' = fault
    BY <1>1, <1>9, AttestedLeast DEF Cancel
  <2>3. KeptRow(hold[i], hold'[i])
    BY <1>4, <2>2
  <2> QED
    BY <1>1, <2>1, <2>2, <2>3 DEF OneItemStep, Faulted
<1> QED
  BY <1>6, <1>7, <1>8, <1>9 DEF Order
\* The row an ended change leaves is written anew or has no more units than before.
LEMMA SyncedRow ==
  ASSUME AInv, NEW i \in Items, NEW fin \in BOOLEAN, item[i].pc = "sync"
  PROVE  KeptRow(hold[i], Synced(i, fin)) \/ (Faulted /\ ~Faulted')
<1>1. /\ Proven(i) /\ item[i] \in ItemRecords /\ hold[i] \in Holds /\ hold[i].ep <= epoch
      /\ hold[i].q \in Nat /\ hold[i].ack \in Int /\ item[i].meta \in Nat /\ epoch \in Nat
      /\ 0 <= epoch
  BY ATypes DEF AInv, CInv, Proven
<1>2. Faulted \/ item[i].meta <= hold[i].q
  BY DEF AInv, CInv, Covers
<1>3. KeptRow(hold[i], hold[i])
  BY <1>1 DEF KeptRow
<1>4. KeptRow(hold[i], NoHold) /\ KeptRow(hold[i], Row("confirmed", item[i].meta))
  BY <1>1 DEF Row, NoHold, KeptRow
<1>5. KeptRow(hold[i], [hold[i] EXCEPT !.st = "confirmed", !.q = item[i].meta])
      \/ (Faulted /\ ~Faulted')
  <2> DEFINE g == [hold[i] EXCEPT !.st = "confirmed", !.q = item[i].meta]
  <2>1. /\ g.st = "confirmed" /\ g.q = item[i].meta /\ g.ack = hold[i].ack
        /\ g.ep = hold[i].ep /\ g.rel = hold[i].rel /\ g.relEp = hold[i].relEp
    BY <1>1 DEF Holds
  <2> HIDE DEF g
  <2> QED
    BY <1>1, <1>2, <2>1 DEF KeptRow
<1> QED
  BY <1>3, <1>4, <1>5 DEF Synced, Followed

LEMMA ItemIsOne ==
  ASSUME AInv, Steady, Shapes', NEW i \in Items,
         ItemStep(i) \/ MoveFails(i) \/ ItemDies(i) \/ Drain(i)
  PROVE  OneItemStep(i)
<1>1. /\ Shapes /\ Told(i) /\ Proven(i) /\ item[i] \in ItemRecords /\ backlog = {}
      /\ KeptRow(hold[i], hold[i]) /\ item[i].sold \in Nat /\ item[i].to \in Nat
      /\ item[i].meta \in Nat /\ item \in [Items -> ItemRecords]
  <2>1. Shapes /\ Told(i) /\ Proven(i) /\ backlog = {} /\ item \in [Items -> ItemRecords]
    BY DEF AInv, CInv, Shapes
  <2>2. hold[i].q \in Nat
    BY <2>1, ATypes
  <2> QED
    BY <2>1, <2>2, ATypes DEF KeptRow
<1>2. /\ UNCHANGED <<log, backup, lost, base, epoch, early, pull, frozen, req>>
      /\ ~Drain(i)
  BY <1>1 DEF ItemStep, Move, WriteMeta, Sync, ItemRecomputes, MoveFails, ItemDies, Drain
<1>3. Faulted => Faulted'
  <2>1. fault => fault'
    BY <1>2, RecomputeFault DEF ItemStep, Move, WriteMeta, Sync, ItemRecomputes, MoveFails,
       ItemDies
  <2> QED
    BY <2>1 DEF Faulted
<1>4. CASE Move(i)
  <2>1. /\ item'[i].sold = item[i].to /\ item'[i].pc = "meta" /\ item'[i].gave = item[i].gave
        /\ \A k \in Items \ {i} : item'[k] = item[k]
    BY <1>1, <1>4 DEF Move, ItemRecords
  <2>2. item[i].gave => item[i].to <= item[i].sold
    BY <1>1, <1>4 DEF Move, Told
  <2>3. hold' = hold
    BY <1>4 DEF Move
  <2> QED
    BY <1>1, <1>2, <1>3, <2>1, <2>2, <2>3 DEF OneItemStep
<1>5. CASE WriteMeta(i)
  <2>1. /\ item'[i].sold = item[i].sold /\ item'[i].pc = "sync" /\ item'[i].gave = item[i].gave
        /\ \A k \in Items \ {i} : item'[k] = item[k]
    BY <1>1, <1>5 DEF WriteMeta, ItemRecords
  <2>2. hold' = hold
    BY <1>5 DEF WriteMeta
  <2> QED
    BY <1>1, <1>2, <1>3, <2>1, <2>2 DEF OneItemStep
<1>6. CASE Sync(i)
  <2>1. PICK pc \in {"recompute", "idle"}, f \in BOOLEAN :
          item' = [item EXCEPT ![i] = [item[i] EXCEPT !.op = "none", !.pc = pc, !.flag = f]]
    BY <1>6 DEF Sync
  <2>2. /\ item'[i].sold = item[i].sold /\ item'[i].pc # "move" /\ item'[i].gave = item[i].gave
        /\ \A k \in Items \ {i} : item'[k] = item[k]
    BY <1>1, <2>1 DEF ItemRecords
  <2>3. KeptRow(hold[i], hold'[i]) /\ \A k \in Items \ {i} : hold'[k] = hold[k]
    <3>1. \/ hold' = hold
          \/ hold' = [hold EXCEPT ![i] = Synced(i, item[i].op = "reduce")]
      BY <1>6 DEF Sync
    <3>2. KeptRow(hold[i], Synced(i, item[i].op = "reduce"))
      BY <1>3, <1>6, SyncedRow DEF Sync
    <3> QED
      BY <1>1, <3>1, <3>2 DEF Shapes
  <2> QED
    BY <1>1, <1>2, <1>3, <2>2, <2>3 DEF OneItemStep
<1>7. CASE ItemRecomputes(i)
  <2>1. /\ item'[i].sold = item[i].sold /\ item'[i].pc = "idle" /\ item'[i].gave = item[i].gave
        /\ \A k \in Items \ {i} : item'[k] = item[k]
    BY <1>1, <1>7 DEF ItemRecomputes, ItemRecords
  <2>2. hold' = hold
    BY <1>7 DEF ItemRecomputes
  <2> QED
    BY <1>1, <1>2, <1>3, <2>1, <2>2 DEF OneItemStep
<1>8. ASSUME item' = Rests(i, "idle"), hold' = hold PROVE OneItemStep(i)
  <2>1. /\ item'[i].sold = item[i].sold /\ item'[i].pc = "idle" /\ item'[i].gave = item[i].gave
        /\ \A k \in Items \ {i} : item'[k] = item[k]
    BY <1>1, <1>8 DEF Rests, ItemRecords
  <2> QED
    BY <1>1, <1>2, <1>3, <1>8, <2>1 DEF OneItemStep
<1>9. CASE MoveFails(i)
  <2>1. CASE item[i].op \in {"raise", "lower"}
    BY <1>8, <1>9, <2>1 DEF MoveFails
  <2>2. CASE item[i].op \notin {"raise", "lower"}
    <3>1. /\ item'[i].sold = Attested(i) /\ item'[i].pc = "sync" /\ item'[i].gave = item[i].gave
          /\ \A k \in Items \ {i} : item'[k] = item[k]
      BY <1>1, <1>9, <2>2 DEF MoveFails, ItemRecords
    <3>2. Attested(i) <= item[i].sold
      BY <1>1, AttestedLeast
    <3>3. hold' = hold
      BY <1>9 DEF MoveFails
    <3> QED
      BY <1>1, <1>2, <1>3, <3>1, <3>2, <3>3 DEF OneItemStep
  <2> QED
    BY <2>1, <2>2
<1>10. CASE ItemDies(i)
  BY <1>8, <1>10 DEF ItemDies
<1> QED
  BY <1>2, <1>4, <1>5, <1>6, <1>7, <1>9, <1>10 DEF ItemStep
\* A pull acknowledges holds released before it was asked for, which Core has.
LEMMA WireProof ==
  ASSUME AInv, Shapes', Wire, NEW j \in Items
  PROVE  Told(j)' /\ Proven(j)'
<1>1. /\ UNCHANGED <<log, backup, lost, base, epoch, frozen, req, item, fault>>
      /\ Shapes /\ Told(j) /\ Proven(j) /\ Freed(j) /\ hold[j] \in Holds
  BY ATypes DEF AInv, CInv, Wire, StartPull, ApplyPull, DropPull, Push
<1>2. Told(j)'
  BY <1>1 DEF Told
<1>3. ASSUME hold'[j].ack = hold[j].ack, hold'[j].ep = hold[j].ep, hold'[j].st = hold[j].st,
             hold'[j].q = hold[j].q, j \in early' <=> j \in early
      PROVE  Proven(j)'
  BY <1>1, <1>3 DEF Proven, Acked, Held, Faulted
<1>4. CASE StartPull
  <2>1. hold'[j] = hold[j] \/ hold'[j] = [hold[j] EXCEPT !.rel = "ripe"]
    BY <1>4 DEF StartPull
  <2>2. early' = early
    BY <1>4 DEF StartPull
  <2>3. /\ hold'[j].ack = hold[j].ack /\ hold'[j].ep = hold[j].ep
        /\ hold'[j].st = hold[j].st /\ hold'[j].q = hold[j].q
    BY <1>1, <2>1 DEF Holds
  <2> QED
    BY <1>2, <1>3, <2>2, <2>3
<1>5. CASE ApplyPull
  <2>1. hold' = Bound /\ early' = early \ Bindable /\ pull # NoState /\ pull.e = epoch
    BY <1>5 DEF ApplyPull
  <2>2. CASE j \notin Bindable
    <3>1. hold'[j] = hold[j] /\ (j \in early' <=> j \in early)
      BY <2>1, <2>2 DEF Bound
    <3> QED
      BY <1>2, <1>3, <3>1
  <2>3. CASE j \in Bindable
    <3>1. /\ hold[j].rel = "ripe" /\ hold[j].relEp = epoch /\ j \notin early'
          /\ hold'[j] = [hold[j] EXCEPT !.st = "confirmed", !.ack = pull.r, !.ep = epoch,
                                       !.rel = "no", !.relEp = 0]
      BY <2>1, <2>3 DEF Bound, Bindable
    <3>2. /\ hold'[j].st = "confirmed" /\ hold'[j].ack = pull.r /\ hold'[j].ep = epoch
          /\ hold'[j].q = hold[j].q
      BY <1>1, <3>1 DEF Holds
    <3>3. ~Faulted => Releases # {}
      BY <3>1 DEF AInv, CInv, Covers
    <3>4. ASSUME ~Faulted, ~lost
          PROVE  pull.r <= Len(log) /\ \A r \in 1..Len(log) : r >= pull.r => Held(j, r)
      BY <1>1, <2>1, <3>1, <3>4 DEF Freed
    <3>5. ASSUME NEW r, Held(j, r) PROVE Held(j, r)'
      BY <1>1, <3>2, <3>5 DEF Held
    <3>6. epoch <= epoch
      BY <1>1, ATypes
    <3> QED
      BY <1>1, <1>2, <3>1, <3>2, <3>3, <3>4, <3>5, <3>6 DEF Proven, Faulted
  <2> QED
    BY <2>2, <2>3
<1>6. CASE hold' = hold /\ early' = early
  BY <1>2, <1>3, <1>6
<1> QED
  BY <1>4, <1>5, <1>6 DEF Wire, DropPull, Push

\* The answer acknowledges what the version it names holds.
LEMMA AckProof ==
  ASSUME AInv, Shapes', NEW i \in Items, AckArrives(i)
  PROVE  Told(i)' /\ Proven(i)'
<1>1. /\ UNCHANGED <<log, backup, lost, base, epoch, frozen, item, fault>>
      /\ Shapes /\ Told(i) /\ Proven(i) /\ hold[i] \in Holds /\ req[i] \in Requests
      /\ req[i].st = "answered" /\ req[i].rev \in Nat
      /\ hold \in [Items -> Holds] /\ req \in [Items -> Requests]
  BY ATypes DEF AInv, CInv, AckArrives, Shapes
<1>2. ~item[i].gave /\ frozen[i] > 0 /\ req[i].q = frozen[i] /\ req[i].e <= epoch
  BY <1>1 DEF Told, NoReq
<1>3. Told(i)'
  <2>1. req'[i] = NoReq \/ req'[i] = [req[i] EXCEPT !.st = "recompute"]
    BY <1>1 DEF AckArrives
  <2>2. /\ req'[i].st # "answered"
        /\ req'[i] # NoReq => req'[i].q = req[i].q /\ req'[i].e = req[i].e
    BY <1>1, <2>1 DEF NoReq, Requests
  <2> QED
    BY <1>1, <1>2, <2>2 DEF Told
<1>4. CASE hold'[i] = hold[i] /\ early' = early
  BY <1>1, <1>3, <1>4, ProvenStays, KeptAsIs, ATypes DEF Faulted
<1>5. CASE ~(hold'[i] = hold[i] /\ early' = early)
  <2>1. /\ req[i].e = epoch /\ hold' = [hold EXCEPT ![i] = Acknowledged(i)]
        /\ early' = IF hold' = hold THEN early ELSE early \ {i}
    BY <1>1, <1>5 DEF AckArrives
  <2>2. hold' # hold
    BY <1>5, <2>1
  <2>3. hold'[i] = Acknowledged(i) /\ hold'[i] # hold[i] /\ i \notin early'
    BY <1>1, <2>1, <2>2
  <2>4. /\ hold'[i] = [hold[i] EXCEPT !.ack = req[i].rev, !.ep = epoch]
        /\ hold[i].st = "confirmed" /\ hold[i].q <= req[i].q
    BY <2>3 DEF Acknowledged
  <2>5. /\ hold'[i].ack = req[i].rev /\ hold'[i].ep = epoch /\ hold'[i].st = "confirmed"
        /\ hold'[i].q = hold[i].q
    BY <1>1, <2>4 DEF Holds
  <2>6. ASSUME NEW r \in 1..Len(log), r >= req[i].rev PROVE Held(i, r)'
    <3>1. req[i].rev \in 1..Len(log) /\ log[req[i].rev].has[i] = frozen[i]
      BY <1>1, <2>1, <2>6, ATypes DEF Told
    <3>2. log[r].has[i] = frozen[i]
      BY <1>1, <1>2, <2>6, <3>1 DEF Told
    <3> QED
      BY <1>1, <1>2, <2>4, <2>5, <3>2 DEF Held
  <2>7. ~lost => req[i].rev <= Len(log)
    BY <1>1, <2>1 DEF Told, Shapes
  <2>8. epoch <= epoch
    BY <1>1, ATypes
  <2> QED
    BY <1>1, <1>3, <2>3, <2>5, <2>6, <2>7, <2>8 DEF Proven
<1> QED
  BY <1>4, <1>5

LEMMA ExchangeProof ==
  ASSUME AInv, Shapes', NEW i \in Items, Exchange(i), NEW j \in Items
  PROVE  Told(j)' /\ Proven(j)'
<1>1. /\ Shapes /\ Told(i) /\ Proven(i) /\ Told(j) /\ Proven(j)
      /\ req \in [Items -> Requests] /\ frozen \in [Items -> Nat] /\ hold \in [Items -> Holds]
  BY DEF AInv, CInv, Shapes
<1>2. CASE CoreRecords(i)
  BY <1>2, RecordsProof
<1>3. CASE AckArrives(i)
  <2>1. CASE j = i
    BY <1>3, <2>1, AckProof
  <2>2. CASE j # i
    <3>1. /\ UNCHANGED <<log, backup, lost, base, epoch, frozen, item, fault>>
          /\ hold'[j] = hold[j] /\ req'[j] = req[j] /\ (j \in early' <=> j \in early)
      BY <1>1, <1>3, <2>2 DEF AckArrives
    <3>2. Told(j)'
      BY <1>1, <3>1 DEF Told
    <3>3. Proven(j)'
      BY <1>1, <3>1 DEF Proven, Acked, Held, Faulted
    <3> QED
      BY <3>2, <3>3
  <2> QED
    BY <2>1, <2>2
<1>4. CASE RequestLost(i) \/ AckRecomputes(i)
  <2>1. /\ UNCHANGED <<log, backup, lost, base, epoch, early, frozen, item, hold>>
        /\ req' = [req EXCEPT ![i] = NoReq] /\ (fault => fault')
    BY <1>4, RecomputeFault DEF RequestLost, AckRecomputes
  <2>2. Told(j)'
    <3>1. req'[j] = req[j] \/ (req'[j] = NoReq /\ NoReq.st = "none")
      BY <1>1, <2>1 DEF NoReq
    <3> QED
      BY <1>1, <2>1, <3>1 DEF Told
  <2>3. Proven(j)'
    BY <1>1, <2>1, ProvenStays, KeptAsIs, ATypes DEF Faulted
  <2> QED
    BY <2>2, <2>3
<1>5. CASE Send(i)
  <2>1. /\ UNCHANGED <<log, backup, lost, base, epoch, early, item, hold, fault>>
        /\ ~item[i].gave /\ item[i].to > 0
        /\ frozen' = [frozen EXCEPT ![i] = IF @ = 0 THEN item[i].to ELSE @]
        /\ req' = [req EXCEPT ![i] = [st |-> "sent", e |-> epoch, q |-> frozen'[i], rev |-> 0]]
    BY <1>5 DEF Send
  <2>2. Proven(j)'
    <3>1. KeptRow(hold[j], hold'[j]) /\ (Faulted => Faulted') /\ item[j].sold \in Nat
      BY <1>1, <2>1, KeptAsIs, ATypes DEF Faulted
    <3>2. item'[j].gave = item[j].gave /\ item'[j].sold <= item[j].sold
      BY <2>1, <3>1
    <3> QED
      BY <1>1, <2>1, <3>1, <3>2, ProvenStays
  <2>3. CASE j # i
    <3>1. req'[j] = req[j] /\ frozen'[j] = frozen[j]
      BY <1>1, <2>1, <2>3
    <3> QED
      BY <1>1, <2>1, <2>2, <3>1 DEF Told
  <2>4. CASE j = i
    <3>1. /\ frozen'[i] > 0 /\ (frozen[i] # 0 => frozen'[i] = frozen[i])
          /\ req'[i].st = "sent" /\ req'[i].e = epoch /\ req'[i].q = frozen'[i]
      BY <1>1, <2>1, ATypes
    <3>2. epoch <= epoch
      BY <1>1, ATypes
    <3> QED
      BY <1>1, <2>1, <2>2, <2>4, <3>1, <3>2 DEF Told
  <2> QED
    BY <2>3, <2>4
<1> QED
  BY <1>2, <1>3, <1>4, <1>5 DEF Exchange

\* A reset carries what the backup proves, and nothing else stays acknowledged.
LEMMA ResetProof ==
  ASSUME AInv, Steady, Shapes', NEW carry \in Carries, Reset(carry), NEW j \in Items
  PROVE  Told(j)' /\ Proven(j)'
<1>1. /\ Shapes /\ Told(j) /\ Proven(j) /\ hold[j] \in Holds /\ lost /\ ~lost'
      /\ backup > 0 /\ Len(log) = backup /\ backup \in Nat
      /\ epoch' = epoch + 1 /\ epoch \in Nat /\ epoch >= 1
      /\ base' = Len(log) /\ hold[j].ep \in Nat /\ req[j].e \in Nat
      /\ UNCHANGED <<log, backup, item, early, req, frozen>>
  BY ATypes DEF AInv, CInv, WInv, Shapes, Reset
<1>2. ~Faulted /\ ~Faulted'
  BY <1>1, StockConstants DEF Reset, Steady, Faulted
<1>3. Told(j)'
  <2>1. req[j] # NoReq => req[j].e <= epoch /\ req[j].e # epoch'
    BY <1>1 DEF Told
  <2>2. NoReq.st = "none"
    BY DEF NoReq
  <2> QED
    BY <1>1, <2>1, <2>2 DEF Told
<1>4. CASE hold'[j] = hold[j]
  <2>1. hold[j].ep <= epoch
    BY <1>1 DEF Proven
  <2>2. hold'[j].ep <= epoch' /\ hold'[j].ep # epoch'
    BY <1>1, <1>4, <2>1
  <2>3. hold'[j].ack # NoAck => hold'[j].st = "confirmed"
    BY <1>1, <1>4 DEF Proven
  <2> QED
    BY <1>3, <2>2, <2>3 DEF Proven, Acked
<1>5. CASE hold'[j] = Carried(hold[j]) /\ j \in early /\ Acked(j)
  <2>1. /\ hold'[j].ack = 0 /\ hold'[j].ep = epoch + 1
        /\ hold'[j].st = hold[j].st /\ hold'[j].q = hold[j].q
    BY <1>1, <1>5 DEF Carried, Holds
  <2>2. Held(j, backup) /\ hold[j].st = "confirmed"
    BY <1>1, <1>2, <1>5 DEF Proven, Acked
  <2>3. ASSUME NEW r, r = backup PROVE Held(j, r)'
    BY <1>1, <2>1, <2>2, <2>3 DEF Held
  <2>4. \A r \in 1..Len(log) : r >= base' => r = backup
    BY <1>1
  <2>5. Held(j, backup)'
    BY <1>1, <2>3
  <2> QED
    BY <1>1, <1>3, <2>1, <2>2, <2>3, <2>4, <2>5 DEF Proven
<1> QED
  BY <1>3, <1>4, <1>5 DEF Reset, Acked

\* A release and what it waits for: the order stays in Core's versions.
LEMMA FreedStays ==
  ASSUME Shapes, Shapes', NEW i \in Items, Freed(i),
         UNCHANGED <<log, lost, epoch>>, pull' \in {pull, NoState},
         KeptRow(hold[i], hold'[i]), Faulted => Faulted',
         item'[i].gave = item[i].gave,
         Faulted' \/ (item[i].gave => item'[i].sold <= item[i].sold)
  PROVE  Freed(i)'
<1>1. CASE hold'[i].rel = "no" /\ hold'[i].relEp <= epoch
  BY <1>1 DEF Freed
<1>2. CASE /\ hold'[i].rel = hold[i].rel /\ hold'[i].relEp = hold[i].relEp
           /\ hold'[i].q <= hold[i].q \/ Faulted'
  <2>1. ASSUME NEW r \in 1..Len(log), Held(i, r), ~Faulted' PROVE Held(i, r)'
    <3>1. /\ hold[i].q \in Nat /\ hold'[i].q \in Nat /\ item[i].sold \in Nat
          /\ item'[i].sold \in Nat /\ log[r].has[i] \in Nat
      BY ATypes DEF Shapes, ItemRecords, Holds
    <3> QED
      BY <1>2, <2>1, <3>1 DEF Held
  <2>2. Len(log) \in 1..Len(log)
    BY ATypes
  <2> QED
    BY <1>2, <2>1, <2>2 DEF Freed
<1> QED
  BY <1>1, <1>2 DEF KeptRow

\* Core writes a version that holds the units if the last one did.
LEMMA FreedVersioned ==
  ASSUME Shapes, Shapes', NEW i \in Items, Freed(i), NEW b \in Balances, Versioned(b),
         UNCHANGED <<epoch, pull, hold, fault>>,
         \A r \in 1..Len(log) : Held(i, r) => Held(i, r)',
         Held(i, Len(log)) => Held(i, Len(log))'
  PROVE  Freed(i)'
<1>1. /\ Len(log') = Len(log) + 1 /\ Len(log) \in Nat \ {0} /\ ~lost /\ lost' = lost
      /\ hold[i].relEp \in Nat
  BY VersionedShapes, ATypes DEF Versioned, Holds
<1>2. \A r \in 1..Len(log') : r \in 1..Len(log) \/ r = Len(log')
  BY <1>1
<1>3. pull \in States
  BY DEF Shapes
<1>4. pull.r \in Nat
  BY <1>3 DEF States
<1>5. ASSUME hold[i].rel # "no", hold[i].relEp = epoch, ~Faulted
      PROVE  /\ Held(i, Len(log))'
             /\ hold[i].rel = "ripe" /\ pull # NoState /\ pull.e = epoch =>
                  pull.r <= Len(log') /\ \A r \in 1..Len(log') : r >= pull.r => Held(i, r)'
  <2>1. /\ Held(i, Len(log))
        /\ hold[i].rel = "ripe" /\ pull # NoState /\ pull.e = epoch =>
             pull.r <= Len(log) /\ \A r \in 1..Len(log) : r >= pull.r => Held(i, r)
    BY <1>1, <1>5 DEF Freed
  <2>2. ASSUME NEW r, r = Len(log'), Held(i, Len(log))' PROVE Held(i, r)'
    BY <2>2 DEF Held
  <2> QED
    BY <1>1, <1>2, <1>4, <2>1, <2>2
<1> QED
  BY <1>1, <1>5 DEF Freed, Faulted

LEMMA FreedGrows ==
  ASSUME Shapes, Shapes', NEW i \in Items, Freed(i), NEW b \in Balances, Versioned(b),
         UNCHANGED <<epoch, pull, hold, fault>>, item'[i] = item[i],
         b.has[i] >= Core.has[i]
  PROVE  Freed(i)'
<1>1. /\ Len(log') = Len(log) + 1 /\ Len(log) \in Nat \ {0}
      /\ \A r \in 1..Len(log) : log'[r] = log[r]
  BY VersionedShapes, ATypes DEF Versioned
<1>2. log'[Len(log')] = b
  BY DEF Versioned, Shapes
<1>3. \A r \in 1..Len(log) : Held(i, r) => Held(i, r)'
  BY <1>1 DEF Held
<1>4. Held(i, Len(log)) => Held(i, Len(log))'
  <2>1. /\ log[Len(log)].has[i] \in Nat /\ log'[Len(log')].has[i] = b.has[i]
        /\ b.has[i] \in Nat /\ log[Len(log)].has[i] <= b.has[i]
        /\ hold[i].q \in Nat /\ item[i].sold \in Nat
    BY <1>1, <1>2, ATypes DEF Core, Balances
  <2> QED
    BY <2>1 DEF Held
<1> QED
  BY <1>3, <1>4, FreedVersioned

LEMMA CoreFreed ==
  ASSUME AInv, Shapes', NEW j \in Items,
         \/ \E d \in {-1, 1} : InStore(d)
         \/ StatusFlips \/ Backup \/ Restore
         \/ \E i \in Items : CoreRecords(i) \/ CoreGivesBack(i)
  PROVE  Freed(j)'
<1>1. Shapes /\ Freed(j) /\ Core \in Balances /\ Core.has[j] \in Nat
  BY CoreType DEF AInv, CInv, Balances
<1>2. ASSUME NEW d \in {-1, 1}, InStore(d) PROVE Freed(j)'
  <2> DEFINE b == [Core EXCEPT !.n = @ + d]
  <2>1. b \in Balances /\ b.has[j] = Core.has[j]
    BY <1>1 DEF Balances
  <2>2. Versioned(b) /\ UNCHANGED <<epoch, pull, hold, fault, item>>
    BY <1>2 DEF InStore
  <2> HIDE DEF b
  <2> QED
    BY <1>1, <2>1, <2>2, FreedGrows
<1>3. CASE StatusFlips
  <2> DEFINE b == [Core EXCEPT !.a = ~@]
  <2>1. b \in Balances /\ b.has[j] = Core.has[j]
    BY <1>1 DEF Balances
  <2>2. Versioned(b) /\ UNCHANGED <<epoch, pull, hold, fault, item>>
    BY <1>3 DEF StatusFlips
  <2> HIDE DEF b
  <2> QED
    BY <1>1, <2>1, <2>2, FreedGrows
<1>4. CASE Backup
  <2>1. UNCHANGED <<log, lost, epoch, pull, hold, item, fault>>
    BY <1>4 DEF Backup
  <2> QED
    BY <1>1, <2>1 DEF Freed, Held, Faulted
<1>5. CASE Restore
  <2>1. lost' /\ UNCHANGED <<epoch, hold>>
    BY <1>5 DEF Restore
  <2> QED
    BY <1>1, <2>1 DEF Freed
<1>6. ASSUME NEW i \in Items, CoreRecords(i) PROVE Freed(j)'
  <2>1. UNCHANGED <<epoch, pull, hold, fault, item>> /\ req[i].q \in Nat
    BY <1>1, <1>6, ATypes DEF CoreRecords
  <2>2. CASE Core.has[i] = 0
    <3> DEFINE b == Recorded(Core, i, req[i].q)
    <3>1. Versioned(b)
      BY <1>6, <2>2 DEF CoreRecords
    <3>2. b \in Balances
      BY <1>1, <2>1, RecordedType
    <3>3. b.has[j] >= Core.has[j]
      BY <1>1, <2>1, <2>2 DEF Recorded, Balances
    <3> HIDE DEF b
    <3> QED
      BY <1>1, <2>1, <3>1, <3>2, <3>3, FreedGrows
  <2>3. CASE Core.has[i] # 0
    <3>1. UNCHANGED <<log, lost>>
      BY <1>6, <2>3 DEF CoreRecords
    <3> QED
      BY <1>1, <2>1, <3>1 DEF Freed, Held, Faulted
  <2> QED
    BY <1>1, <2>2, <2>3
<1>7. ASSUME NEW i \in Items, CoreGivesBack(i) PROVE Freed(j)'
  <2> DEFINE b == Recorded(Core, i, item[i].sold)
  <2>1. UNCHANGED <<epoch, pull, hold, fault>> /\ item[i].sold \in Nat /\ Versioned(b)
    BY <1>1, <1>7, ATypes DEF CoreGivesBack
  <2>2. /\ b \in Balances /\ b.has[i] = item[i].sold
        /\ \A k \in Items \ {i} : b.has[k] = Core.has[k]
    BY <1>1, <2>1, RecordedType DEF Recorded, Balances
  <2> HIDE DEF b
  <2>3. /\ item'[i].gave = TRUE /\ item'[i].sold = item[i].sold
        /\ \A k \in Items \ {i} : item'[k] = item[k]
    BY <1>1, <1>7, ATypes DEF CoreGivesBack, Shapes, ItemRecords
  <2>4. CASE j # i
    <3>1. b.has[j] >= Core.has[j] /\ item'[j] = item[j]
      BY <1>1, <2>2, <2>3, <2>4
    <3> QED
      BY <1>1, <2>1, <2>2, <3>1, FreedGrows
  <2>5. CASE j = i
    <3>1. /\ Len(log') = Len(log) + 1 /\ Len(log) \in Nat
          /\ \A r \in 1..Len(log) : log'[r] = log[r]
      BY <1>1, <2>1, <2>2, VersionedShapes, ATypes DEF Versioned
    <3>2. log'[Len(log')] = b
      BY <1>1, <2>1, <2>2 DEF Versioned, Shapes
    <3>3. \A r \in 1..Len(log) : Held(i, r) => Held(i, r)'
      BY <2>1, <2>3, <3>1 DEF Held
    <3>4. item'[i].sold <= log'[Len(log')].has[i]
      BY <2>1, <2>2, <2>3, <3>2
    <3>5. Held(i, Len(log))'
      BY <2>3, <3>4 DEF Held
    <3> QED
      BY <1>1, <2>1, <2>2, <2>5, <3>3, <3>5, FreedVersioned
  <2> QED
    BY <2>4, <2>5
<1> QED
  BY <1>2, <1>3, <1>4, <1>5, <1>6, <1>7

\* A step of one item, of the wire or of the order's way to Core.
LEMMA OneItemFreed ==
  ASSUME AInv, Shapes', NEW i \in Items, OneItemStep(i), NEW j \in Items
  PROVE  Freed(j)'
<1>1. Shapes /\ Freed(j) /\ item[j].sold \in Nat
  BY ATypes DEF AInv, CInv
<1>2. CASE j # i
  <2>1. item'[j] = item[j] /\ KeptRow(hold[j], hold'[j])
    BY <1>1, <1>2, KeptAsIs DEF OneItemStep
  <2>2. item'[j].gave = item[j].gave /\ item'[j].sold <= item[j].sold
    BY <1>1, <2>1
  <2> QED
    BY <1>1, <2>1, <2>2, FreedStays DEF OneItemStep
<1>3. CASE j = i
  BY <1>1, <1>3, FreedStays DEF OneItemStep
<1> QED
  BY <1>2, <1>3

LEMMA ExchangeFreed ==
  ASSUME AInv, Shapes', NEW i \in Items, Exchange(i), NEW j \in Items
  PROVE  Freed(j)'
<1>1. /\ Shapes /\ Freed(j) /\ hold \in [Items -> Holds] /\ item[j].sold \in Nat
      /\ item[j].sold <= item[j].sold
  BY ATypes DEF AInv, CInv, Shapes
<1>2. CASE CoreRecords(i)
  BY <1>2, CoreFreed
<1>3. CASE AckArrives(i)
  <2>1. UNCHANGED <<log, lost, epoch, pull, item, fault>>
    BY <1>3 DEF AckArrives
  <2>2. hold'[j] = hold[j] \/ hold'[j] = [hold[j] EXCEPT !.ack = req[i].rev, !.ep = epoch]
    BY <1>1, <1>3 DEF AckArrives, Acknowledged
  <2>3. /\ hold'[j].rel = hold[j].rel /\ hold'[j].relEp = hold[j].relEp
        /\ hold'[j].q = hold[j].q
    BY <1>1, <2>2 DEF Holds
  <2> QED
    BY <1>1, <2>1, <2>3 DEF Freed, Held, Faulted
<1>4. CASE Send(i) \/ RequestLost(i) \/ AckRecomputes(i)
  <2>1. UNCHANGED <<log, lost, epoch, pull, item, hold>> /\ (fault => fault')
    BY <1>4, RecomputeFault DEF Send, RequestLost, AckRecomputes
  <2>2. /\ KeptRow(hold[j], hold'[j]) /\ (Faulted => Faulted')
        /\ item'[j].gave = item[j].gave /\ item'[j].sold <= item[j].sold
    BY <1>1, <2>1, KeptAsIs DEF Faulted
  <2> QED
    BY <1>1, <2>1, <2>2, FreedStays
<1> QED
  BY <1>2, <1>3, <1>4 DEF Exchange

LEMMA WireFreed ==
  ASSUME AInv, Shapes', Wire, NEW j \in Items
  PROVE  Freed(j)'
<1>1. /\ UNCHANGED <<log, lost, epoch, item, fault>> /\ Shapes /\ Freed(j)
      /\ hold[j] \in Holds /\ epoch \in Nat /\ Len(log) \in 1..Len(log)
  <2>1. UNCHANGED <<log, lost, epoch, item, fault>>
    BY DEF Wire, StartPull, ApplyPull, DropPull, Push
  <2>2. Shapes /\ Freed(j)
    BY DEF AInv, CInv
  <2>3. hold[j] \in Holds /\ epoch \in Nat /\ Len(log) \in Nat \ {0}
    BY <2>2, ATypes
  <2> QED
    BY <2>1, <2>2, <2>3
<1>2. CASE StartPull
  <2>1. pull' = Snapshot(Len(log), epoch) /\ pull'.r = Len(log)
    BY <1>1, <1>2, SnapshotType DEF StartPull
  <2>2. hold'[j] = hold[j] \/ (hold[j].rel = "asked" /\ hold'[j] = [hold[j] EXCEPT !.rel = "ripe"])
    BY <1>2 DEF StartPull
  <2>3. /\ hold'[j].relEp = hold[j].relEp /\ hold'[j].q = hold[j].q
        /\ hold'[j].rel # "no" => hold[j].rel # "no"
    BY <1>1, <2>2 DEF Holds
  <2>4. \A r \in 1..Len(log) : Held(j, r)' <=> Held(j, r)
    BY <1>1, <2>3 DEF Held
  <2>5. \A r \in 1..Len(log) : r >= Len(log) => r = Len(log)
    BY <1>1
  <2>6. Len(log) <= Len(log)
    BY <1>1
  <2> QED
    BY <1>1, <2>1, <2>3, <2>4, <2>5, <2>6 DEF Freed, Faulted
<1>3. CASE ApplyPull
  <2>1. hold' = Bound /\ pull' = NoState
    BY <1>3 DEF ApplyPull
  <2>2. CASE j \notin Bindable
    <3>1. hold'[j] = hold[j]
      BY <2>1, <2>2 DEF Bound
    <3> QED
      BY <1>1, <2>1, <3>1 DEF Freed, Held, Faulted
  <2>3. CASE j \in Bindable
    <3>1. hold'[j] = [hold[j] EXCEPT !.st = "confirmed", !.ack = pull.r, !.ep = epoch,
                                     !.rel = "no", !.relEp = 0]
      BY <2>1, <2>3 DEF Bound
    <3>2. hold'[j].rel = "no" /\ hold'[j].relEp = 0
      BY <1>1, <3>1 DEF Holds
    <3> QED
      BY <1>1, <3>2 DEF Freed
  <2> QED
    BY <2>2, <2>3
<1>4. CASE hold' = hold /\ pull' \in {pull, NoState}
  BY <1>1, <1>4 DEF Freed, Held, Faulted
<1> QED
  BY <1>2, <1>3, <1>4 DEF Wire, DropPull, Push

LEMMA ResetFreed ==
  ASSUME AInv, NEW carry \in Carries, Reset(carry), NEW j \in Items
  PROVE  Freed(j)'
<1>1. /\ epoch' = epoch + 1 /\ epoch \in Nat /\ hold[j] \in Holds /\ Freed(j)
      /\ hold[j].relEp \in Nat
  BY ATypes DEF AInv, CInv, Reset, Holds
<1>2. hold'[j].relEp = hold[j].relEp
  <2>1. hold'[j] = Carried(hold[j]) \/ hold'[j] = hold[j]
    BY DEF Reset
  <2> QED
    BY <1>1, <2>1 DEF Carried, Holds
<1>3. hold'[j].relEp <= epoch' /\ hold'[j].relEp # epoch'
  BY <1>1, <1>2 DEF Freed
<1> QED
  BY <1>3 DEF Freed

\* A manager releases a hold whose order Core recorded.
LEMMA ReleaseProof ==
  ASSUME AInv, Recording, Shapes', NEW i \in Items,
         NEW reason \in Releases, ReleaseHold(i, reason), NEW j \in Items
  PROVE  Told(j)' /\ Proven(j)' /\ Freed(j)'
<1>1. /\ UNCHANGED <<log, backup, lost, base, epoch, early, pull, frozen, req, item, fault>>
      /\ Shapes /\ Told(j) /\ Proven(j) /\ Freed(j) /\ hold \in [Items -> Holds]
      /\ ~lost /\ hold[i].q <= log[Len(log)].has[i] /\ epoch \in Nat
      /\ hold' = [hold EXCEPT ![i] = [@ EXCEPT !.rel = "asked", !.relEp = epoch]]
  BY ATypes DEF AInv, CInv, Shapes, ReleaseHold, Core, Recording
<1>2. Told(j)'
  BY <1>1 DEF Told
<1>3. /\ hold'[j].ack = hold[j].ack /\ hold'[j].ep = hold[j].ep
      /\ hold'[j].st = hold[j].st /\ hold'[j].q = hold[j].q
  BY <1>1 DEF Holds
<1>4. Proven(j)'
  BY <1>1, <1>3 DEF Proven, Acked, Held, Faulted
<1>5. CASE j # i
  <2>1. hold'[j] = hold[j]
    BY <1>1, <1>5
  <2> QED
    BY <1>1, <1>2, <1>4, <2>1 DEF Freed, Held, Faulted
<1>6. CASE j = i
  <2>1. hold'[i].rel = "asked" /\ hold'[i].relEp = epoch /\ hold'[i].q = hold[i].q
    BY <1>1 DEF Holds
  <2>2. Held(i, Len(log))'
    BY <1>1, <2>1 DEF Held
  <2>3. epoch <= epoch
    BY <1>1
  <2> QED
    BY <1>1, <1>2, <1>4, <1>6, <2>1, <2>2, <2>3 DEF Freed
<1> QED
  BY <1>5, <1>6

LEMMA NextAInv ==
  ASSUME AInv, Steady, Recording, [Next]_vars
  PROVE  AInv'
<1>1. CInv' /\ WInv' /\ Shapes'
  BY NextCInv, NextWInv DEF AInv, CInv
<1>2. ASSUME NEW j \in Items PROVE Told(j)' /\ Proven(j)' /\ Freed(j)'
  <2>1. ASSUME NEW i \in Items,
               \/ Order(i) \/ ItemStep(i) \/ Exchange(i) \/ CoreGivesBack(i)
               \/ MoveFails(i) \/ ItemDies(i) \/ Drain(i)
        PROVE  Told(j)' /\ Proven(j)' /\ Freed(j)'
    <3>1. CASE Order(i) \/ ItemStep(i) \/ MoveFails(i) \/ ItemDies(i) \/ Drain(i)
      BY <1>1, <3>1, OrderIsOne, ItemIsOne, OneItemProof, OneItemFreed
    <3>2. CASE Exchange(i)
      BY <1>1, <3>2, ExchangeProof, ExchangeFreed
    <3>3. CASE CoreGivesBack(i)
      BY <1>1, <3>3, CoreProof, CoreFreed
    <3> QED
      BY <2>1, <3>1, <3>2, <3>3
  <2>2. CASE \/ \E d \in {-1, 1} : InStore(d)
             \/ StatusFlips \/ Backup \/ Restore
    BY <1>1, <2>2, CoreProof, CoreFreed
  <2>3. CASE Wire
    BY <1>1, <2>3, WireProof, WireFreed
  <2>4. ASSUME NEW carry \in Carries, Reset(carry) PROVE Told(j)' /\ Proven(j)' /\ Freed(j)'
    BY <1>1, <2>4, ResetProof, ResetFreed
  <2>5. ASSUME NEW i \in Items, NEW reason \in Releases, ReleaseHold(i, reason)
        PROVE  Told(j)' /\ Proven(j)' /\ Freed(j)'
    BY <1>1, <2>5, ReleaseProof
  <2>6. CASE WriterStep \/ UNCHANGED vars
    <3>1. UNCHANGED <<log, backup, lost, item, hold, early, fault, epoch, base, pull, req, frozen>>
      BY <2>6 DEF WriterStep, Writers, JobReads, JobCommits, Maintain, JobGivesUp, JobDies,
         FixStep, FixReads, FixCommits, FixEnds, FixDies, vars
    <3>2. Freed(j)'
      BY <3>1 DEF AInv, Freed, Held, Faulted
    <3> QED
      BY <1>1, <3>1, <3>2, QuietProof DEF Faulted
  <2> QED
    BY <2>1, <2>2, <2>3, <2>4, <2>5, <2>6 DEF Next, WriterStep
<1> QED
  BY <1>1, <1>2 DEF AInv

(* An item whose hold a pushed or pulled number no longer subtracts is in    *)
(* every version of Core that number can come from, over restores and resets *)
(* that carry acknowledgements, as long as no fault is set: because Core     *)
(* answered for it, or because it was released once Core recorded it.       *)
THEOREM AckProves == Steady /\ Recording => (Spec => []AckIsProof)
<1> SUFFICES ASSUME Steady, Recording PROVE Spec => []AckIsProof
  OBVIOUS
<1>1. Init => AInv
  BY InitAInv
<1>2. AInv /\ [Next]_vars => AInv'
  BY NextAInv
<1>3. AInv => AckIsProof
  <2> SUFFICES ASSUME AInv, NEW i \in Items, Acked(i), ~lost, ~fault,
                      NEW r \in 1..Len(log), r >= hold[i].ack, r >= base
               PROVE  item[i].sold <= log[r].has[i]
    BY DEF AckIsProof
  <2>1. Held(i, r) /\ item[i].sold <= hold[i].q
    BY DEF AInv, CInv, Covers, Faulted, Proven
  <2> QED
    BY <2>1, ATypes DEF Held, AInv, CInv
<1> QED
  BY <1>1, <1>2, <1>3, PTL DEF Spec

-----------------------------------------------------------------------------
(* The sums: what the holds subtract, and the number made from a snapshot.   *)

LEMMA PendingType ==
  ASSUME Shapes, NEW e, NEW r
  PROVE  Pending(e, r) \in Nat
<1> DEFINE F == [i \in Items |-> hold[i].q]
           S == {i \in Items : Counted(hold[i], e, r)}
<1>1. IsFiniteSet(S)
  BY StockConstants, FS_Subset
<1>2. \A i \in S : F[i] \in Nat
  BY ATypes
<1> HIDE DEF F, S
<1>3. SumFunctionOnSet(F, S) \in Nat
  BY <1>1, <1>2, SumNat
<1> QED
  BY <1>3 DEF Pending, F, S

\* A snapshot of a variation that is not sold has nothing on sale.
Plain(s) == s \in States /\ (s.a \/ s.c = 0)

LEMMA TargetType ==
  ASSUME Shapes, NEW s, Plain(s), NEW e
  PROVE  /\ Target(s, e) \in Nat /\ Added(s, e) \in Nat
         /\ Target(s, e) - Added(s, e) = s.c - Pending(e, s.r)
<1>1. Pending(e, s.r) \in Nat /\ s.c \in Nat /\ (s.a \/ s.c = 0)
  BY PendingType DEF Plain, States
<1> QED
  BY <1>1 DEF Target, Added, Pos

LEMMA SnapshotPlain ==
  ASSUME Shapes, NEW r \in 1..Len(log), NEW e \in Nat
  PROVE  Plain(Snapshot(r, e))
<1>1. Snapshot(r, e) \in States
  BY SnapshotType
<1> QED
  BY <1>1 DEF Plain, Snapshot

-----------------------------------------------------------------------------
(* Types.                                                                   *)

Numbers ==
  /\ stock \in Int /\ excess \in Nat
  /\ job \in Jobs /\ fix \in Fixes
  /\ Plain(state) /\ Plain(job.s) /\ Plain(pull)

LEMMA NoneTypes ==
  /\ Plain(NoState) /\ NoState.e = 0
  /\ NoJob \in Jobs /\ NoJob.s = NoState /\ NoJob.st = "none" /\ NoJob.pub = FALSE
  /\ NoFix \in Fixes /\ NoFix.st = "none"
<1>1. NoState \in States /\ NoState.c = 0 /\ NoState.e = 0
  BY DEF NoState, States
<1> QED
  BY <1>1 DEF Plain, NoJob, Jobs, NoFix, Fixes

LEMMA InitNumbers == Init => Numbers
BY NoneTypes, StockConstants DEF Init, Numbers

LEMMA TakenNumbers ==
  ASSUME NEW s \in States, NEW by \in {"recompute", "maintain", "pull", "push"},
         NEW pub \in BOOLEAN, TakeLock(by, s, pub)
  PROVE  /\ job' \in Jobs /\ job'.s = s /\ job'.pub = pub /\ job'.st = "held" /\ job'.by = by
         /\ job'.n = 0 /\ job'.cl = 0
<1>1. job' = [by |-> by, s |-> s, pub |-> pub, st |-> "held", n |-> 0, cl |-> 0]
  BY DEF TakeLock, NoJob
<1> QED
  BY <1>1 DEF Jobs

LEMMA RecomputeNumbers ==
  ASSUME Numbers, Recompute, UNCHANGED <<stock, excess, fix, state, pull>>
  PROVE  Numbers'
<1>1. CASE job' = job
  BY <1>1 DEF Numbers
<1>2. CASE TakeLock("recompute", state, FALSE)
  <2>1. state \in States
    BY DEF Numbers, Plain
  <2>2. job' \in Jobs /\ job'.s = state
    BY <1>2, <2>1, TakenNumbers
  <2> QED
    BY <2>2 DEF Numbers
<1> QED
  BY <1>1, <1>2 DEF Recompute

LEMMA ItemNumbers ==
  ASSUME Shapes, Numbers, NEW i \in Items,
         \/ Order(i) \/ ItemStep(i) \/ Exchange(i) \/ CoreGivesBack(i)
         \/ MoveFails(i) \/ ItemDies(i) \/ Drain(i)
         \/ \E reason \in Releases : ReleaseHold(i, reason)
  PROVE  Numbers'
<1>1. CASE ItemRecomputes(i) \/ AckRecomputes(i)
  <2>1. Recompute /\ UNCHANGED <<stock, excess, fix, state, pull>>
    BY <1>1 DEF ItemRecomputes, AckRecomputes
  <2> QED
    BY <2>1, RecomputeNumbers
<1>2. CASE Move(i)
  <2>1. item[i].sold \in Nat /\ item[i].meta \in Nat /\ item[i].to \in Nat
    BY ATypes
  <2>2. stock' \in Int /\ excess' \in Nat
    BY <1>2, <2>1 DEF Move, Pos, Numbers
  <2> QED
    BY <1>2, <2>2 DEF Move, Numbers
<1>3. CASE UNCHANGED <<stock, excess, job, fix, state, pull>>
  BY <1>3 DEF Numbers
<1>4. CASE Order(i)
  BY <1>3, <1>4 DEF Order, BeginReduce, BeginRaise, BeginLower, Cancel
<1>5. CASE \/ WriteMeta(i) \/ Sync(i) \/ MoveFails(i) \/ ItemDies(i) \/ Drain(i)
           \/ CoreGivesBack(i) \/ \E reason \in Releases : ReleaseHold(i, reason)
  BY <1>3, <1>5 DEF WriteMeta, Sync, MoveFails, ItemDies, Drain, CoreGivesBack, ReleaseHold
<1>6. CASE Send(i) \/ RequestLost(i) \/ AckArrives(i) \/ CoreRecords(i)
  BY <1>3, <1>6 DEF Send, RequestLost, AckArrives, CoreRecords
<1> QED
  BY <1>1, <1>2, <1>4, <1>5, <1>6 DEF ItemStep, Exchange

LEMMA WireNumbers ==
  ASSUME Shapes, Numbers, Wire
  PROVE  Numbers'
<1>0. Len(log) \in 1..Len(log) /\ epoch \in Nat
  BY DEF Shapes
<1>1. CASE StartPull
  <2>1. Plain(pull')
    BY <1>0, <1>1, SnapshotPlain DEF StartPull
  <2> QED
    BY <1>1, <2>1 DEF StartPull, Numbers
<1>2. CASE ApplyPull
  <2>1. pull' = NoState /\ UNCHANGED <<stock, excess, fix, state>>
    BY <1>2 DEF ApplyPull
  <2>2. job' \in Jobs /\ Plain(job'.s)
    <3>1. state \in States /\ pull \in States
      BY DEF Numbers, Plain
    <3>2. CASE TakeLock("pull", pull, TRUE)
      BY <3>1, <3>2, TakenNumbers DEF Numbers
    <3>3. CASE TakeLock("pull", state, FALSE)
      BY <3>1, <3>3, TakenNumbers DEF Numbers
    <3>4. CASE job' = job
      BY <3>4 DEF Numbers
    <3> QED
      BY <1>2, <3>2, <3>3, <3>4 DEF ApplyPull
  <2> QED
    BY <2>1, <2>2, NoneTypes DEF Numbers
<1>3. CASE DropPull
  BY <1>3, NoneTypes DEF DropPull, Numbers
<1>4. ASSUME NEW r \in 1..Len(log), Push(r) PROVE Numbers'
  <2> DEFINE s == Snapshot(r, epoch)
  <2>1. Plain(s)
    BY <1>0, SnapshotPlain
  <2>2. \/ TakeLock("push", s, TRUE) /\ stock' = stock
        \/ stock' = s.c /\ job' = job
    BY <1>4 DEF Push
  <2>3. UNCHANGED <<excess, fix, state, pull>>
    BY <1>4 DEF Push
  <2> HIDE DEF s
  <2>4. CASE TakeLock("push", s, TRUE) /\ stock' = stock
    <3>1. job' \in Jobs /\ job'.s = s
      BY <2>1, <2>4, TakenNumbers DEF Plain
    <3> QED
      BY <2>1, <2>3, <2>4, <3>1 DEF Numbers
  <2>5. CASE stock' = s.c /\ job' = job
    <3>1. s.c \in Int
      BY <2>1 DEF Plain, States
    <3> QED
      BY <2>3, <2>5, <3>1 DEF Numbers
  <2> QED
    BY <2>2, <2>4, <2>5
<1> QED
  BY <1>1, <1>2, <1>3, <1>4 DEF Wire

LEMMA WriterNumbers ==
  ASSUME Shapes, Numbers, WriterStep
  PROVE  Numbers'
<1>0. pull' = pull /\ state \in States /\ epoch \in Nat
  BY DEF Shapes, Numbers, Plain, WriterStep, Writers, JobReads, JobCommits, Maintain,
     JobGivesUp, JobDies, FixStep, FixReads, FixCommits, FixEnds, FixDies
<1>1. CASE JobReads
  <2>1. Target(job.s, epoch) \in Nat /\ Added(job.s, epoch) \in Nat
    BY TargetType DEF Numbers
  <2>2. job' \in Jobs /\ job'.s = job.s
    BY <1>1, <2>1 DEF JobReads, Jobs, Numbers
  <2> QED
    BY <1>1, <2>2 DEF JobReads, Numbers
<1>2. CASE JobCommits
  <2>1. job.n \in Nat /\ job.cl \in Nat
    BY DEF Numbers, Jobs
  <2>2. Plain(state') /\ job' = NoJob /\ fix' = fix /\ stock' = job.n /\ excess' = job.cl
    BY <1>2 DEF JobCommits, Published, Numbers
  <2> QED
    BY <1>0, <2>1, <2>2, NoneTypes DEF Numbers
<1>3. CASE Maintain
  <2>1. UNCHANGED <<stock, excess, fix, state, pull>>
    BY <1>3 DEF Maintain
  <2>2. CASE job' = job
    BY <2>1, <2>2 DEF Numbers
  <2>3. CASE TakeLock("maintain", state, FALSE)
    <3>1. job' \in Jobs /\ job'.s = state
      BY <1>0, <2>3, TakenNumbers
    <3> QED
      BY <2>1, <3>1 DEF Numbers
  <2> QED
    BY <1>3, <2>2, <2>3 DEF Maintain
<1>4. CASE JobGivesUp \/ JobDies
  BY <1>4, NoneTypes DEF JobGivesUp, JobDies, Numbers
<1>5. CASE FixReads
  <2>1. Plain(Reopened)
    <3>1. Plain(state)
      BY DEF Numbers
    <3> QED
      BY <1>0, <3>1 DEF Reopened, Plain, States
  <2>2. Target(Reopened, epoch) \in Nat /\ Added(Reopened, epoch) \in Nat
    BY <2>1, TargetType
  <2>3. fix' \in Fixes
    <3>1. [NoFix EXCEPT !.e = epoch, !.st = "done"] \in Fixes
      BY <1>0 DEF NoFix, Fixes
    <3>2. [e |-> epoch, st |-> "read", n |-> Target(Reopened, epoch),
           cl |-> Added(Reopened, epoch)] \in Fixes
      BY <1>0, <2>2 DEF Fixes
    <3> QED
      BY <1>5, <3>1, <3>2 DEF FixReads
  <2> QED
    BY <1>5, <2>3 DEF FixReads, Numbers
<1>6. CASE FixCommits
  BY <1>6 DEF FixCommits, Numbers, Fixes
<1>7. CASE FixEnds \/ FixDies
  BY <1>7, NoneTypes DEF FixEnds, FixDies, Numbers
<1> QED
  BY <1>1, <1>2, <1>3, <1>4, <1>5, <1>6, <1>7 DEF WriterStep, Writers, FixStep

LEMMA NextNumbers ==
  ASSUME Shapes, Numbers, [Next]_vars
  PROVE  Numbers'
<1>1. ASSUME NEW i \in Items,
             \/ Order(i) \/ ItemStep(i) \/ Exchange(i) \/ CoreGivesBack(i)
             \/ MoveFails(i) \/ ItemDies(i) \/ Drain(i)
             \/ \E reason \in Releases : ReleaseHold(i, reason)
      PROVE  Numbers'
  BY <1>1, ItemNumbers
<1>2. CASE \/ \E d \in {-1, 1} : InStore(d)
           \/ StatusFlips \/ Backup \/ Restore \/ UNCHANGED vars
           \/ \E carry \in Carries : Reset(carry)
  BY <1>2 DEF InStore, StatusFlips, Backup, Restore, Reset, vars, Numbers
<1>3. CASE Wire \/ WriterStep
  BY <1>3, WireNumbers, WriterNumbers
<1> QED
  BY <1>1, <1>2, <1>3 DEF Next, WriterStep

Flags ==
  /\ lost \in BOOLEAN /\ fault \in BOOLEAN /\ redo \in {"none", "new", "seen"}
  /\ early \in SUBSET Items /\ backlog \in SUBSET Items
  /\ intent \in Nat /\ ops \in Nat /\ mishaps \in Nat

LEMMA FailsFlags == ASSUME mishaps \in Nat, NEW kind, Fails(kind) PROVE mishaps' \in Nat
BY DEF Fails

LEMMA RecomputeFlags ==
  ASSUME Flags, Recompute, UNCHANGED <<lost, early, backlog, intent, ops>>
  PROVE  Flags'
<1>1. CASE MarkRedo
  BY <1>1, FailsFlags DEF MarkRedo, Flags
<1>2. CASE UNCHANGED <<redo, fault, mishaps>>
  BY <1>2 DEF Flags
<1> QED
  BY <1>1, <1>2 DEF Recompute

LEMMA ItemFlags ==
  ASSUME Shapes, Flags, NEW i \in Items,
         \/ Order(i) \/ ItemStep(i) \/ Exchange(i) \/ CoreGivesBack(i)
         \/ MoveFails(i) \/ ItemDies(i) \/ Drain(i)
         \/ \E reason \in Releases : ReleaseHold(i, reason)
  PROVE  Flags'
<1>1. CASE Order(i)
  <2>1. ops' \in Nat
    BY <1>1 DEF Order, BeginReduce, BeginRaise, BeginLower, Cancel, Idle, Flags
  <2>2. UNCHANGED <<lost, early, backlog, redo, intent>>
    BY <1>1 DEF Order, BeginReduce, BeginRaise, BeginLower, Cancel
  <2>3. fault' \in BOOLEAN /\ mishaps' \in Nat
    <3>1. ASSUME NEW h, Intends(i, h) PROVE fault' \in BOOLEAN /\ mishaps' \in Nat
      BY <3>1, FailsFlags DEF Intends, Flags
    <3> QED
      BY <1>1, <3>1 DEF Order, BeginReduce, BeginRaise, BeginLower, Cancel, Flags
  <2> QED
    BY <2>1, <2>2, <2>3 DEF Flags
<1>2. CASE Move(i) \/ WriteMeta(i)
  BY <1>2 DEF Move, WriteMeta, Flags
<1>3. CASE Sync(i)
  <2>1. UNCHANGED <<lost, early, redo, intent, ops>>
    BY <1>3 DEF Sync
  <2>2. backlog' \in SUBSET Items
    BY <1>3 DEF Sync, Flags
  <2>3. fault' \in BOOLEAN /\ mishaps' \in Nat
    BY <1>3, FailsFlags DEF Sync, Flags
  <2> QED
    BY <2>1, <2>2, <2>3 DEF Flags
<1>4. CASE ItemRecomputes(i) \/ AckRecomputes(i)
  <2>1. Recompute /\ UNCHANGED <<lost, early, backlog, intent, ops>>
    BY <1>4 DEF ItemRecomputes, AckRecomputes
  <2> QED
    BY <2>1, RecomputeFlags
<1>5. CASE MoveFails(i) \/ ItemDies(i) \/ RequestLost(i)
  BY <1>5, FailsFlags DEF MoveFails, ItemDies, RequestLost, Flags
<1>6. CASE Drain(i)
  BY <1>6 DEF Drain, Flags
<1>7. CASE Send(i)
  BY <1>7 DEF Send, Flags
<1>8. CASE AckArrives(i)
  BY <1>8 DEF AckArrives, Flags
<1>9. CASE CoreRecords(i) \/ CoreGivesBack(i) \/ \E reason \in Releases : ReleaseHold(i, reason)
  BY <1>9 DEF CoreRecords, CoreGivesBack, ReleaseHold, Versioned, Flags
<1> QED
  BY <1>1, <1>2, <1>3, <1>4, <1>5, <1>6, <1>7, <1>8, <1>9 DEF ItemStep, Exchange

LEMMA SiteFlags ==
  ASSUME Shapes, Flags, Wire \/ WriterStep
  PROVE  Flags'
<1>1. CASE StartPull \/ ApplyPull \/ \E r \in 1..Len(log) : Push(r)
  BY <1>1 DEF StartPull, ApplyPull, Push, Flags
<1>2. CASE DropPull
  BY <1>2, FailsFlags DEF DropPull, Flags
<1>3. CASE JobReads \/ Maintain
  BY <1>3 DEF JobReads, Maintain, Flags
<1>4. CASE JobCommits
  BY <1>4, FailsFlags DEF JobCommits, Unmarked, Flags
<1>5. CASE JobGivesUp \/ JobDies
  BY <1>5, FailsFlags DEF JobGivesUp, JobDies, Flags
<1>6. CASE FixReads \/ FixCommits
  BY <1>6 DEF FixReads, FixCommits, Flags
<1>7. CASE FixEnds \/ FixDies
  BY <1>7, FailsFlags DEF FixEnds, FixDies, Flags
<1> QED
  BY <1>1, <1>2, <1>3, <1>4, <1>5, <1>6, <1>7 DEF Wire, WriterStep, Writers, FixStep

LEMMA NextFlags ==
  ASSUME Shapes, Flags, [Next]_vars
  PROVE  Flags'
<1>1. ASSUME NEW i \in Items,
             \/ Order(i) \/ ItemStep(i) \/ Exchange(i) \/ CoreGivesBack(i)
             \/ MoveFails(i) \/ ItemDies(i) \/ Drain(i)
             \/ \E reason \in Releases : ReleaseHold(i, reason)
      PROVE  Flags'
  BY <1>1, ItemFlags
<1>2. CASE \/ \E d \in {-1, 1} : InStore(d)
           \/ StatusFlips \/ Restore \/ UNCHANGED vars
  BY <1>2 DEF InStore, StatusFlips, Restore, Versioned, vars, Flags
<1>3. CASE Backup
  BY <1>3 DEF Backup, Flags
<1>4. ASSUME NEW carry \in Carries, Reset(carry) PROVE Flags'
  <2>1. epoch + 1 \in Nat
    BY DEF Shapes
  <2> QED
    BY <1>4, <2>1 DEF Reset, Flags
<1>5. CASE Wire \/ WriterStep
  BY <1>5, SiteFlags
<1> QED
  BY <1>1, <1>2, <1>3, <1>4, <1>5 DEF Next, WriterStep

(* Every number written to _stock and every row of the ledger has its type,  *)
(* whatever the failures, the releases and the resets are.                  *)
THEOREM StockTypeCorrect == Spec => []TypeOK
<1> DEFINE TInv == WInv /\ Numbers /\ Flags
<1>1. Init => TInv
  <2>1. ASSUME Init PROVE Flags
    <3>1. /\ lost = FALSE /\ fault = FALSE /\ redo = "none" /\ early = {} /\ backlog = {}
          /\ intent = 0 /\ ops = 0 /\ mishaps = 0
      BY <2>1 DEF Init
    <3> QED
      BY <3>1 DEF Flags
  <2> QED
    BY <2>1, InitWInv, InitNumbers
<1>2. TInv /\ [Next]_vars => TInv'
  BY NextWInv, NextNumbers, NextFlags DEF WInv
<1>3. TInv => TypeOK
  BY DEF WInv, Shapes, Numbers, Plain, Flags, TypeOK
<1> HIDE DEF TInv
<1> QED
  BY <1>1, <1>2, <1>3, PTL DEF Spec

-----------------------------------------------------------------------------
(* The snapshots the site has: the one its number is made from, the one being *)
(* written and the one just answered.                                       *)

HeldIn(i, has) ==
  \/ hold[i].q <= has[i]
  \/ item[i].gave /\ item[i].sold <= has[i]

\* Snapshot X has the units of item i if the acknowledgement of its hold is no
\* newer, and if an answer on its way will be an acknowledgement no newer.
FitsItem(X, i) ==
  /\ Acked(i) /\ hold[i].ack <= X.r /\ ~Faulted => HeldIn(i, X.has)
  /\ req[i].st = "answered" /\ req[i].e = epoch /\ req[i].rev <= X.r =>
       X.has[i] = frozen[i]
FitsLog(X) == ~lost => X.r \in 1..Len(log) /\ X.has = log[X.r].has
Fits(X) == X.e = epoch => FitsLog(X) /\ \A i \in Items : FitsItem(X, i)

Snaps == {state, job.s, pull}

\* A Core that is never restored has lost nothing.
Unlost == lost => MaxEpoch > 1

\* A snapshot asked for now.
LEMMA FreshFits ==
  ASSUME AInv, Unlost, Unrestored, NEW r \in 1..Len(log), r >= base
  PROVE  Fits(Snapshot(r, epoch))
<1> DEFINE X == Snapshot(r, epoch)
<1>1. X.r = r /\ X.has = log[r].has /\ X.e = epoch
  BY DEF Snapshot
<1>2. ASSUME NEW i \in Items PROVE FitsItem(X, i)
  <2>1. Told(i) /\ Proven(i) /\ Shapes
    BY DEF AInv, CInv
  <2>4. lost => Releases = {}
    BY StockConstants DEF Unlost, Unrestored
  <2>2. Acked(i) /\ hold[i].ack <= r /\ ~Faulted => HeldIn(i, log[r].has)
    BY <2>1, <2>4, ATypes DEF Proven, Held, HeldIn
  <2>3. ASSUME req[i].st = "answered", req[i].e = epoch, req[i].rev <= r
        PROVE  log[r].has[i] = frozen[i]
    <3>1. req[i] # NoReq /\ ~item[i].gave /\ frozen[i] > 0
      BY <2>1, <2>3 DEF Told, NoReq
    <3>2. req[i].rev \in 1..Len(log) /\ log[req[i].rev].has[i] = frozen[i]
      BY <2>1, <2>3, ATypes DEF Told
    <3> QED
      BY <2>1, <2>3, <3>1, <3>2 DEF Told
  <2> HIDE DEF X
  <2> QED
    BY <1>1, <2>2, <2>3 DEF FitsItem
<1> HIDE DEF X
<1>3. Fits(X)
  BY <1>1, <1>2 DEF Fits, FitsLog
<1> QED
  BY <1>3 DEF X

\* What a step may do to item i without disturbing a snapshot.
LEMMA ItemStillFits ==
  ASSUME Shapes, Shapes', NEW X \in States, NEW i \in Items, FitsItem(X, i),
         epoch' = epoch, frozen'[i] = frozen[i], req'[i] = req[i] \/ req'[i].st # "answered",
         KeptRow(hold[i], hold'[i]), Faulted => Faulted', item[i].gave => item'[i].gave,
         Faulted' \/ (item[i].gave => item'[i].sold <= item[i].sold)
  PROVE  FitsItem(X, i)'
<1>1. /\ hold[i].q \in Nat /\ hold'[i].q \in Nat /\ item[i].sold \in Nat
      /\ item'[i].sold \in Nat /\ X.has[i] \in Nat /\ X.r \in Nat
  BY DEF Shapes, ItemRecords, Holds, States
<1>2. ASSUME Acked(i)', hold'[i].ack <= X.r, ~Faulted'
      PROVE  HeldIn(i, X.has)'
  <2>1. /\ hold'[i].ack = hold[i].ack /\ hold'[i].ep = hold[i].ep /\ hold'[i].q <= hold[i].q
        /\ Acked(i) /\ ~Faulted
    BY <1>2 DEF KeptRow, Acked
  <2>2. HeldIn(i, X.has)
    BY <1>2, <2>1 DEF FitsItem
  <2> QED
    BY <1>1, <1>2, <2>1, <2>2 DEF HeldIn
<1>3. req'[i].st = "answered" /\ req'[i].e = epoch' /\ req'[i].rev <= X.r =>
        X.has[i] = frozen'[i]
  BY DEF FitsItem
<1> QED
  BY <1>2, <1>3 DEF FitsItem

LEMMA StillFits ==
  ASSUME NEW X \in States, Fits(X), epoch' = epoch, FitsLog(X) => FitsLog(X)',
         \A i \in Items : FitsItem(X, i) => FitsItem(X, i)'
  PROVE  Fits(X)'
BY DEF Fits

\* Core's versions, when no item's way to Core changes.
LEMMA LogStillFits ==
  ASSUME Shapes, NEW X \in States, FitsLog(X),
         \/ log' = log /\ lost' = lost
         \/ \E b \in Balances : Versioned(b)
         \/ lost'
  PROVE  FitsLog(X)'
<1>1. CASE log' = log /\ lost' = lost
  BY <1>1 DEF FitsLog
<1>2. ASSUME NEW b \in Balances, Versioned(b) PROVE FitsLog(X)'
  <2>1. Len(log') = Len(log) + 1 /\ (\A r \in 1..Len(log) : log'[r] = log[r]) /\ lost' = lost
    BY <1>2, VersionedShapes DEF Versioned
  <2> QED
    BY <2>1, ATypes DEF FitsLog, Shapes
<1>3. CASE lost'
  BY <1>3 DEF FitsLog
<1> QED
  BY <1>1, <1>2, <1>3

\* A step of the site that leaves items, rows, requests and Core alone.
LEMMA QuietFits ==
  ASSUME AInv, Shapes', NEW X \in States, Fits(X), Faulted => Faulted',
         UNCHANGED <<log, lost, epoch, frozen, item, hold, req>>
  PROVE  Fits(X)'
<1>1. Shapes
  BY DEF AInv, CInv
<1>2. ASSUME NEW i \in Items, FitsItem(X, i) PROVE FitsItem(X, i)'
  <2>1. item[i].sold \in Nat /\ KeptRow(hold[i], hold'[i])
    BY <1>1, ATypes, KeptAsIs
  <2> QED
    BY <1>1, <1>2, <2>1, ItemStillFits
<1>3. FitsLog(X) => FitsLog(X)'
  BY <1>1, LogStillFits
<1> QED
  BY <1>2, <1>3, StillFits

LEMMA OneItemFits ==
  ASSUME AInv, Shapes', NEW X \in States, Fits(X), NEW i \in Items, OneItemStep(i)
  PROVE  Fits(X)'
<1>1. Shapes
  BY DEF AInv, CInv
<1>2. ASSUME NEW j \in Items, FitsItem(X, j) PROVE FitsItem(X, j)'
  <2>1. CASE j = i
    BY <1>1, <1>2, <2>1, ItemStillFits DEF OneItemStep
  <2>2. CASE j # i
    <3>1. item'[j] = item[j] /\ KeptRow(hold[j], hold'[j]) /\ item[j].sold \in Nat
      BY <1>1, <2>2, ATypes, KeptAsIs DEF OneItemStep
    <3> QED
      BY <1>1, <1>2, <3>1, ItemStillFits DEF OneItemStep
  <2> QED
    BY <2>1, <2>2
<1>3. FitsLog(X) => FitsLog(X)'
  BY <1>1, LogStillFits DEF OneItemStep
<1> QED
  BY <1>2, <1>3, StillFits DEF OneItemStep

\* Core at work.
LEMMA CoreFits ==
  ASSUME AInv, Shapes', NEW X \in States, Fits(X),
         \/ \E d \in {-1, 1} : InStore(d)
         \/ StatusFlips \/ Backup \/ Restore
         \/ \E i \in Items : CoreRecords(i) \/ CoreGivesBack(i)
  PROVE  Fits(X)'
<1>1. Shapes /\ Core \in Balances /\ UNCHANGED <<epoch, hold, fault, frozen>>
  BY CoreType DEF AInv, CInv, InStore, StatusFlips, Backup, Restore, CoreRecords, CoreGivesBack
<1>2. FitsLog(X) => FitsLog(X)'
  <2>1. ASSUME NEW d \in {-1, 1}, InStore(d) PROVE \E b \in Balances : Versioned(b)
    <3>1. [Core EXCEPT !.n = @ + d] \in Balances
      BY <1>1 DEF Balances
    <3> QED
      BY <2>1, <3>1 DEF InStore
  <2>2. ASSUME StatusFlips PROVE \E b \in Balances : Versioned(b)
    <3>1. [Core EXCEPT !.a = ~@] \in Balances
      BY <1>1 DEF Balances
    <3> QED
      BY <2>2, <3>1 DEF StatusFlips
  <2>3. ASSUME NEW i \in Items, CoreRecords(i) \/ CoreGivesBack(i)
        PROVE  (\E b \in Balances : Versioned(b)) \/ (log' = log /\ lost' = lost)
    <3>1. req[i].q \in Nat /\ item[i].sold \in Nat
      BY <1>1, ATypes
    <3>2. Recorded(Core, i, req[i].q) \in Balances /\ Recorded(Core, i, item[i].sold) \in Balances
      BY <1>1, <3>1, RecordedType
    <3> QED
      BY <2>3, <3>2 DEF CoreRecords, CoreGivesBack
  <2>4. CASE Backup
    BY <2>4, <1>1, LogStillFits DEF Backup
  <2>5. CASE Restore
    BY <2>5, <1>1, LogStillFits DEF Restore
  <2> QED
    BY <1>1, <2>1, <2>2, <2>3, <2>4, <2>5, LogStillFits
<1>3. ASSUME NEW j \in Items, FitsItem(X, j), X.e = epoch, FitsLog(X) PROVE FitsItem(X, j)'
  <2>1. KeptRow(hold[j], hold'[j]) /\ Faulted' = Faulted /\ item[j].sold \in Nat
    BY <1>1, KeptAsIs, ATypes DEF Faulted
  <2>2. CASE req'[j] = req[j] /\ (item[j].gave => item'[j].gave) /\ item'[j].sold = item[j].sold
    BY <1>1, <1>3, <2>1, <2>2, ItemStillFits
  <2>3. ASSUME NEW i \in Items, CoreGivesBack(i)
        PROVE  /\ req' = req /\ item'[j].sold = item[j].sold
               /\ item[j].gave => item'[j].gave
    BY <1>1, <2>3 DEF CoreGivesBack, Shapes, ItemRecords
  <2>4. ASSUME NEW i \in Items, i # j, CoreRecords(i) PROVE req'[j] = req[j] /\ item' = item
    BY <1>1, <2>4 DEF CoreRecords, Shapes
  <2>5. CASE CoreRecords(j)
    <3>1. /\ item' = item /\ req[j].st = "sent" /\ ~lost /\ Len(log) \in Nat
          /\ req'[j].st = "answered" /\ req'[j].rev = Len(log') /\ Told(j)
      <4>1. req[j].st = "sent" /\ item' = item
            /\ req' = [req EXCEPT ![j] = [@ EXCEPT !.st = "answered", !.rev = Len(log')]]
        BY <2>5 DEF CoreRecords
      <4>2. ~lost
        BY <2>5 DEF CoreRecords, Versioned
      <4>3. req \in [Items -> Requests] /\ req[j] \in Requests /\ Len(log) \in Nat
        BY <1>1, ATypes DEF Shapes
      <4>4. req'[j] = [req[j] EXCEPT !.st = "answered", !.rev = Len(log')]
        BY <4>1, <4>3
      <4>5. req'[j].st = "answered" /\ req'[j].rev = Len(log')
        BY <4>3, <4>4 DEF Requests
      <4>6. Told(j)
        BY <1>1 DEF AInv
      <4> QED
        BY <4>1, <4>2, <4>3, <4>5, <4>6
    <3>2. X.r \in 1..Len(log) /\ X.has = log[X.r].has
      BY <1>3, <3>1 DEF FitsLog
    <3>3. CASE Core.has[j] = 0
      <4>1. Len(log') = Len(log) + 1
        <5>1. req[j].q \in Nat
          BY <1>1, ATypes
        <5>2. Recorded(Core, j, req[j].q) \in Balances
          BY <1>1, <5>1, RecordedType
        <5>3. Versioned(Recorded(Core, j, req[j].q))
          BY <2>5, <3>3 DEF CoreRecords
        <5> QED
          BY <1>1, <5>2, <5>3, VersionedShapes
      <4>2. ~(req'[j].rev <= X.r)
        BY <3>1, <3>2, <4>1
      <4>3. HeldIn(j, X.has)' <=> HeldIn(j, X.has)
        BY <1>1, <3>1 DEF HeldIn
      <4> QED
        BY <1>1, <1>3, <2>1, <3>1, <4>2, <4>3 DEF FitsItem, Acked
    <3>4. CASE Core.has[j] # 0
      <4>1. log' = log
        BY <2>5, <3>4 DEF CoreRecords
      <4>2. Core.has[j] = frozen[j]
        <5>1. ~item[j].gave /\ Len(log) \in 1..Len(log)
          BY <1>1, <3>1, ATypes DEF Told, NoReq
        <5> QED
          BY <3>1, <3>4, <5>1 DEF Told, Core
      <4>3. req'[j].rev <= X.r => X.has[j] = frozen'[j]
        <5>1. req'[j].rev <= X.r => X.r = Len(log)
          BY <3>1, <3>2, <4>1
        <5> QED
          BY <1>1, <3>2, <4>2, <5>1 DEF Core
      <4>4. HeldIn(j, X.has)' <=> HeldIn(j, X.has)
        BY <1>1, <3>1 DEF HeldIn
      <4> QED
        BY <1>1, <1>3, <2>1, <3>1, <4>3, <4>4 DEF FitsItem, Acked
    <3> QED
      BY <3>3, <3>4
  <2>6. CASE item' = item /\ req' = req
    BY <1>1, <2>2, <2>6
  <2> QED
    BY <2>2, <2>3, <2>4, <2>5, <2>6 DEF InStore, StatusFlips, Backup, Restore
<1> QED
  BY <1>1, <1>2, <1>3 DEF Fits

\* The order on its way to Core and back.
LEMMA ExchangeFits ==
  ASSUME AInv, Shapes', NEW X \in States, Fits(X), NEW i \in Items,
         Send(i) \/ RequestLost(i) \/ AckArrives(i) \/ AckRecomputes(i)
  PROVE  Fits(X)'
<1>1. /\ Shapes /\ req \in [Items -> Requests] /\ frozen \in [Items -> Nat]
      /\ hold \in [Items -> Holds]
      /\ UNCHANGED <<log, lost, epoch, item>> /\ (Faulted => Faulted')
      /\ \A j \in Items \ {i} : req'[j] = req[j] /\ frozen'[j] = frozen[j] /\ hold'[j] = hold[j]
  <2>1. Shapes /\ req \in [Items -> Requests] /\ frozen \in [Items -> Nat]
        /\ hold \in [Items -> Holds]
    BY DEF AInv, CInv, Shapes
  <2>2. fault => fault'
    BY RecomputeFault DEF Send, RequestLost, AckArrives, AckRecomputes
  <2> QED
    BY <2>1, <2>2 DEF Send, RequestLost, AckArrives, AckRecomputes, Faulted
<1>2. FitsLog(X) => FitsLog(X)'
  BY <1>1, LogStillFits
<1>3. ASSUME NEW j \in Items, FitsItem(X, j) PROVE FitsItem(X, j)'
  <2>1. item[j].sold \in Nat /\ item[j].sold <= item[j].sold
    BY <1>1, ATypes
  <2>2. CASE j # i
    <3>1. KeptRow(hold[j], hold'[j]) /\ req'[j] = req[j] /\ frozen'[j] = frozen[j]
      BY <1>1, <2>2, KeptAsIs
    <3> QED
      BY <1>1, <1>3, <2>1, <3>1, ItemStillFits
  <2>3. CASE j = i /\ req'[i].st # "answered" /\ hold'[i] = hold[i]
    <3>1. HeldIn(i, X.has)' <=> HeldIn(i, X.has)
      BY <1>1, <2>3 DEF HeldIn
    <3> QED
      BY <1>1, <1>3, <2>3, <3>1 DEF FitsItem, Acked
  <2>4. CASE j = i /\ AckArrives(i) /\ hold'[i] # hold[i]
    <3>1. /\ req[i].st = "answered" /\ req[i].e = epoch /\ fault' = fault
          /\ hold'[i] = Acknowledged(i) /\ req'[i].st = "recompute"
      BY <1>1, <2>4 DEF AckArrives, Requests
    <3>2. hold'[i] = [hold[i] EXCEPT !.ack = req[i].rev, !.ep = epoch] /\ hold[i].q <= req[i].q
      BY <2>4, <3>1 DEF Acknowledged
    <3>3. hold'[i].ack = req[i].rev /\ hold'[i].q = hold[i].q
      BY <1>1, <3>2 DEF Holds
    <3>4. req[i].q = frozen[i]
      BY <3>1 DEF AInv, Told, NoReq
    <3>5. hold'[i].ack <= X.r => HeldIn(i, X.has)'
      <4>1. req[i].rev <= X.r => X.has[i] = frozen[i]
        BY <1>3, <2>4, <3>1 DEF FitsItem
      <4> QED
        BY <3>2, <3>3, <3>4, <4>1 DEF HeldIn
    <3> QED
      BY <2>4, <3>1, <3>5 DEF FitsItem
  <2>5. AckArrives(i) => req'[i].st # "answered"
    <3>1. NoReq.st = "none" /\ [req[i] EXCEPT !.st = "recompute"].st = "recompute"
      BY <1>1 DEF NoReq, Requests
    <3> QED
      BY <1>1, <3>1 DEF AckArrives
  <2>6. Send(i) \/ RequestLost(i) \/ AckRecomputes(i) => req'[i].st # "answered" /\ hold' = hold
    BY <1>1 DEF Send, RequestLost, AckRecomputes, NoReq
  <2> QED
    BY <2>2, <2>3, <2>4, <2>5, <2>6
<1> QED
  BY <1>1, <1>2, <1>3, StillFits

LEMMA NextUnlost ==
  ASSUME Shapes, Unlost, [Next]_vars
  PROVE  Unlost'
<1>1. CASE Restore
  BY <1>1, StockConstants DEF Restore, Shapes, Unlost
<1>2. CASE lost' = lost \/ ~lost'
  BY <1>2 DEF Unlost
<1>3. ASSUME NEW i \in Items,
             \/ Order(i) \/ ItemStep(i) \/ Exchange(i) \/ CoreGivesBack(i)
             \/ MoveFails(i) \/ ItemDies(i) \/ Drain(i)
             \/ \E reason \in Releases : ReleaseHold(i, reason)
      PROVE  lost' = lost
  <2>1. CASE Order(i) \/ ItemStep(i)
    BY <2>1 DEF Order, BeginReduce, BeginRaise, BeginLower, Cancel, ItemStep, Move, WriteMeta,
       Sync, ItemRecomputes
  <2>2. CASE Exchange(i) \/ CoreGivesBack(i)
    BY <2>2 DEF Exchange, Send, RequestLost, AckArrives, AckRecomputes, CoreRecords,
       CoreGivesBack, Versioned
  <2>3. CASE \/ MoveFails(i) \/ ItemDies(i) \/ Drain(i)
             \/ \E reason \in Releases : ReleaseHold(i, reason)
    BY <2>3 DEF MoveFails, ItemDies, Drain, ReleaseHold
  <2> QED
    BY <1>3, <2>1, <2>2, <2>3
<1>4. CASE \/ \E d \in {-1, 1} : InStore(d)
           \/ StatusFlips \/ Backup \/ Wire \/ WriterStep \/ UNCHANGED vars
           \/ \E carry \in Carries : Reset(carry)
  <2>1. lost' = lost \/ ~lost'
    BY <1>4 DEF InStore, StatusFlips, Versioned, Backup, Wire, StartPull, ApplyPull, DropPull,
       Push, WriterStep, Writers, JobReads, JobCommits, Maintain, JobGivesUp, JobDies, FixStep,
       FixReads, FixCommits, FixEnds, FixDies, Reset, vars
  <2> QED
    BY <1>2, <2>1
<1> QED
  BY <1>1, <1>2, <1>3, <1>4 DEF Next, WriterStep

\* A step that changes of the rows only what no snapshot speaks of.
LEMMA SameRowsFit ==
  ASSUME Shapes, NEW X \in States, Fits(X), (Faulted' = Faulted),
         UNCHANGED <<log, lost, epoch, frozen, req, item>>,
         \A i \in Items : /\ hold'[i].ack = hold[i].ack /\ hold'[i].ep = hold[i].ep
                         /\ hold'[i].q = hold[i].q
  PROVE  Fits(X)'
<1>1. ASSUME NEW i \in Items, FitsItem(X, i) PROVE FitsItem(X, i)'
  BY <1>1 DEF FitsItem, Acked, HeldIn
<1>2. FitsLog(X) => FitsLog(X)'
  BY LogStillFits
<1> QED
  BY <1>1, <1>2, StillFits

\* A pull acknowledges a released hold from its own version on, and the
\* snapshots of the site that are not older are versions of Core.
LEMMA WireFits ==
  ASSUME AInv, Unlost, Unrestored, Shapes', NEW X \in States, Fits(X), Wire
  PROVE  Fits(X)'
<1>0. UNCHANGED <<log, lost, epoch, frozen, req, item, fault>>
  BY DEF Wire, StartPull, ApplyPull, DropPull, Push
<1>1. /\ UNCHANGED <<log, lost, epoch, frozen, req, item, fault>> /\ Shapes
      /\ hold \in [Items -> Holds] /\ (Faulted' = Faulted)
  <2>1. Shapes /\ hold \in [Items -> Holds]
    BY DEF AInv, CInv, Shapes
  <2>2. Faulted' = Faulted
    BY <1>0 DEF Faulted
  <2> QED
    BY <1>0, <2>1, <2>2
<1>2. CASE StartPull
  <2>1. ASSUME NEW i \in Items
        PROVE  /\ hold'[i].ack = hold[i].ack /\ hold'[i].ep = hold[i].ep
               /\ hold'[i].q = hold[i].q
    <3>1. hold'[i] = hold[i] \/ hold'[i] = [hold[i] EXCEPT !.rel = "ripe"]
      BY <1>2 DEF StartPull
    <3> QED
      BY <1>1, <3>1 DEF Holds
  <2> QED
    BY <1>1, <2>1, SameRowsFit
<1>3. CASE hold' = hold
  BY <1>1, <1>3, SameRowsFit
<1>4. CASE ApplyPull
  <2>1. hold' = Bound /\ pull # NoState /\ pull.e = epoch
    BY <1>4 DEF ApplyPull
  <2>2. ASSUME NEW i \in Items, X.e = epoch, FitsLog(X), FitsItem(X, i) PROVE FitsItem(X, i)'
    <3>1. CASE i \notin Bindable
      <4>1. hold'[i] = hold[i]
        BY <2>1, <3>1 DEF Bound
      <4> QED
        BY <1>1, <2>2, <4>1 DEF FitsItem, Acked, HeldIn
    <3>2. CASE i \in Bindable
      <4>1. /\ hold[i].rel = "ripe" /\ hold[i].relEp = epoch
            /\ hold'[i] = [hold[i] EXCEPT !.st = "confirmed", !.ack = pull.r, !.ep = epoch,
                                         !.rel = "no", !.relEp = 0]
        BY <2>1, <3>2 DEF Bound, Bindable
      <4>2. hold'[i].ack = pull.r /\ hold'[i].q = hold[i].q
        BY <1>1, <4>1 DEF Holds
      <4>3. ASSUME ~Faulted, pull.r <= X.r PROVE HeldIn(i, X.has)
        <5>1. Releases # {}
          BY <4>1, <4>3 DEF AInv, CInv, Covers
        <5>2. ~lost
          BY <5>1, StockConstants DEF Unlost, Unrestored
        <5>3. X.r \in 1..Len(log) /\ X.has = log[X.r].has
          BY <2>2, <5>2 DEF FitsLog
        <5>4. \A r \in 1..Len(log) : r >= pull.r => Held(i, r)
          BY <2>1, <4>1, <4>3, <5>2 DEF AInv, Freed
        <5>5. pull.r \in Nat
          BY <1>1 DEF Shapes, States
        <5>6. Held(i, X.r)
          BY <4>3, <5>3, <5>4, <5>5
        <5> QED
          BY <5>3, <5>6 DEF Held, HeldIn
      <4> QED
        BY <1>1, <2>2, <4>2, <4>3 DEF FitsItem, Acked, HeldIn
    <3> QED
      BY <3>1, <3>2
  <2>3. FitsLog(X) => FitsLog(X)'
    BY <1>1, LogStillFits
  <2> QED
    BY <1>1, <2>2, <2>3 DEF Fits
<1> QED
  BY <1>2, <1>3, <1>4 DEF Wire, DropPull, Push

\* A snapshot that fits still does after a step.
LEMMA NextFits ==
  ASSUME AInv, Unlost, Steady, Unrestored, [Next]_vars, NEW X \in States, X.e <= epoch, Fits(X)
  PROVE  Fits(X)'
<1>1. Shapes'
  BY NextShapes DEF AInv, CInv
<1>2. ASSUME NEW i \in Items,
             \/ Order(i) \/ ItemStep(i) \/ Exchange(i) \/ CoreGivesBack(i)
             \/ MoveFails(i) \/ ItemDies(i) \/ Drain(i)
      PROVE  Fits(X)'
  BY <1>1, <1>2, OrderIsOne, ItemIsOne, OneItemFits, ExchangeFits, CoreFits DEF Exchange
<1>6. ASSUME NEW i \in Items, NEW reason \in Releases, ReleaseHold(i, reason)
      PROVE  Fits(X)'
  <2>1. /\ UNCHANGED <<log, lost, epoch, frozen, req, item, fault>> /\ Shapes
        /\ hold \in [Items -> Holds]
        /\ hold' = [hold EXCEPT ![i] = [@ EXCEPT !.rel = "asked", !.relEp = epoch]]
    BY <1>6 DEF AInv, CInv, Shapes, ReleaseHold
  <2>2. ASSUME NEW j \in Items
        PROVE  /\ hold'[j].ack = hold[j].ack /\ hold'[j].ep = hold[j].ep
               /\ hold'[j].q = hold[j].q
    BY <2>1 DEF Holds
  <2> QED
    BY <2>1, <2>2, SameRowsFit DEF Faulted
<1>3. CASE \/ \E d \in {-1, 1} : InStore(d)
           \/ StatusFlips \/ Backup \/ Restore \/ Wire
  BY <1>1, <1>3, CoreFits, WireFits
<1>4. ASSUME NEW carry \in Carries, Reset(carry) PROVE Fits(X)'
  <2>1. epoch' = epoch + 1 /\ epoch \in Nat /\ X.e \in Nat
    BY <1>4 DEF Reset, AInv, CInv, Shapes, States
  <2> QED
    BY <2>1 DEF Fits
<1>5. CASE WriterStep \/ UNCHANGED vars
  <2>1. UNCHANGED <<log, lost, epoch, frozen, item, hold, req, fault>>
    BY <1>5 DEF WriterStep, Writers, JobReads, JobCommits, Maintain, JobGivesUp, JobDies,
       FixStep, FixReads, FixCommits, FixEnds, FixDies, vars
  <2> QED
    BY <1>1, <2>1, QuietFits DEF Faulted
<1> QED
  BY <1>2, <1>3, <1>4, <1>5, <1>6 DEF Next, WriterStep

\* What the site's snapshots are after a step: those it had, or a fresh one.
Snapped == \A X \in Snaps : Fits(X)
Fitting(X) == X \in States /\ X.e <= epoch /\ Fits(X)

LEMMA NoneFits == ASSUME AInv PROVE Fitting(NoState)
BY NoneTypes DEF Fits, Fitting, Plain, AInv, CInv, Shapes

LEMMA TakenFits ==
  ASSUME NEW by, NEW s, NEW pub, TakeLock(by, s, pub), Fitting(s)
  PROVE  Fitting(job'.s)
<1>1. job'.s = s
  BY DEF TakeLock, NoJob
<1> QED
  BY <1>1

LEMMA OwnFit ==
  ASSUME AInv, Numbers, Snapped
  PROVE  Fitting(state) /\ Fitting(job.s) /\ Fitting(pull)
<1>1. Fits(state) /\ Fits(job.s) /\ Fits(pull)
  BY DEF Snapped, Snaps
<1>2. /\ state \in States /\ state.e <= epoch /\ job.s \in States /\ job.s.e <= epoch
      /\ pull \in States /\ pull.e <= epoch
  BY DEF AInv, WInv, Numbers, Plain
<1> QED
  BY <1>1, <1>2 DEF Fitting

LEMMA RecomputeSnaps ==
  ASSUME AInv, Numbers, Snapped, Recompute
  PROVE  Fitting(job'.s)
<1>1. Fitting(state) /\ Fitting(job.s)
  BY OwnFit
<1> QED
  BY <1>1, TakenFits DEF Recompute

LEMMA NextSnaps ==
  ASSUME AInv, Unlost, Unrestored, Numbers, Snapped, [Next]_vars
  PROVE  Fitting(state') /\ Fitting(job'.s) /\ Fitting(pull')
<1>0. /\ Fitting(state) /\ Fitting(job.s) /\ Fitting(pull) /\ Fitting(NoState)
      /\ NoJob.s = NoState /\ epoch \in Nat /\ Len(log) \in 1..Len(log) /\ Shapes
  BY OwnFit, NoneFits, NoneTypes, ATypes DEF AInv, CInv, Shapes
<1>f. ASSUME NEW r \in 1..Len(log), r >= base PROVE Fitting(Snapshot(r, epoch))
  <2>1. Fits(Snapshot(r, epoch))
    BY <1>f, FreshFits
  <2>2. Snapshot(r, epoch) \in States /\ Snapshot(r, epoch).e = epoch
    BY <1>0, SnapshotType
  <2> QED
    BY <1>0, <2>1, <2>2 DEF Fitting
<1>1. ASSUME NEW i \in Items,
             \/ Order(i) \/ ItemStep(i) \/ Exchange(i) \/ CoreGivesBack(i)
             \/ MoveFails(i) \/ ItemDies(i) \/ Drain(i)
             \/ \E reason \in Releases : ReleaseHold(i, reason)
      PROVE  Fitting(state') /\ Fitting(job'.s) /\ Fitting(pull')
  <2>1. CASE ItemRecomputes(i) \/ AckRecomputes(i)
    <3>1. Recompute /\ UNCHANGED <<state, pull>>
      BY <2>1 DEF ItemRecomputes, AckRecomputes
    <3> QED
      BY <1>0, <3>1, RecomputeSnaps
  <2>2. CASE UNCHANGED <<state, job, pull>>
    BY <1>0, <2>2
  <2>3. CASE Order(i)
    BY <2>2, <2>3 DEF Order, BeginReduce, BeginRaise, BeginLower, Cancel
  <2>4. CASE \/ Move(i) \/ WriteMeta(i) \/ Sync(i) \/ MoveFails(i) \/ ItemDies(i) \/ Drain(i)
             \/ CoreGivesBack(i) \/ \E reason \in Releases : ReleaseHold(i, reason)
    BY <2>2, <2>4 DEF Move, WriteMeta, Sync, MoveFails, ItemDies, Drain, CoreGivesBack,
       ReleaseHold
  <2>5. CASE Send(i) \/ RequestLost(i) \/ AckArrives(i) \/ CoreRecords(i)
    BY <2>2, <2>5 DEF Send, RequestLost, AckArrives, CoreRecords
  <2> QED
    BY <1>1, <2>1, <2>3, <2>4, <2>5 DEF ItemStep, Exchange
<1>2. CASE \/ \E d \in {-1, 1} : InStore(d)
           \/ StatusFlips \/ Backup \/ Restore \/ UNCHANGED vars
           \/ \E carry \in Carries : Reset(carry)
           \/ FixStep \/ FixDies \/ JobReads \/ JobCommits
  <2>1. UNCHANGED pull /\ (job'.s = job.s \/ job' = NoJob) /\ (state' = state \/ state' = job.s)
    <3>1. JobReads => job'.s = job.s
      BY DEF JobReads, AInv, WInv, JobShape
    <3>2. JobCommits => pull' = pull /\ job' = NoJob /\ (state' = state \/ state' = job.s)
      BY DEF JobCommits, Published
    <3> QED
      BY <1>2, <3>1, <3>2 DEF InStore, StatusFlips, Backup, Restore, Reset, FixStep, FixReads,
         FixCommits, FixEnds, FixDies, vars, JobReads
  <2> QED
    BY <1>0, <2>1
<1>3. CASE Maintain \/ JobGivesUp \/ JobDies
  <2>1. UNCHANGED <<state, pull>>
    BY <1>3 DEF Maintain, JobGivesUp, JobDies
  <2>2. job' = NoJob \/ job' = job \/ TakeLock("maintain", state, FALSE)
    BY <1>3 DEF Maintain, JobGivesUp, JobDies
  <2> QED
    BY <1>0, <2>1, <2>2, TakenFits
<1>4. CASE StartPull
  <2>1. base <= Len(log)
    BY DEF AInv, WInv
  <2>2. UNCHANGED <<state, job>> /\ pull' = Snapshot(Len(log), epoch)
    BY <1>4 DEF StartPull
  <2>3. base \in Nat /\ Len(log) >= base
    BY <2>1 DEF AInv, WInv
  <2> QED
    BY <1>0, <1>f, <2>2, <2>3
<1>5. CASE ApplyPull \/ DropPull
  <2>1. state' = state /\ pull' = NoState
    BY <1>5 DEF ApplyPull, DropPull
  <2>2. job' = job \/ TakeLock("pull", pull, TRUE) \/ TakeLock("pull", state, FALSE)
    BY <1>5 DEF ApplyPull, DropPull
  <2> QED
    BY <1>0, <2>1, <2>2, TakenFits
<1>6. ASSUME NEW r \in 1..Len(log), Push(r)
      PROVE  Fitting(state') /\ Fitting(job'.s) /\ Fitting(pull')
  <2>1. UNCHANGED <<state, pull>>
    BY <1>6 DEF Push
  <2>2. CASE job' = job
    BY <1>0, <2>1, <2>2
  <2>3. CASE Known /\ ~Stale(Snapshot(r, epoch)) /\ TakeLock("push", Snapshot(r, epoch), TRUE)
    <3>1. Snapshot(r, epoch).r = r
      BY <1>0, SnapshotType
    <3>2. r >= base
      BY <2>3, <3>1 DEF Stale, Known, AInv, WInv, States
    <3>3. Fitting(Snapshot(r, epoch))
      BY <1>f, <3>2
    <3> QED
      BY <1>0, <2>1, <2>3, <3>3, TakenFits
  <2> QED
    BY <1>6, <2>2, <2>3 DEF Push
<1> QED
  BY <1>1, <1>2, <1>3, <1>4, <1>5, <1>6 DEF Next, Wire, Writers

LEMMA NextSnapped ==
  ASSUME AInv, Unlost, Numbers, Snapped, Steady, Unrestored, [Next]_vars
  PROVE  Snapped'
<1>1. Fitting(state') /\ Fitting(job'.s) /\ Fitting(pull')
  BY NextSnaps
<1>2. ASSUME NEW X, Fitting(X) PROVE Fits(X)'
  BY <1>2, NextFits DEF Fitting
<1>3. ASSUME NEW X \in Snaps' PROVE Fits(X)'
  <2>1. Fitting(X)
    BY <1>1, <1>3 DEF Snaps
  <2> QED
    BY <1>2, <2>1
<1> QED
  BY <1>3 DEF Snapped

-----------------------------------------------------------------------------
(* Who may write the number.                                                *)

Locks ==
  /\ job # NoJob /\ ~job.pub => job.s = state
  /\ fix.st = "read" => ~Known
  /\ ~(job.st = "read" /\ fix.st = "read")

LEMMA NextLocks ==
  ASSUME WInv, Numbers, Locks, [Next]_vars
  PROVE  Locks'
<1>0. /\ NoJob.st = "none" /\ NoFix.st = "none" /\ epoch \in Nat /\ state.e \in Nat
      /\ state.e <= epoch
  BY NoneTypes DEF WInv, Shapes, Numbers, Plain, States
<1>t. ASSUME UNCHANGED <<state, epoch, fix>>, NEW by \in {"recompute", "maintain", "pull", "push"},
             NEW s \in States, NEW pub \in BOOLEAN, TakeLock(by, s, pub), ~pub => s = state
      PROVE  Locks'
  <2>1. job'.s = s /\ job'.pub = pub /\ job'.st = "held"
    BY <1>t, TakenNumbers
  <2> QED
    BY <1>t, <2>1 DEF Locks, Known
<1>q. CASE UNCHANGED <<state, epoch, fix, job>>
  BY <1>q DEF Locks, Known
<1>s. state \in States /\ pull \in States
  BY DEF Numbers, Plain
<1>r. ASSUME Recompute, UNCHANGED <<state, epoch, fix>> PROVE Locks'
  <2>1. job' = job \/ TakeLock("recompute", state, FALSE)
    BY <1>r DEF Recompute
  <2> QED
    BY <1>q, <1>r, <1>s, <1>t, <2>1
<1>1. ASSUME NEW i \in Items,
             \/ Order(i) \/ ItemStep(i) \/ Exchange(i) \/ CoreGivesBack(i)
             \/ MoveFails(i) \/ ItemDies(i) \/ Drain(i)
             \/ \E reason \in Releases : ReleaseHold(i, reason)
      PROVE  Locks'
  <2>1. CASE ItemRecomputes(i) \/ AckRecomputes(i)
    BY <1>r, <2>1 DEF ItemRecomputes, AckRecomputes
  <2>2. CASE Order(i)
    BY <1>q, <2>2 DEF Order, BeginReduce, BeginRaise, BeginLower, Cancel
  <2>3. CASE \/ Move(i) \/ WriteMeta(i) \/ Sync(i) \/ MoveFails(i) \/ ItemDies(i) \/ Drain(i)
             \/ CoreGivesBack(i) \/ \E reason \in Releases : ReleaseHold(i, reason)
    BY <1>q, <2>3 DEF Move, WriteMeta, Sync, MoveFails, ItemDies, Drain, CoreGivesBack,
       ReleaseHold
  <2>4. CASE Send(i) \/ RequestLost(i) \/ AckArrives(i) \/ CoreRecords(i)
    BY <1>q, <2>4 DEF Send, RequestLost, AckArrives, CoreRecords
  <2> QED
    BY <1>1, <2>1, <2>2, <2>3, <2>4 DEF ItemStep, Exchange
<1>2. CASE \/ \E d \in {-1, 1} : InStore(d)
           \/ StatusFlips \/ Backup \/ Restore \/ UNCHANGED vars \/ StartPull
  BY <1>2, <1>q DEF InStore, StatusFlips, Backup, Restore, StartPull, vars
<1>3. CASE ApplyPull \/ DropPull \/ Maintain
  <2>1. UNCHANGED <<state, epoch, fix>>
    BY <1>3 DEF ApplyPull, DropPull, Maintain
  <2>2. \/ job' = job \/ TakeLock("pull", pull, TRUE) \/ TakeLock("pull", state, FALSE)
        \/ TakeLock("maintain", state, FALSE)
    BY <1>3 DEF ApplyPull, DropPull, Maintain
  <2> QED
    BY <1>q, <1>s, <1>t, <2>1, <2>2
<1>4. ASSUME NEW r \in 1..Len(log), Push(r) PROVE Locks'
  <2>1. UNCHANGED <<state, epoch, fix>>
    BY <1>4 DEF Push
  <2>2. job' = job \/ TakeLock("push", Snapshot(r, epoch), TRUE)
    BY <1>4 DEF Push
  <2>3. Snapshot(r, epoch) \in States
    BY SnapshotType DEF WInv, Shapes
  <2> QED
    BY <1>q, <1>t, <2>1, <2>2, <2>3
<1>5. CASE JobReads
  <2>1. job'.st = "read" /\ job'.s = job.s /\ job'.pub = job.pub /\ job # NoJob /\ fix.st # "read"
    BY <1>0, <1>5 DEF JobReads, RowLocked, WInv, JobShape
  <2>2. UNCHANGED <<state, epoch, fix>>
    BY <1>5 DEF JobReads
  <2> QED
    BY <2>1, <2>2 DEF Locks, Known
<1>6. CASE JobCommits \/ JobGivesUp \/ JobDies
  <2>1. job' = NoJob /\ fix' = fix /\ epoch' = epoch
        /\ (state' = state \/ job.st = "read")
    BY <1>6 DEF JobCommits, JobGivesUp, JobDies
  <2> QED
    BY <1>0, <2>1 DEF Locks, Known
<1>7. CASE FixStep \/ FixDies
  <2>1. UNCHANGED <<state, epoch, job>>
    BY <1>7 DEF FixStep, FixReads, FixCommits, FixEnds, FixDies
  <2>2. CASE FixReads
    <3>1. fix'.st = "read" => ~Known
      BY <1>0, <2>2 DEF FixReads, NoFix
    <3>2. job.st # "read"
      BY <2>2 DEF FixReads, RowLocked
    <3> QED
      BY <2>1, <3>1, <3>2 DEF Locks, Known
  <2>3. CASE FixCommits
    <3>1. fix'.st = "done"
      BY <2>3 DEF FixCommits, Numbers, Fixes
    <3> QED
      BY <2>1, <3>1 DEF Locks, Known
  <2>4. CASE FixEnds \/ FixDies
    BY <1>0, <2>1, <2>4 DEF FixEnds, FixDies, Locks, Known
  <2> QED
    BY <1>7, <2>2, <2>3, <2>4 DEF FixStep
<1>8. ASSUME NEW carry \in Carries, Reset(carry) PROVE Locks'
  <2>1. UNCHANGED <<state, job, fix>> /\ epoch' = epoch + 1
    BY <1>8 DEF Reset
  <2> QED
    BY <1>0, <2>1 DEF Locks, Known
<1> QED
  BY <1>1, <1>2, <1>3, <1>4, <1>5, <1>6, <1>7, <1>8 DEF Next, Wire, Writers

-----------------------------------------------------------------------------
(* The number against the units.                                            *)

Sold == SumOver([i \in Items |-> item[i].sold])
Units(X) == SumOver(X.has)

LEMMA SoldType == ASSUME Shapes PROVE Sold \in Nat
<1> DEFINE F == [i \in Items |-> item[i].sold]
<1>1. \A i \in Items : F[i] \in Nat
  BY ATypes
<1> HIDE DEF F
<1>2. SumFunctionOnSet(F, Items) \in Nat
  BY <1>1, StockConstants, SumNat
<1> QED
  BY <1>2 DEF Sold, SumOver, F

LEMMA UnitsType == ASSUME NEW X \in States PROVE Units(X) \in Nat
<1>1. \A i \in Items : X.has[i] \in Nat
  BY DEF States
<1>2. SumFunctionOnSet(X.has, Items) \in Nat
  BY <1>1, StockConstants, SumNat
<1> QED
  BY <1>2 DEF Units, SumOver

LEMMA SoldFalls ==
  ASSUME Shapes, Shapes', \A i \in Items : item'[i].sold <= item[i].sold
  PROVE  Sold' <= Sold /\ Sold \in Nat /\ Sold' \in Nat
<1> DEFINE F == [i \in Items |-> item[i].sold]
           H == [i \in Items |-> item'[i].sold]
<1>1. \A i \in Items : item[i].sold \in Nat /\ item'[i].sold \in Nat
  BY DEF Shapes, ItemRecords
<1>2. \A i \in Items : F[i] \in Nat /\ H[i] \in Nat /\ H[i] <= F[i]
  BY <1>1
<1>3. Sold = SumFunctionOnSet(F, Items) /\ Sold' = SumFunctionOnSet(H, Items)
  BY DEF Sold, SumOver
<1> HIDE DEF F, H
<1>4. SumFunctionOnSet(H, Items) <= SumFunctionOnSet(F, Items)
  BY <1>2, StockConstants, SumMonotone
<1>5. SumFunctionOnSet(H, Items) \in Nat /\ SumFunctionOnSet(F, Items) \in Nat
  BY <1>2, StockConstants, SumNat
<1> QED
  BY <1>3, <1>4, <1>5

LEMMA SoldMoves ==
  ASSUME Shapes, Shapes', NEW i \in Items,
         \A j \in Items \ {i} : item'[j].sold = item[j].sold
  PROVE  Sold' = Sold - item[i].sold + item'[i].sold
<1> DEFINE F == [j \in Items |-> item[j].sold]
           H == [j \in Items |-> item'[j].sold]
<1>1. \A j \in Items : item[j].sold \in Nat /\ item'[j].sold \in Nat
  BY DEF Shapes, ItemRecords
<1>2. /\ \A j \in Items : F[j] \in Int /\ H[j] \in Int
      /\ \A j \in Items \ {i} : F[j] = H[j]
  BY <1>1
<1>3. Sold = SumFunctionOnSet(F, Items) /\ Sold' = SumFunctionOnSet(H, Items)
  BY DEF Sold, SumOver
<1>4. F[i] = item[i].sold /\ H[i] = item'[i].sold
  OBVIOUS
<1> HIDE DEF F, H
<1>5. SumFunctionOnSet(H, Items) = SumFunctionOnSet(F, Items) - F[i] + H[i]
  BY <1>2, StockConstants, SumChange
<1> QED
  BY <1>3, <1>4, <1>5

\* The units of an item are in the snapshot or still subtracted from it.
LEMMA CountedOrHeld ==
  ASSUME AInv, NEW X, Fitting(X), X.e = epoch, ~fault, NEW i \in Items
  PROVE  item[i].sold <= (IF Counted(hold[i], epoch, X.r) THEN hold[i].q ELSE 0) + X.has[i]
<1>1. /\ item[i].sold \in Nat /\ hold[i].q \in Nat /\ X.has[i] \in Nat
      /\ item[i].sold <= hold[i].q /\ (hold[i].st = "none" => hold[i].q = 0)
  BY ATypes DEF AInv, CInv, Covers, Faulted, Fitting, States
<1>2. CASE Counted(hold[i], epoch, X.r)
  BY <1>1, <1>2
<1>3. CASE hold[i].st = "none"
  BY <1>1, <1>3
<1>4. CASE Acked(i) /\ hold[i].ack <= X.r
  <2>1. HeldIn(i, X.has)
    BY <1>4 DEF Fitting, Fits, FitsItem, Faulted
  <2> QED
    BY <1>1, <2>1 DEF HeldIn
<1> QED
  BY <1>2, <1>3, <1>4 DEF Counted, Acked

\* The sum of it: the units the orders took are in the snapshot or subtracted.
LEMMA SoldIsCovered ==
  ASSUME AInv, NEW X, Fitting(X), X.e = epoch, ~fault
  PROVE  Sold <= Pending(epoch, X.r) + Units(X)
<1> DEFINE F == [i \in Items |-> item[i].sold]
           Q == [i \in Items |-> hold[i].q]
           S == {i \in Items : Counted(hold[i], epoch, X.r)}
           P == [i \in Items |-> IF Counted(hold[i], epoch, X.r) THEN hold[i].q ELSE 0]
           G == [i \in Items |-> P[i] + X.has[i]]
<1>1. \A i \in Items : item[i].sold \in Nat /\ hold[i].q \in Nat /\ X.has[i] \in Nat
  BY ATypes DEF AInv, CInv, Fitting, States
<1>2. \A i \in Items : F[i] <= G[i]
  BY CountedOrHeld
<1>3. \A i \in Items : /\ F[i] \in Int /\ G[i] \in Int /\ P[i] \in Int /\ X.has[i] \in Int
                       /\ G[i] = P[i] + X.has[i]
  BY <1>1
<1>4. /\ \A i \in S : P[i] = Q[i]
      /\ \A i \in Items \ S : P[i] = 0
      /\ S \in SUBSET Items /\ IsFiniteSet(Items)
  BY StockConstants
<1>5. Sold = SumFunctionOnSet(F, Items) /\ Pending(epoch, X.r) = SumFunctionOnSet(Q, S)
  BY DEF Sold, SumOver, Pending
<1> HIDE DEF F, Q, S, P, G
<1>6. SumFunctionOnSet(F, Items) <= SumFunctionOnSet(G, Items)
  BY <1>2, <1>3, <1>4, SumMonotone
<1>7. SumFunctionOnSet(G, Items) = SumFunctionOnSet(P, Items) + SumFunctionOnSet(X.has, Items)
  BY <1>3, <1>4, SumPlus
<1>8. SumFunctionOnSet(P, Items) = SumFunctionOnSet(P, S)
  BY <1>3, <1>4, SumOfRest
<1>9. SumFunctionOnSet(P, S) = SumFunctionOnSet(Q, S)
  <2>1. IsFiniteSet(S)
    BY <1>4, FS_Subset
  <2> QED
    BY <1>4, <2>1, SumSame
<1> QED
  BY <1>5, <1>6, <1>7, <1>8, <1>9 DEF Units, SumOver

Bounds ==
  /\ job.st = "read" /\ ~fault => job.n - job.cl + Sold <= job.s.c + Units(job.s)
  /\ Known /\ ~fault => stock + Sold <= state.c + Units(state) + excess

LEMMA NumberTypes ==
  ASSUME Numbers
  PROVE  /\ stock \in Int /\ excess \in Nat /\ job.n \in Nat /\ job.cl \in Nat
         /\ state \in States /\ job.s \in States /\ state.c \in Nat /\ job.s.c \in Nat
         /\ Units(state) \in Nat /\ Units(job.s) \in Nat
<1>1. state \in States /\ job.s \in States /\ job \in Jobs
  BY DEF Numbers, Plain
<1> QED
  BY <1>1, UnitsType DEF Numbers, Jobs, States

\* A step that writes no number and takes no units.
LEMMA QuietBounds ==
  ASSUME Shapes, Shapes', Numbers, Bounds, UNCHANGED <<stock, excess, state, epoch>>,
         job' = job \/ job'.st # "read", fault => fault',
         \A i \in Items : item'[i].sold <= item[i].sold
  PROVE  Bounds'
<1>1. Sold' <= Sold /\ Sold \in Nat /\ Sold' \in Nat
  BY SoldFalls
<1>2. Units(state)' = Units(state)
  BY DEF Units
<1>3. job' = job => Units(job.s)' = Units(job.s)
  BY DEF Units
<1> QED
  BY <1>1, <1>2, <1>3, NumberTypes DEF Bounds, Known

LEMMA SameSold ==
  ASSUME Shapes, \A i \in Items : item'[i].sold = item[i].sold
  PROVE  \A i \in Items : item'[i].sold <= item[i].sold
<1>1. \A i \in Items : item[i].sold \in Nat
  BY ATypes
<1> QED
  BY <1>1

LEMMA MoveBounds ==
  ASSUME Shapes, Shapes', Numbers, Bounds, NEW i \in Items, Move(i)
  PROVE  Bounds'
<1>1. /\ item[i].sold \in Nat /\ item[i].meta \in Nat /\ item[i].to \in Nat
      /\ item[i] \in ItemRecords /\ item \in [Items -> ItemRecords]
  BY ATypes DEF Shapes
<1>2. /\ item'[i].sold = item[i].to /\ \A j \in Items \ {i} : item'[j].sold = item[j].sold
      /\ UNCHANGED <<state, epoch, job, fault>> /\ job.st # "read"
      /\ stock' = stock - (item[i].to - item[i].meta)
      /\ excess' = excess + Pos(item[i].meta - item[i].sold)
  BY <1>1 DEF Move, ItemRecords, RowLocked
<1>3. Sold' = Sold - item[i].sold + item[i].to /\ Sold \in Nat
  BY <1>2, SoldMoves, SoldType
<1>4. Units(state)' = Units(state)
  BY <1>2 DEF Units
<1>5. Pos(item[i].meta - item[i].sold) \in Nat
      /\ item[i].meta - item[i].sold <= Pos(item[i].meta - item[i].sold)
  BY <1>1 DEF Pos
<1>6. ASSUME Known, ~fault
      PROVE  stock' + Sold' <= state.c + Units(state) + excess'
  <2>1. stock + Sold <= state.c + Units(state) + excess
    BY <1>6 DEF Bounds
  <2> QED
    BY <1>1, <1>2, <1>3, <1>5, <2>1, NumberTypes
<1> QED
  BY <1>2, <1>4, <1>6 DEF Bounds, Known

LEMMA ItemBounds ==
  ASSUME AInv, Shapes', Numbers, Bounds, NEW i \in Items,
         \/ Order(i) \/ ItemStep(i) \/ Exchange(i) \/ CoreGivesBack(i)
         \/ MoveFails(i) \/ ItemDies(i) \/ Drain(i)
         \/ \E reason \in Releases : ReleaseHold(i, reason)
  PROVE  Bounds'
<1>1. Shapes /\ item[i] \in ItemRecords /\ item \in [Items -> ItemRecords]
  BY ATypes DEF AInv, CInv, Shapes
<1>2. Attested(i) <= item[i].sold
  BY <1>1, AttestedLeast
<1>3. CASE Move(i)
  BY <1>1, <1>3, MoveBounds
<1>4. ASSUME Recompute PROVE (job' = job \/ job'.st # "read") /\ (fault => fault')
  <2>1. state \in States
    BY NumberTypes
  <2>2. TakeLock("recompute", state, FALSE) => job'.st = "held"
    BY <2>1, TakenNumbers
  <2> QED
    BY <1>4, <2>2, RecomputeFault DEF Recompute
<1>5. CASE ItemRecomputes(i) \/ AckRecomputes(i)
  <2>1. Recompute /\ UNCHANGED <<stock, excess, state, epoch>>
    BY <1>5 DEF ItemRecomputes, AckRecomputes
  <2>2. \A j \in Items : item'[j].sold = item[j].sold
    BY <1>1, <1>5 DEF ItemRecomputes, AckRecomputes, ItemRecords
  <2> QED
    BY <1>1, <1>4, <2>1, <2>2, SameSold, QuietBounds
<1>6. ASSUME UNCHANGED <<stock, excess, state, epoch, job>>, fault => fault',
             \A j \in Items : item'[j].sold = item[j].sold
      PROVE  Bounds'
  BY <1>1, <1>6, SameSold, QuietBounds
<1>7. CASE Order(i)
  <2>1. UNCHANGED <<stock, excess, state, epoch, job>> /\ (fault => fault')
    BY <1>7 DEF Order, BeginReduce, BeginRaise, BeginLower, Cancel, Intends
  <2>2. \A j \in Items : item'[j].sold = item[j].sold \/ (j = i /\ item'[j].sold = Attested(i))
    <3>1. ASSUME NEW t \in Nat, NEW op, item' = Works(i, op, "move", t)
          PROVE  \A j \in Items : item'[j].sold = item[j].sold
      BY <1>1, <3>1 DEF Works, ItemRecords
    <3>2. \A t \in 1..MaxQty : t \in Nat
      BY StockConstants
    <3>3. CASE Cancel(i)
      BY <1>1, <3>3 DEF Cancel, ItemRecords
    <3>4. ASSUME NEW t \in 1..MaxQty, BeginReduce(i, t) \/ BeginRaise(i, t) \/ BeginLower(i, t)
          PROVE  \A j \in Items : item'[j].sold = item[j].sold
      BY <3>1, <3>2, <3>4 DEF BeginReduce, BeginRaise, BeginLower
    <3> QED
      BY <1>7, <3>3, <3>4 DEF Order
  <2>3. ASSUME NEW j \in Items PROVE item'[j].sold <= item[j].sold
    <3>1. item[j].sold \in Nat
      BY <1>1, ATypes
    <3>2. CASE item'[j].sold = item[j].sold
      BY <3>1, <3>2
    <3>3. CASE j = i /\ item'[j].sold = Attested(i)
      BY <1>2, <3>3
    <3> QED
      BY <2>2, <3>2, <3>3
  <2> QED
    BY <1>1, <2>1, <2>3, QuietBounds
<1>8. CASE WriteMeta(i) \/ Sync(i) \/ ItemDies(i) \/ Drain(i) \/ CoreGivesBack(i)
  <2>1. \A j \in Items : item'[j].sold = item[j].sold
    <3>1. CASE WriteMeta(i)
      BY <1>1, <3>1 DEF WriteMeta, ItemRecords
    <3>2. CASE Sync(i)
      <4>1. PICK pc, f :
              item' = [item EXCEPT ![i] = [item[i] EXCEPT !.op = "none", !.pc = pc, !.flag = f]]
        BY <3>2 DEF Sync
      <4> QED
        BY <1>1, <4>1 DEF ItemRecords
    <3>3. CASE ItemDies(i)
      BY <1>1, <3>3 DEF ItemDies, Rests, ItemRecords
    <3>4. CASE Drain(i)
      BY <3>4 DEF Drain
    <3>5. CASE CoreGivesBack(i)
      BY <1>1, <3>5 DEF CoreGivesBack, ItemRecords
    <3> QED
      BY <1>8, <3>1, <3>2, <3>3, <3>4, <3>5
  <2>2. UNCHANGED <<stock, excess, state, epoch, job>>
    BY <1>8 DEF WriteMeta, Sync, ItemDies, Drain, CoreGivesBack
  <2>3. fault' = fault \/ fault' = TRUE
    BY <1>8 DEF WriteMeta, Sync, ItemDies, Drain, CoreGivesBack
  <2> QED
    BY <1>6, <2>1, <2>2, <2>3
<1>9. CASE MoveFails(i)
  <2>1. \A j \in Items : item'[j].sold = item[j].sold \/ (j = i /\ item'[j].sold = Attested(i))
    BY <1>1, <1>9 DEF MoveFails, Rests, ItemRecords
  <2>2. ASSUME NEW j \in Items PROVE item'[j].sold <= item[j].sold
    <3>1. item[j].sold \in Nat
      BY <1>1, ATypes
    <3>2. CASE item'[j].sold = item[j].sold
      BY <3>1, <3>2
    <3>3. CASE j = i /\ item'[j].sold = Attested(i)
      BY <1>2, <3>3
    <3> QED
      BY <2>1, <3>2, <3>3
  <2>3. UNCHANGED <<stock, excess, state, epoch, job, fault>>
    BY <1>9 DEF MoveFails
  <2> QED
    BY <1>1, <2>2, <2>3, QuietBounds
<1>10. CASE \/ Send(i) \/ RequestLost(i) \/ AckArrives(i) \/ CoreRecords(i)
            \/ \E reason \in Releases : ReleaseHold(i, reason)
  <2>1. UNCHANGED <<stock, excess, state, epoch, job, item, fault>>
    BY <1>10 DEF Send, RequestLost, AckArrives, CoreRecords, ReleaseHold
  <2> QED
    BY <1>6, <2>1
<1> QED
  BY <1>3, <1>5, <1>7, <1>8, <1>9, <1>10 DEF ItemStep, Exchange

LEMMA WriterBounds ==
  ASSUME AInv, Shapes', Numbers, Snapped, Locks, Bounds, WriterStep
  PROVE  Bounds'
<1>0. UNCHANGED <<item, fault, epoch>> /\ Shapes /\ NoJob.st = "none"
  BY NoneTypes DEF AInv, CInv, WriterStep, Writers, JobReads, JobCommits, Maintain, JobGivesUp,
     JobDies, FixStep, FixReads, FixCommits, FixEnds, FixDies
<1>q. ASSUME UNCHANGED <<stock, excess, state>>, job' = job \/ job'.st # "read"
      PROVE  Bounds'
  BY <1>0, <1>q, SameSold, QuietBounds
<1>1. CASE JobReads
  <2>1. /\ job'.st = "read" /\ job'.n = Target(job.s, epoch) /\ job'.cl = Added(job.s, epoch)
        /\ job'.s = job.s /\ job.s.e = epoch /\ UNCHANGED <<stock, excess, state>>
    BY <1>1 DEF JobReads, AInv, WInv, JobShape
  <2>2. job'.n - job'.cl = job.s.c - Pending(epoch, job.s.r)
    BY <1>0, <2>1, TargetType DEF Numbers
  <2>3. ~fault => Sold <= Pending(epoch, job.s.r) + Units(job.s)
    BY <2>1, OwnFit, SoldIsCovered
  <2>4. Sold' = Sold /\ Units(job.s)' = Units(job.s) /\ Units(state)' = Units(state)
    BY <1>0, <2>1 DEF Sold, Units
  <2>5. Sold \in Nat /\ Pending(epoch, job.s.r) \in Nat
    BY <1>0, SoldType, PendingType
  <2>6. ~fault => job'.n - job'.cl + Sold <= job.s.c + Units(job.s)
    BY <2>2, <2>3, <2>5, NumberTypes
  <2> QED
    BY <1>0, <2>1, <2>4, <2>6 DEF Bounds, Known
<1>2. CASE JobCommits
  <2>1. /\ job.st = "read" /\ stock' = job.n /\ excess' = job.cl /\ job' = NoJob
        /\ state' = IF job.pub THEN job.s ELSE state
    BY <1>2 DEF JobCommits, Published
  <2>2. state' = job.s
    BY <1>0, <2>1 DEF Locks
  <2>3. ~fault => job.n - job.cl + Sold <= job.s.c + Units(job.s)
    BY <2>1 DEF Bounds
  <2>4. Sold' = Sold /\ Units(state)' = Units(job.s) /\ Sold \in Nat
    BY <1>0, <2>2, SoldType DEF Sold, Units
  <2>5. ~fault => stock' + Sold' <= job.s.c + Units(job.s) + excess'
    BY <2>1, <2>3, <2>4, NumberTypes
  <2> QED
    BY <1>0, <2>1, <2>2, <2>4, <2>5 DEF Bounds
<1>3. CASE Maintain
  <2>1. state \in States
    BY NumberTypes
  <2>2. TakeLock("maintain", state, FALSE) => job'.st = "held"
    BY <2>1, TakenNumbers
  <2> QED
    BY <1>3, <1>q, <2>2 DEF Maintain
<1>4. CASE JobGivesUp \/ JobDies
  BY <1>0, <1>4, <1>q DEF JobGivesUp, JobDies
<1>5. CASE FixReads \/ FixEnds \/ FixDies
  BY <1>5, <1>q DEF FixReads, FixEnds, FixDies
<1>6. CASE FixCommits
  <2>1. fix.st = "read" /\ state' = state /\ job' = job
    BY <1>6 DEF FixCommits
  <2>2. ~Known' /\ job.st # "read"
    BY <1>0, <2>1 DEF Locks, Known
  <2> QED
    BY <2>1, <2>2 DEF Bounds
<1> QED
  BY <1>1, <1>2, <1>3, <1>4, <1>5, <1>6 DEF WriterStep, Writers, FixStep

LEMMA NextBounds ==
  ASSUME AInv, Numbers, Snapped, Locks, Bounds, [Next]_vars
  PROVE  Bounds'
<1>0. Shapes /\ Shapes' /\ state \in States /\ pull \in States
  BY NextShapes, NumberTypes DEF AInv, CInv, Shapes
<1>q. ASSUME UNCHANGED <<stock, excess, state, epoch, item, fault>>, job' = job \/ job'.st # "read"
      PROVE  Bounds'
  BY <1>0, <1>q, SameSold, QuietBounds
<1>1. ASSUME NEW i \in Items,
             \/ Order(i) \/ ItemStep(i) \/ Exchange(i) \/ CoreGivesBack(i)
             \/ MoveFails(i) \/ ItemDies(i) \/ Drain(i)
             \/ \E reason \in Releases : ReleaseHold(i, reason)
      PROVE  Bounds'
  BY <1>0, <1>1, ItemBounds
<1>2. CASE \/ \E d \in {-1, 1} : InStore(d)
           \/ StatusFlips \/ Backup \/ Restore \/ UNCHANGED vars \/ StartPull
  BY <1>2, <1>q DEF InStore, StatusFlips, Backup, Restore, StartPull, vars
<1>3. CASE ApplyPull \/ DropPull
  <2>1. UNCHANGED <<stock, excess, state, epoch, item, fault>>
    BY <1>3 DEF ApplyPull, DropPull
  <2>2. job' = job \/ TakeLock("pull", pull, TRUE) \/ TakeLock("pull", state, FALSE)
    BY <1>3 DEF ApplyPull, DropPull
  <2> QED
    BY <1>0, <1>q, <2>1, <2>2, TakenNumbers
<1>4. ASSUME NEW r \in 1..Len(log), Push(r) PROVE Bounds'
  <2>1. UNCHANGED <<excess, state, epoch, item, fault>>
    BY <1>4 DEF Push
  <2>2. CASE TakeLock("push", Snapshot(r, epoch), TRUE) /\ stock' = stock
    <3>1. Snapshot(r, epoch) \in States
      BY <1>0, SnapshotType DEF Shapes
    <3> QED
      BY <1>q, <2>1, <2>2, <3>1, TakenNumbers
  <2>3. CASE state = NoState /\ job = NoJob /\ job' = job
    <3>1. NoState.e = 0 /\ NoJob.st = "none" /\ epoch >= 1
      BY <1>0, NoneTypes DEF Shapes
    <3>2. ~Known'
      BY <2>1, <2>3, <3>1 DEF Known
    <3> QED
      BY <2>3, <3>1, <3>2 DEF Bounds
  <2> QED
    BY <1>4, <2>2, <2>3 DEF Push
<1>5. CASE WriterStep
  BY <1>0, <1>5, WriterBounds
<1>6. ASSUME NEW carry \in Carries, Reset(carry) PROVE Bounds'
  <2>1. UNCHANGED <<state, job>> /\ epoch' = epoch + 1 /\ job.st # "read"
    BY <1>6 DEF Reset, RowLocked
  <2>2. state.e <= epoch /\ state.e \in Nat /\ epoch \in Nat
    BY <1>0 DEF AInv, WInv, Shapes, States
  <2> QED
    BY <2>1, <2>2 DEF Bounds, Known
<1> QED
  BY <1>1, <1>2, <1>3, <1>4, <1>5, <1>6 DEF Next, Wire, WriterStep

NInv == AInv /\ Unlost /\ Numbers /\ Snapped /\ Locks /\ Bounds

LEMMA InitNInv == Init => NInv
<1> SUFFICES ASSUME Init PROVE NInv
  OBVIOUS
<1>1. AInv /\ Unlost /\ Numbers
  BY InitAInv, InitNumbers DEF Unlost, Init
<1>2. state = NoState /\ pull = NoState /\ job = NoJob /\ fix = NoFix /\ epoch = 1
  BY DEF Init
<1>3. Snapped
  BY <1>1, <1>2, NoneFits, NoneTypes DEF Snapped, Snaps, Fitting
<1> QED
  BY <1>1, <1>2, <1>3, NoneTypes DEF NInv, Locks, Bounds, Known

LEMMA NextNInv ==
  ASSUME NInv, Steady, Recording, Unrestored, [Next]_vars
  PROVE  NInv'
<1>1. AInv' /\ Unlost' /\ Numbers' /\ Locks'
  BY NextAInv, NextUnlost, NextNumbers, NextLocks DEF NInv, AInv, CInv
<1> QED
  BY <1>1, NextSnapped, NextBounds DEF NInv

\* Left, with the units Core has and the units sold apart.
LEMMA LeftIs ==
  ASSUME Shapes, state \in States
  PROVE  Left = state.c + Units(state) - Sold
<1> DEFINE F == [i \in Items |-> item[i].sold]
           D == [i \in Items |-> state.has[i] - item[i].sold]
<1>1. \A i \in Items : item[i].sold \in Nat /\ state.has[i] \in Nat
  BY ATypes DEF States
<1>2. \A i \in Items : F[i] \in Int /\ D[i] \in Int /\ state.has[i] = F[i] + D[i]
  BY <1>1
<1>3. Left = state.c + SumFunctionOnSet(D, Items) /\ Sold = SumFunctionOnSet(F, Items)
  BY DEF Left, Sold, SumOver
<1> HIDE DEF F, D
<1>4. SumFunctionOnSet(state.has, Items) = SumFunctionOnSet(F, Items) + SumFunctionOnSet(D, Items)
  BY <1>2, StockConstants, SumPlus
<1>5. SumFunctionOnSet(F, Items) \in Int /\ SumFunctionOnSet(D, Items) \in Int
  BY <1>2, StockConstants, SumType
<1> QED
  BY <1>3, <1>4, <1>5 DEF Units, SumOver, States

(* The site never sells a unit twice: whatever dies, arrives late or is      *)
(* pushed twice, its number is at most what Core's snapshot leaves once the  *)
(* units of its own orders are gone, but for the two things the history      *)
(* names.  Holds may be released where Core is not restored.                *)
THEOREM NeverSoldTwice == Steady /\ Recording /\ Unrestored => (Spec => []NeverAbove)
<1> SUFFICES ASSUME Steady, Recording, Unrestored PROVE Spec => []NeverAbove
  OBVIOUS
<1>1. Init => NInv
  BY InitNInv
<1>2. NInv /\ [Next]_vars => NInv'
  BY NextNInv
<1>3. NInv => NeverAbove
  <2> SUFFICES ASSUME NInv, Known, ~fault PROVE stock <= Left + excess
    BY DEF NeverAbove
  <2>1. stock + Sold <= state.c + Units(state) + excess /\ Shapes /\ Numbers
    BY DEF NInv, Bounds, AInv, CInv
  <2>2. Left = state.c + Units(state) - Sold /\ Sold \in Nat
    BY <2>1, LeftIs, SoldType, NumberTypes
  <2> QED
    BY <2>1, <2>2, NumberTypes
<1> QED
  BY <1>1, <1>2, <1>3, PTL DEF Spec
-----------------------------------------------------------------------------
(* Units the number hides: who still has to write it.                       *)

\* No process dies, and no manager releases a hold.
Alive == Releases = {} /\ "crash" \notin Failures

\* What a hold takes from a snapshot; holds H, epoch e.
Weight(h, e, r) == IF Counted(h, e, r) THEN h.q ELSE 0
PendingOf(H, e, r) ==
  SumFunctionOnSet([i \in Items |-> H[i].q], {i \in Items : Counted(H[i], e, r)})
TargetOf(H, s, e) == IF s.a THEN Pos(s.c - PendingOf(H, e, s.r)) ELSE 0

LEMMA TargetIs == ASSUME NEW s, NEW e PROVE Target(s, e) = TargetOf(hold, s, e)
BY DEF Target, TargetOf, Pending, PendingOf

LEMMA PendingWeighs ==
  ASSUME NEW H \in [Items -> Holds], NEW e, NEW r
  PROVE  /\ PendingOf(H, e, r) = SumFunctionOnSet([i \in Items |-> Weight(H[i], e, r)], Items)
         /\ PendingOf(H, e, r) \in Nat
<1> DEFINE Q == [i \in Items |-> H[i].q]
           S == {i \in Items : Counted(H[i], e, r)}
           P == [i \in Items |-> Weight(H[i], e, r)]
<1>1. \A i \in Items : H[i].q \in Nat
  BY DEF Holds
<1>2. /\ \A i \in S : P[i] = Q[i]
      /\ \A i \in Items \ S : P[i] = 0
      /\ \A i \in Items : P[i] \in Int
      /\ \A i \in S : Q[i] \in Nat
      /\ S \in SUBSET Items /\ IsFiniteSet(Items)
  BY <1>1, StockConstants DEF Weight
<1> HIDE DEF Q, S, P
<1>3. IsFiniteSet(S)
  BY <1>2, FS_Subset
<1>4. SumFunctionOnSet(P, Items) = SumFunctionOnSet(P, S)
  BY <1>2, SumOfRest
<1>5. SumFunctionOnSet(P, S) = SumFunctionOnSet(Q, S)
  BY <1>2, <1>3, SumSame
<1>6. SumFunctionOnSet(Q, S) \in Nat
  BY <1>2, <1>3, SumNat
<1> QED
  BY <1>4, <1>5, <1>6 DEF PendingOf, Q, S, P

\* Row g takes from every snapshot at least what row h takes.
Heavier(h, g) ==
  \/ h.st = "none"
  \/ /\ g.st # "none" /\ h.q <= g.q
     /\ g.ack = NoAck \/ (g.ack = h.ack /\ g.ep = h.ep)

\* Rows that only get heavier make no number higher.
LEMMA TargetFalls ==
  ASSUME NEW H \in [Items -> Holds], NEW G \in [Items -> Holds],
         \A i \in Items : Heavier(H[i], G[i]), NEW s, Plain(s), NEW e
  PROVE  /\ TargetOf(G, s, e) <= TargetOf(H, s, e)
         /\ TargetOf(G, s, e) \in Nat /\ TargetOf(H, s, e) \in Nat
<1> DEFINE P == [i \in Items |-> Weight(H[i], e, s.r)]
           Q == [i \in Items |-> Weight(G[i], e, s.r)]
<1>1. \A i \in Items : H[i].q \in Nat /\ G[i].q \in Nat /\ Heavier(H[i], G[i])
  BY DEF Holds
<1>2. \A i \in Items : P[i] \in Nat /\ Q[i] \in Nat /\ P[i] <= Q[i]
  <2>1. SUFFICES ASSUME NEW i \in Items
                 PROVE  /\ Weight(H[i], e, s.r) \in Nat /\ Weight(G[i], e, s.r) \in Nat
                        /\ Weight(H[i], e, s.r) <= Weight(G[i], e, s.r)
    OBVIOUS
  <2>2. H[i].q \in Nat /\ G[i].q \in Nat /\ Heavier(H[i], G[i])
    BY <1>1
  <2> QED
    BY <2>2 DEF Weight, Heavier, Counted
<1>3. /\ PendingOf(H, e, s.r) = SumFunctionOnSet(P, Items) /\ PendingOf(H, e, s.r) \in Nat
      /\ PendingOf(G, e, s.r) = SumFunctionOnSet(Q, Items) /\ PendingOf(G, e, s.r) \in Nat
  BY PendingWeighs
<1> HIDE DEF P, Q
<1>4. SumFunctionOnSet(P, Items) <= SumFunctionOnSet(Q, Items)
  BY <1>2, StockConstants, SumMonotone
<1>5. s.c \in Nat
  BY DEF Plain, States
<1> QED
  BY <1>3, <1>4, <1>5 DEF TargetOf, Pos

LEMMA TargetNat ==
  ASSUME NEW H \in [Items -> Holds], NEW s, Plain(s), NEW e
  PROVE  TargetOf(H, s, e) \in Nat
<1>1. PendingOf(H, e, s.r) \in Nat /\ s.c \in Nat
  BY PendingWeighs DEF Plain, States
<1> QED
  BY <1>1 DEF TargetOf, Pos

-----------------------------------------------------------------------------
\* An item and its hold when nothing is released: an intent of a reduction that
\* has not ended announces what the item is to be reduced by.
Announced(x, h) ==
  /\ h.rel = "no"
  /\ h.st = "none" => h.q = 0
  /\ h.st = "intent" /\ x.open /\ x.meta = 0 => h.q = x.to /\ x.to > 0
  /\ x.pc \in {"move", "meta"} => x.to > 0 \/ ~x.open

\* Somebody is on the way to a recomputation of the product.
Coming ==
  \/ backlog # {} \/ fault
  \/ \E i \in Items : item[i].pc \in {"meta", "sync", "recompute"} \/ req[i].st = "recompute"

Shown == Known /\ stock < Target(state, epoch)
Writing == job.st = "read" /\ job.n < Target(job.s, epoch)

ShownOwned == redo # "none" \/ Coming \/ job.by \in {"recompute", "maintain"}
WritingOwned == redo = "new" \/ (redo # "none" /\ job.by # "maintain") \/ Coming

-----------------------------------------------------------------------------
LEMMA HeavierSelf == ASSUME NEW h \in Holds PROVE Heavier(h, h)
<1>1. h.q \in Nat
  BY DEF Holds
<1> QED
  BY <1>1 DEF Heavier

\* An item announces the same as long as what it is to become and whether it is
\* reduced and open stay, and nothing is taken for it anew.
LEMMA AnnouncedKept ==
  ASSUME NEW x, NEW y, NEW h, Announced(x, h), y.open = x.open, y.meta = x.meta, y.to = x.to,
         y.pc \in {"move", "meta"} => x.pc \in {"move", "meta"}
  PROVE  Announced(y, h)
BY DEF Announced

LEMMA ReduceAnnounced ==
  ASSUME NEW x \in ItemRecords, NEW h \in Holds, NEW t \in Nat \ {0},
         Announced(x, h), x.open, x.meta = 0, x.to \in {0, t}
  PROVE  LET y == [x EXCEPT !.op = "reduce", !.pc = "move", !.to = t]
         IN  /\ Announced(y, h) /\ Announced(y, Intended(h, t))
             /\ Heavier(h, Intended(h, t))
<1> DEFINE y == [x EXCEPT !.op = "reduce", !.pc = "move", !.to = t]
<1>1. y.open = x.open /\ y.meta = x.meta /\ y.to = t /\ y.pc = "move"
  BY DEF ItemRecords
<1>2. Row("intent", t).st = "intent" /\ Row("intent", t).q = t /\ Row("intent", t).rel = "no"
      /\ Row("intent", t).ack = NoAck
  BY DEF Row, NoHold
<1>3. h.q \in Nat /\ (h.st = "intent" => h.q = t)
  BY DEF Announced, Holds
<1> HIDE DEF y
<1>4. Announced(y, h)
  BY <1>1 DEF Announced
<1>5. CASE h.st \in {"none", "intent"}
  BY <1>1, <1>2, <1>3, <1>4, <1>5 DEF Intended, Announced, Heavier, y
<1>6. CASE h.st \notin {"none", "intent"}
  BY <1>4, <1>6, HeavierSelf DEF Intended, y
<1> QED
  BY <1>5, <1>6

LEMMA RaiseAnnounced ==
  ASSUME NEW x \in ItemRecords, NEW h \in Holds, NEW t \in Nat,
         Announced(x, h), x.open, 0 < x.meta, x.meta < t
  PROVE  LET y == [x EXCEPT !.op = "raise", !.pc = "move", !.to = t]
         IN  /\ Announced(y, h) /\ Announced(y, Adjusted(h, x.meta, t))
             /\ Heavier(h, Adjusted(h, x.meta, t))
<1> DEFINE y == [x EXCEPT !.op = "raise", !.pc = "move", !.to = t]
<1>0. x.meta \in Nat /\ h.q \in Nat
  BY DEF ItemRecords, Holds
<1>1. y.open = x.open /\ y.meta = x.meta /\ y.to = t /\ y.pc = "move"
  BY DEF ItemRecords
<1>2. Row("adjust", t).st = "adjust" /\ Row("adjust", t).q = t /\ Row("adjust", t).rel = "no"
      /\ Row("adjust", t).ack = NoAck
  BY DEF Row, NoHold
<1> HIDE DEF y
<1>3. Announced(y, h)
  BY <1>0, <1>1 DEF Announced
<1>4. CASE Adjusted(h, x.meta, t) = h
  BY <1>3, <1>4, HeavierSelf DEF y
<1>5. CASE /\ Adjusted(h, x.meta, t) = Row("adjust", t)
           /\ t > (IF h.st = "none" THEN x.meta ELSE h.q)
  BY <1>0, <1>1, <1>2, <1>3, <1>5 DEF Announced, Heavier, y
<1> QED
  BY <1>4, <1>5 DEF Adjusted

\* sync_item leaves no announcement that is not the item's.
LEMMA SyncedAnnounced ==
  ASSUME Shapes, NEW i \in Items, NEW fin \in BOOLEAN, Announced(item[i], hold[i]), NEW y,
         y.open = item[i].open, y.meta = item[i].meta, y.to = item[i].to,
         y.pc \in {"move", "meta"} => item[i].pc \in {"move", "meta"}
  PROVE  Announced(y, Synced(i, fin))
<1> DEFINE h == hold[i]
           m == item[i].meta
<1>1. CASE Synced(i, fin) = h
  BY <1>1, AnnouncedKept
<1>2. CASE Synced(i, fin) = Followed(h, m)
  <2>1. h \in Holds /\ m \in Nat
    BY DEF Shapes, ItemRecords
  <2>2. \A q : Row("confirmed", q).st = "confirmed" /\ Row("confirmed", q).rel = "no"
    BY DEF Row, NoHold
  <2>3. [h EXCEPT !.st = "confirmed", !.q = m].st = "confirmed"
        /\ [h EXCEPT !.st = "confirmed", !.q = m].rel = h.rel
    BY <2>1 DEF Holds
  <2>4. NoHold.st = "none" /\ NoHold.q = 0 /\ NoHold.rel = "no"
    BY DEF NoHold
  <2>5. /\ Followed(h, m).rel = "no" /\ Followed(h, m).st \in {"none", "confirmed"}
        /\ Followed(h, m).st = "none" => Followed(h, m).q = 0
    <3>1. h.rel = "no"
      BY DEF Announced
    <3> HIDE DEF h, m
    <3> QED
      BY <3>1, <2>2, <2>3, <2>4 DEF Followed
  <2> HIDE DEF h, m
  <2>6. y.pc \in {"move", "meta"} => y.to > 0 \/ ~y.open
    BY DEF Announced
  <2> QED
    BY <1>2, <2>5, <2>6 DEF Announced
<1> QED
  BY <1>1, <1>2 DEF Synced

-----------------------------------------------------------------------------
\* A step of one item that owes no recomputation: rows get only heavier and
\* what is coming is still coming.
Harmless ==
  /\ \A j \in Items : Heavier(hold[j], hold'[j])
  /\ Coming => Coming'
  /\ redo' = redo \/ redo' = "new"
  /\ UNCHANGED <<stock, state, epoch, job>>
\* ... and one that owes it, or did it.
Announces ==
  /\ Coming' \/ redo' = "new"
  /\ job' = job
  /\ redo' = redo \/ redo' = "new"

AllAnnounced == \A j \in Items : Announced(item[j], hold[j])

LEMMA OneAnnounced ==
  ASSUME AllAnnounced, NEW i \in Items, Announced(item'[i], hold'[i]),
         \A j \in Items \ {i} : item'[j] = item[j] /\ hold'[j] = hold[j]
  PROVE  AllAnnounced'
BY DEF AllAnnounced

LEMMA QuietHarmless ==
  ASSUME Shapes, AllAnnounced, UNCHANGED <<hold, backlog, stock, state, epoch, job>>,
         redo' = redo \/ redo' = "new", fault => fault',
         \A j \in Items : /\ item'[j].pc = item[j].pc \/ item[j].pc \in {"idle", "move"}
                          /\ req'[j] = req[j] \/ req[j].st # "recompute",
         \A j \in Items : Announced(item'[j], hold[j])
  PROVE  Harmless /\ AllAnnounced'
<1>1. \A j \in Items : Heavier(hold[j], hold'[j])
  BY HeavierSelf DEF Shapes
<1>2. Coming => Coming'
  BY DEF Coming
<1> QED
  BY <1>1, <1>2 DEF Harmless, AllAnnounced

LEMMA OrderHarmless ==
  ASSUME Shapes, Shapes', AllAnnounced, NEW i \in Items, Order(i)
  PROVE  Harmless /\ AllAnnounced'
<1>1. item[i].pc = "idle" /\ UNCHANGED <<backlog, redo, stock, state, epoch, job, req>>
  BY DEF Order, BeginReduce, BeginRaise, BeginLower, Cancel, Idle
<1>2. item[i] \in ItemRecords /\ hold[i] \in Holds /\ \A j \in Items : hold[j] \in Holds
  BY DEF Shapes
<1>3. Announced(item[i], hold[i])
  BY DEF AllAnnounced
<1>4. \A j \in Items \ {i} : item'[j] = item[j] /\ hold'[j] = hold[j]
  <2>1. ASSUME NEW x, NEW j \in Items \ {i}, item' = [item EXCEPT ![i] = x]
        PROVE  item'[j] = item[j]
    BY <2>1 DEF Shapes
  <2>2. ASSUME NEW h, NEW j \in Items \ {i}, Intends(i, h) PROVE hold'[j] = hold[j]
    BY <2>2 DEF Intends, Shapes
  <2>3. ASSUME NEW t, BeginReduce(i, t) \/ BeginRaise(i, t) \/ BeginLower(i, t)
        PROVE  \A j \in Items \ {i} : item'[j] = item[j] /\ hold'[j] = hold[j]
    BY <2>1, <2>2, <2>3 DEF BeginReduce, BeginRaise, BeginLower, Works
  <2>4. CASE Cancel(i)
    BY <2>1, <2>4 DEF Cancel
  <2> QED
    BY <2>3, <2>4 DEF Order
<1>5. fault => fault'
  BY DEF Order, BeginReduce, BeginRaise, BeginLower, Cancel, Intends
<1>6. Announced(item'[i], hold'[i]) /\ Heavier(hold[i], hold'[i])
  <2>1. ASSUME NEW t \in 1..MaxQty, BeginReduce(i, t)
        PROVE  Announced(item'[i], hold'[i]) /\ Heavier(hold[i], hold'[i])
    <3>1. item'[i] = [item[i] EXCEPT !.op = "reduce", !.pc = "move", !.to = t]
      BY <2>1 DEF BeginReduce, Works, Shapes
    <3>2. hold'[i] \in {hold[i], Intended(hold[i], t)}
      BY <2>1 DEF BeginReduce, Intends, Shapes
    <3>3. item[i].open /\ item[i].meta = 0 /\ item[i].to \in {0, t} /\ t \in Nat \ {0}
      BY <2>1, StockConstants DEF BeginReduce
    <3>4. /\ Announced(item'[i], hold[i]) /\ Announced(item'[i], Intended(hold[i], t))
          /\ Heavier(hold[i], Intended(hold[i], t))
      <4> DEFINE x == item[i]
                 h == hold[i]
      <4>1. /\ x \in ItemRecords /\ h \in Holds /\ Announced(x, h)
            /\ x.open /\ x.meta = 0 /\ x.to \in {0, t}
        BY <1>2, <1>3, <3>3
      <4>2. item'[i] = [x EXCEPT !.op = "reduce", !.pc = "move", !.to = t]
        BY <3>1
      <4>3. t \in Nat \ {0}
        BY <3>3
      <4> HIDE DEF x, h
      <4>4. LET y == [x EXCEPT !.op = "reduce", !.pc = "move", !.to = t]
            IN  /\ Announced(y, h) /\ Announced(y, Intended(h, t))
                /\ Heavier(h, Intended(h, t))
        BY <4>1, <4>3, ReduceAnnounced
      <4> QED
        BY <4>2, <4>4 DEF x, h
    <3> QED
      BY <1>2, <3>2, <3>4, HeavierSelf
  <2>2. ASSUME NEW t \in 1..MaxQty, BeginRaise(i, t)
        PROVE  Announced(item'[i], hold'[i]) /\ Heavier(hold[i], hold'[i])
    <3>1. item'[i] = [item[i] EXCEPT !.op = "raise", !.pc = "move", !.to = t]
      BY <2>2 DEF BeginRaise, Works, Shapes
    <3>2. hold'[i] \in {hold[i], Adjusted(hold[i], item[i].meta, t)}
      BY <2>2 DEF BeginRaise, Intends, Shapes
    <3>3. item[i].open /\ 0 < item[i].meta /\ item[i].meta < t /\ t \in Nat
      BY <2>2, StockConstants DEF BeginRaise
    <3>4. /\ Announced(item'[i], hold[i]) /\ Announced(item'[i], Adjusted(hold[i], item[i].meta, t))
          /\ Heavier(hold[i], Adjusted(hold[i], item[i].meta, t))
      <4> DEFINE x == item[i]
                 h == hold[i]
      <4>1. /\ x \in ItemRecords /\ h \in Holds /\ Announced(x, h)
            /\ x.open /\ 0 < x.meta /\ x.meta < t
        BY <1>2, <1>3, <3>3
      <4>2. item'[i] = [x EXCEPT !.op = "raise", !.pc = "move", !.to = t]
        BY <3>1
      <4>3. t \in Nat
        BY <3>3
      <4> HIDE DEF x, h
      <4>4. LET y == [x EXCEPT !.op = "raise", !.pc = "move", !.to = t]
            IN  /\ Announced(y, h) /\ Announced(y, Adjusted(h, x.meta, t))
                /\ Heavier(h, Adjusted(h, x.meta, t))
        BY <4>1, <4>3, RaiseAnnounced
      <4> QED
        BY <4>2, <4>4 DEF x, h
    <3> QED
      BY <1>2, <3>2, <3>4, HeavierSelf
  <2>3. ASSUME NEW t \in 1..MaxQty, BeginLower(i, t)
        PROVE  Announced(item'[i], hold'[i]) /\ Heavier(hold[i], hold'[i])
    <3>1. item'[i] = [item[i] EXCEPT !.op = "lower", !.pc = "move", !.to = t]
      BY <2>3 DEF BeginLower, Works, Shapes
    <3>2. hold' = hold /\ 0 < t /\ t < item[i].meta /\ item[i].meta \in Nat /\ t \in Nat
      BY <1>2, <2>3, StockConstants DEF BeginLower, ItemRecords
    <3>3. item'[i].meta = item[i].meta /\ item'[i].to = t
      BY <1>2, <3>1 DEF ItemRecords
    <3> QED
      BY <1>2, <1>3, <3>2, <3>3, HeavierSelf DEF Announced
  <2>4. CASE Cancel(i)
    <3>1. hold' = hold /\ item'[i].open = FALSE
      BY <1>2, <2>4 DEF Cancel, Shapes, ItemRecords
    <3> QED
      BY <1>2, <1>3, <3>1, HeavierSelf DEF Announced
  <2> QED
    BY <2>1, <2>2, <2>3, <2>4 DEF Order
<1>7. \A j \in Items : Heavier(hold[j], hold'[j])
  BY <1>2, <1>4, <1>6, HeavierSelf
<1>8. Coming => Coming'
  BY <1>1, <1>4, <1>5 DEF Coming
<1>9. AllAnnounced'
  BY <1>4, <1>6, OneAnnounced
<1> QED
  BY <1>1, <1>7, <1>8, <1>9 DEF Harmless

LEMMA ItemSteps ==
  ASSUME Shapes, AllAnnounced, NEW i \in Items,
         \/ Move(i) \/ WriteMeta(i) \/ Sync(i) \/ MoveFails(i) \/ Drain(i)
  PROVE  AllAnnounced' /\ (Harmless \/ Announces)
<1>1. /\ item[i] \in ItemRecords /\ hold[i] \in Holds
      /\ DOMAIN item = Items /\ DOMAIN hold = Items
  BY DEF Shapes
<1>2. Announced(item[i], hold[i])
  BY DEF AllAnnounced
<1>3. CASE Move(i)
  <2>1. /\ item'[i].pc = "meta" /\ item'[i].open = item[i].open
        /\ item'[i].meta = item[i].meta /\ item'[i].to = item[i].to
        /\ item[i].pc = "move" /\ hold' = hold /\ redo' = redo /\ job' = job
    BY <1>1, <1>3 DEF Move, ItemRecords
  <2>2. \A j \in Items \ {i} : item'[j] = item[j] /\ hold'[j] = hold[j]
    BY <1>1, <1>3 DEF Move
  <2>3. Announced(item'[i], hold'[i])
    BY <1>2, <2>1, AnnouncedKept
  <2> QED
    BY <2>1, <2>2, <2>3, OneAnnounced DEF Announces, Coming
<1>4. CASE WriteMeta(i)
  <2>1. /\ item'[i].pc = "sync" /\ item'[i].open = item[i].open
        /\ item'[i].meta = item[i].to /\ item'[i].to = item[i].to
        /\ item[i].pc = "meta" /\ hold' = hold /\ redo' = redo /\ job' = job
    BY <1>1, <1>4 DEF WriteMeta, ItemRecords
  <2>2. \A j \in Items \ {i} : item'[j] = item[j] /\ hold'[j] = hold[j]
    BY <1>1, <1>4 DEF WriteMeta
  <2>3. Announced(item'[i], hold'[i])
    BY <1>1, <1>2, <2>1 DEF Announced, ItemRecords
  <2> QED
    BY <2>1, <2>2, <2>3, OneAnnounced DEF Announces, Coming
<1>5. CASE Sync(i)
  <2>1. \E f, pc : /\ item' = [item EXCEPT ![i] = [@ EXCEPT !.op = "none", !.pc = pc, !.flag = f]]
                   /\ \/ /\ hold' = [hold EXCEPT ![i] = Synced(i, item[i].op = "reduce")]
                         /\ pc = "recompute"
                      \/ hold' = hold /\ i \in backlog' /\ pc = "idle"
                      \/ hold' = hold /\ fault' /\ pc = "idle"
    BY <1>5 DEF Sync
  <2>2. PICK f, pc : /\ item' = [item EXCEPT ![i] = [@ EXCEPT !.op = "none", !.pc = pc, !.flag = f]]
                     /\ \/ /\ hold' = [hold EXCEPT ![i] = Synced(i, item[i].op = "reduce")]
                           /\ pc = "recompute"
                        \/ hold' = hold /\ i \in backlog' /\ pc = "idle"
                        \/ hold' = hold /\ fault' /\ pc = "idle"
    BY <2>1
  <2>a. item'[i] = [item[i] EXCEPT !.op = "none", !.pc = pc, !.flag = f]
    BY <1>1, <2>2
  <2>b. /\ item'[i].pc = pc /\ item'[i].open = item[i].open
        /\ item'[i].meta = item[i].meta /\ item'[i].to = item[i].to
    BY <1>1, <2>a DEF ItemRecords
  <2>c. /\ hold'[i] = hold[i] \/ hold'[i] = Synced(i, item[i].op = "reduce")
        /\ pc = "recompute" \/ i \in backlog' \/ fault'
        /\ pc \in {"idle", "recompute"}
    BY <1>1, <2>2
  <2>3. redo' = redo /\ job' = job
    BY <1>5 DEF Sync
  <2>4. \A j \in Items \ {i} : item'[j] = item[j] /\ hold'[j] = hold[j]
    BY <1>1, <2>2
  <2>5. Announced(item'[i], hold[i])
    BY <1>2, <2>b, <2>c, AnnouncedKept
  <2>6. Announced(item'[i], Synced(i, item[i].op = "reduce"))
    BY <1>2, <2>b, <2>c, SyncedAnnounced
  <2>7. Coming'
    BY <2>b, <2>c DEF Coming
  <2> QED
    BY <2>c, <2>3, <2>4, <2>5, <2>6, <2>7, OneAnnounced DEF Announces
<1>6. CASE MoveFails(i)
  <2>1. /\ item'[i].pc \in {"idle", "sync"} /\ item'[i].open = item[i].open
        /\ item'[i].meta = item[i].meta /\ item'[i].to = item[i].to
        /\ item[i].pc = "move"
    BY <1>1, <1>6 DEF MoveFails, Rests, ItemRecords
  <2>2. UNCHANGED <<hold, backlog, fault, redo, stock, state, epoch, job, req>>
    BY <1>6 DEF MoveFails
  <2>3. \A j \in Items \ {i} : item'[j] = item[j]
    BY <1>1, <1>6 DEF MoveFails, Rests
  <2>4. Announced(item'[i], hold[i])
    BY <1>2, <2>1, AnnouncedKept
  <2>5. \A j \in Items : /\ item'[j].pc = item[j].pc \/ item[j].pc \in {"idle", "move"}
                         /\ req'[j] = req[j] \/ req[j].st # "recompute"
    BY <2>1, <2>2, <2>3
  <2>6. \A j \in Items : Announced(item'[j], hold[j])
    BY <2>3, <2>4 DEF AllAnnounced
  <2> QED
    BY <2>2, <2>5, <2>6, QuietHarmless
<1>7. CASE Drain(i)
  <2>1. item' = item /\ redo' = "new" /\ job' = job /\ hold'[i] = Synced(i, FALSE)
    BY <1>1, <1>7 DEF Drain
  <2>2. \A j \in Items \ {i} : hold'[j] = hold[j]
    BY <1>1, <1>7 DEF Drain
  <2>3. Announced(item[i], Synced(i, FALSE))
    BY <1>2, SyncedAnnounced
  <2> QED
    BY <2>1, <2>2, <2>3, OneAnnounced DEF Announces
<1> QED
  BY <1>3, <1>4, <1>5, <1>6, <1>7

LEMMA ExchangeSteps ==
  ASSUME Shapes, AllAnnounced, NEW i \in Items,
         \/ Send(i) \/ RequestLost(i) \/ AckArrives(i) \/ CoreRecords(i) \/ CoreGivesBack(i)
  PROVE  AllAnnounced' /\ (Harmless \/ Announces)
<1>1. /\ item[i] \in ItemRecords /\ hold[i] \in Holds /\ req[i] \in Requests
      /\ DOMAIN item = Items /\ DOMAIN hold = Items /\ DOMAIN req = Items
  BY DEF Shapes
<1>2. Announced(item[i], hold[i]) /\ \A j \in Items : Announced(item[j], hold[j])
  BY DEF AllAnnounced
<1>3. CASE Send(i) \/ RequestLost(i) \/ CoreRecords(i)
  <2>1. UNCHANGED <<item, hold, backlog, fault, redo, stock, state, epoch, job>>
    BY <1>3 DEF Send, RequestLost, CoreRecords
  <2>2. req[i].st # "recompute"
    BY <1>1, <1>3 DEF Send, RequestLost, CoreRecords, NoReq
  <2>3. \A j \in Items \ {i} : req'[j] = req[j]
    BY <1>1, <1>3 DEF Send, RequestLost, CoreRecords
  <2> QED
    BY <1>2, <2>1, <2>2, <2>3, QuietHarmless
<1>4. CASE CoreGivesBack(i)
  <2>1. /\ UNCHANGED <<hold, backlog, fault, redo, stock, state, epoch, job, req>>
        /\ item' = [item EXCEPT ![i].gave = TRUE]
    BY <1>4 DEF CoreGivesBack
  <2>2. \A j \in Items : /\ item'[j].pc = item[j].pc /\ item'[j].open = item[j].open
                         /\ item'[j].meta = item[j].meta /\ item'[j].to = item[j].to
    BY <1>1, <2>1 DEF ItemRecords
  <2>3. \A j \in Items : Announced(item'[j], hold[j])
    BY <1>2, <2>2, AnnouncedKept
  <2> QED
    BY <2>1, <2>2, <2>3, QuietHarmless
<1>5. CASE AckArrives(i)
  <2>1. UNCHANGED <<item, backlog, redo, fault, stock, state, epoch, job>>
    BY <1>5 DEF AckArrives
  <2>2. CASE req[i].e # epoch
    <3>1. hold' = hold /\ req[i].st # "recompute" /\ \A j \in Items \ {i} : req'[j] = req[j]
      BY <1>1, <1>5, <2>2 DEF AckArrives
    <3> QED
      BY <1>2, <2>1, <3>1, QuietHarmless
  <2>3. CASE req[i].e = epoch
    <3>1. req'[i].st = "recompute" /\ hold'[i] = Acknowledged(i)
      BY <1>1, <1>5, <2>3 DEF AckArrives, Requests
    <3>2. \A j \in Items \ {i} : hold'[j] = hold[j]
      BY <1>1, <1>5, <2>3 DEF AckArrives
    <3>3. Acknowledged(i).st = hold[i].st /\ Acknowledged(i).q = hold[i].q
          /\ Acknowledged(i).rel = hold[i].rel
      BY <1>1 DEF Acknowledged, Holds
    <3>4. Announced(item'[i], hold'[i])
      BY <1>2, <2>1, <3>1, <3>3 DEF Announced
    <3>5. Coming'
      BY <3>1 DEF Coming
    <3> QED
      BY <2>1, <3>2, <3>4, <3>5, OneAnnounced DEF Announces
  <2> QED
    BY <2>2, <2>3
<1> QED
  BY <1>3, <1>4, <1>5

-----------------------------------------------------------------------------
Owned ==
  /\ Shown => ShownOwned
  /\ Writing => WritingOwned
  /\ job.by = "maintain" => redo # "none"

LEMMA SafeSteps ==
  ASSUME Shapes, Shapes', Numbers, Flags, Owned, Harmless \/ Announces
  PROVE  Owned'
<1>1. CASE Announces
  <2>1. ShownOwned' /\ WritingOwned'
    BY <1>1 DEF Announces, ShownOwned, WritingOwned
  <2>2. job'.by = "maintain" => redo' # "none"
    BY <1>1 DEF Announces, Owned
  <2> QED
    BY <2>1, <2>2 DEF Owned
<1>2. CASE Harmless
  <2>0. /\ hold \in [Items -> Holds] /\ hold' \in [Items -> Holds] /\ Plain(state) /\ Plain(job.s)
        /\ \A j \in Items : Heavier(hold[j], hold'[j])
        /\ UNCHANGED <<stock, state, epoch, job>>
    BY <1>2 DEF Shapes, Numbers, Harmless
  <2>1. /\ Target(state, epoch) = TargetOf(hold, state, epoch)
        /\ Target(state, epoch)' = TargetOf(hold', state, epoch)
        /\ Target(job.s, epoch) = TargetOf(hold, job.s, epoch)
        /\ Target(job.s, epoch)' = TargetOf(hold', job.s, epoch)
    BY <2>0 DEF Target, TargetOf, Pending, PendingOf
  <2>2. /\ TargetOf(hold', state, epoch) <= TargetOf(hold, state, epoch)
        /\ TargetOf(hold', state, epoch) \in Nat /\ TargetOf(hold, state, epoch) \in Nat
    BY <2>0, TargetFalls
  <2>3. /\ TargetOf(hold', job.s, epoch) <= TargetOf(hold, job.s, epoch)
        /\ TargetOf(hold', job.s, epoch) \in Nat /\ TargetOf(hold, job.s, epoch) \in Nat
    BY <2>0, TargetFalls
  <2>4. stock \in Int /\ job.n \in Nat
    BY NumberTypes
  <2>5. Shown' => Shown
    BY <2>0, <2>1, <2>2, <2>4 DEF Shown, Known
  <2>6. Writing' => Writing
    BY <2>0, <2>1, <2>3, <2>4 DEF Writing
  <2>7. /\ ShownOwned => ShownOwned'
        /\ WritingOwned => WritingOwned'
    BY <1>2 DEF Harmless, ShownOwned, WritingOwned
  <2>8. job'.by = "maintain" => redo' # "none"
    BY <1>2 DEF Harmless, Owned
  <2> QED
    BY <2>5, <2>6, <2>7, <2>8 DEF Owned
<1> QED
  BY <1>1, <1>2

HInv ==
  /\ WInv /\ Numbers /\ Flags /\ Locks
  /\ AllAnnounced /\ Owned

\* A recomputation holds the lock, or leaves the mark or the fault behind.
LEMMA RecomputeOwned ==
  ASSUME HInv, NEW i \in Items, ItemRecomputes(i) \/ AckRecomputes(i)
  PROVE  AllAnnounced' /\ Owned'
<1>1. Recompute /\ UNCHANGED <<hold, stock, state, epoch>>
  BY DEF ItemRecomputes, AckRecomputes
<1>2. AllAnnounced'
  <2>1. \A j \in Items : /\ item'[j].open = item[j].open /\ item'[j].meta = item[j].meta
                         /\ item'[j].to = item[j].to
                         /\ item'[j].pc \in {item[j].pc, "idle"}
    <3>1. CASE ItemRecomputes(i)
      BY <3>1 DEF ItemRecomputes, HInv, WInv, Shapes, ItemRecords
    <3>2. CASE AckRecomputes(i)
      BY <3>2 DEF AckRecomputes
    <3> QED
      BY <3>1, <3>2
  <2>2. \A j \in Items : Announced(item[j], hold[j])
    BY DEF HInv, AllAnnounced
  <2>3. \A j \in Items : Announced(item'[j], hold[j])
    BY <2>1, <2>2, AnnouncedKept
  <2> QED
    BY <1>1, <2>3 DEF AllAnnounced
<1>3. CASE MarkRedo /\ job' = job
  <2>1. redo' = "new" \/ (fault' /\ redo' = redo)
    BY <1>3 DEF MarkRedo
  <2>2. ShownOwned' /\ WritingOwned'
    BY <2>1 DEF ShownOwned, WritingOwned, Coming
  <2>3. job'.by = "maintain" => redo' # "none"
    BY <1>3, <2>1 DEF HInv, Owned
  <2> QED
    BY <1>2, <2>2, <2>3 DEF Owned
<1>4. CASE TakeLock("recompute", state, FALSE)
  <2>1. job'.by = "recompute" /\ job'.st = "held"
    BY <1>4, TakenNumbers DEF HInv, WInv
  <2> QED
    BY <1>2, <2>1 DEF Owned, ShownOwned, Writing
<1>5. CASE ~Known /\ job = NoJob /\ job' = job
  <2>1. ~Known' /\ job'.st = "none" /\ job'.by = "none"
    BY <1>1, <1>5 DEF Known, NoJob
  <2> QED
    BY <1>2, <2>1 DEF Owned, Shown, Writing
<1> QED
  BY <1>1, <1>2, <1>3, <1>4, <1>5 DEF Recompute

LEMMA WireOwned ==
  ASSUME HInv, Shapes', Wire
  PROVE  AllAnnounced' /\ Owned'
<1>0. /\ Shapes /\ Numbers /\ Flags /\ Owned /\ AllAnnounced
      /\ NoJob.st = "none" /\ NoJob.by = "none"
      /\ \A j \in Items : hold[j].rel = "no"
  BY DEF HInv, WInv, NoJob, AllAnnounced, Announced
<1>1. ASSUME hold' = hold, UNCHANGED <<item, req, backlog, redo, fault, stock, state, epoch, job>>
      PROVE  AllAnnounced' /\ Owned'
  <2>1. \A j \in Items : Announced(item'[j], hold[j])
    BY <1>0, <1>1 DEF AllAnnounced
  <2>2. \A j \in Items : item'[j].pc = item[j].pc /\ req'[j] = req[j]
    BY <1>1
  <2>3. Harmless /\ AllAnnounced'
    BY <1>0, <1>1, <2>1, <2>2, QuietHarmless
  <2> QED
    BY <1>0, <2>3, SafeSteps
<1>2. ASSUME hold' = hold, UNCHANGED <<item, req, backlog, redo, fault, stock, state, epoch>>,
             job = NoJob, NEW by \in {"pull", "push"}, NEW s \in States, NEW pub \in BOOLEAN,
             TakeLock(by, s, pub)
      PROVE  AllAnnounced' /\ Owned'
  <2>1. job'.by = by /\ job'.st = "held"
    BY <1>2, TakenNumbers
  <2>2. AllAnnounced'
    BY <1>0, <1>2 DEF AllAnnounced
  <2>3. Shown' => Shown
    BY <1>2 DEF Shown, Known, Target, Pending
  <2>4. ShownOwned => ShownOwned'
    BY <1>0, <1>2 DEF ShownOwned, Coming
  <2> QED
    BY <1>0, <2>1, <2>2, <2>3, <2>4 DEF Owned, Writing
<1>3. CASE StartPull
  <2>1. hold' = hold
    BY <1>0, <1>3 DEF StartPull, Shapes
  <2> QED
    BY <1>1, <1>3, <2>1 DEF StartPull
<1>4. CASE ApplyPull
  <2>1. Bindable = {}
    BY <1>0 DEF Bindable
  <2>2. hold' = hold
    <3>1. Bound = [i \in Items |-> hold[i]]
      BY <2>1 DEF Bound
    <3> QED
      BY <1>0, <1>4, <3>1 DEF ApplyPull, Shapes
  <2>3. /\ UNCHANGED <<item, req, backlog, redo, fault, stock, state, epoch>> /\ job = NoJob
        /\ TakeLock("pull", pull, TRUE) \/ job' = job
    BY <1>4, <2>1 DEF ApplyPull
  <2>4. pull \in States
    BY <1>0 DEF Shapes
  <2> QED
    BY <1>1, <1>2, <2>2, <2>3, <2>4
<1>5. CASE DropPull
  BY <1>1, <1>5 DEF DropPull
<1>6. ASSUME NEW r \in 1..Len(log), Push(r) PROVE AllAnnounced' /\ Owned'
  <2>1. UNCHANGED <<hold, item, req, backlog, redo, fault, state, epoch>> /\ job = NoJob
    BY <1>6 DEF Push
  <2>2. CASE TakeLock("push", Snapshot(r, epoch), TRUE) /\ stock' = stock
    <3>1. Snapshot(r, epoch) \in States
      BY <1>0, SnapshotType DEF Shapes
    <3> QED
      BY <1>2, <2>1, <2>2, <3>1
  <2>3. CASE state = NoState /\ job' = job
    <3>1. ~Known'
      BY <1>0, <2>1, <2>3, NoneTypes DEF Known, Shapes
    <3>2. AllAnnounced'
      BY <1>0, <2>1 DEF AllAnnounced
    <3> QED
      BY <1>0, <2>1, <2>3, <3>1, <3>2 DEF Owned, Shown, Writing
  <2> QED
    BY <1>6, <2>2, <2>3 DEF Push
<1> QED
  BY <1>3, <1>4, <1>5, <1>6 DEF Wire

LEMMA WriterOwned ==
  ASSUME HInv, Alive, Writers \/ JobGivesUp \/ FixStep \/ FixDies
  PROVE  AllAnnounced' /\ Owned'
<1>0. /\ NoJob.st = "none" /\ NoJob.by = "none" /\ NoJob.st # "read"
      /\ Shapes /\ Numbers /\ Flags /\ Owned /\ AllAnnounced /\ Locks
  BY DEF HInv, WInv, NoJob
<1>1. UNCHANGED <<item, hold, req, backlog, fault, epoch>>
  BY DEF Writers, JobReads, JobCommits, Maintain, JobGivesUp, FixStep, FixReads, FixCommits,
     FixEnds, FixDies
<1>2. AllAnnounced' /\ (Coming <=> Coming')
  BY <1>0, <1>1 DEF AllAnnounced, Coming
<1>3. CASE JobReads
  <2>1. /\ job'.st = "read" /\ job'.by = job.by /\ job'.s = job.s
        /\ job'.n = Target(job.s, epoch) /\ UNCHANGED <<redo, stock, state>>
    BY <1>3 DEF JobReads, HInv, WInv, JobShape
  <2>2. Target(job.s, epoch)' = Target(job.s, epoch) /\ Target(job.s, epoch) \in Nat
    <3>1. Plain(job.s)
      BY <1>0 DEF Numbers
    <3> QED
      BY <1>0, <1>1, <2>1, <3>1, TargetType DEF Target, Pending
  <2>3. ~Writing'
    BY <2>1, <2>2 DEF Writing
  <2>4. Shown' => Shown
    BY <1>1, <2>1 DEF Shown, Known, Target, Pending
  <2>5. ShownOwned => ShownOwned'
    BY <1>2, <2>1 DEF ShownOwned
  <2> QED
    BY <1>0, <1>2, <2>1, <2>3, <2>4, <2>5 DEF Owned
<1>4. CASE JobCommits
  <2>1. /\ job.st = "read" /\ stock' = job.n /\ job' = NoJob
        /\ redo' = Unmarked \/ redo' = "new"
    BY <1>4 DEF JobCommits
  <2>2. state' = job.s
    BY <1>0, <1>4, <2>1 DEF JobCommits, Published, Locks
  <2>3. Shown' => Writing
    BY <1>1, <2>1, <2>2 DEF Shown, Writing, Known, Target, Pending
  <2>4. WritingOwned => ShownOwned'
    BY <1>2, <2>1 DEF WritingOwned, ShownOwned, Unmarked
  <2> QED
    BY <1>0, <1>2, <2>1, <2>3, <2>4 DEF Owned, Writing
<1>5. CASE Maintain
  <2>1. redo # "none" /\ job = NoJob /\ UNCHANGED <<stock, state>>
    BY <1>5 DEF Maintain
  <2>2. CASE Known
    <3>1. redo' = "seen" /\ TakeLock("maintain", state, FALSE)
      BY <1>5, <2>2 DEF Maintain
    <3>2. job'.st = "held"
      BY <3>1, TakenNumbers DEF HInv, WInv
    <3> QED
      BY <1>2, <3>1, <3>2 DEF Owned, ShownOwned, Writing
  <2>3. CASE ~Known
    <3>1. job' = NoJob /\ ~Known'
      BY <1>1, <1>5, <2>1, <2>3 DEF Maintain, Known
    <3> QED
      BY <1>0, <1>2, <3>1 DEF Owned, Shown, Writing
  <2> QED
    BY <2>2, <2>3
<1>6. CASE JobGivesUp
  <2>1. /\ job' = NoJob /\ UNCHANGED <<stock, state>>
        /\ redo' = IF job.by = "recompute" THEN "new" ELSE redo
    BY <1>6 DEF JobGivesUp
  <2>2. Shown' => Shown
    BY <1>1, <2>1 DEF Shown, Known, Target, Pending
  <2>3. ShownOwned => ShownOwned'
    BY <1>0, <1>2, <2>1 DEF ShownOwned, Owned
  <2> QED
    BY <1>0, <1>2, <2>1, <2>2, <2>3 DEF Owned, Writing
<1>7. CASE FixReads \/ FixEnds \/ FixDies
  <2>1. UNCHANGED <<stock, state, job, redo>>
    BY <1>7 DEF FixReads, FixEnds, FixDies
  <2>2. (Shown' <=> Shown) /\ (Writing' <=> Writing)
    BY <1>1, <2>1 DEF Shown, Writing, Known, Target, Pending
  <2> QED
    BY <1>0, <1>2, <2>1, <2>2 DEF Owned, ShownOwned, WritingOwned
<1>8. CASE FixCommits
  <2>1. UNCHANGED <<state, job, redo>> /\ fix.st = "read"
    BY <1>8 DEF FixCommits
  <2>2. ~Known' /\ job'.st # "read"
    BY <1>0, <1>1, <2>1 DEF Locks, Known
  <2> QED
    BY <1>0, <1>2, <2>1, <2>2 DEF Owned, Shown, Writing
<1> QED
  BY <1>3, <1>4, <1>5, <1>6, <1>7, <1>8 DEF Writers, FixStep

LEMMA ResetOwned ==
  ASSUME HInv, NEW carry \in Carries, Reset(carry)
  PROVE  AllAnnounced' /\ Owned'
<1>1. /\ epoch' = epoch + 1 /\ UNCHANGED <<state, job, redo, item>> /\ job.st # "read"
  BY DEF Reset, RowLocked
<1>2. ~Known'
  <2>1. epoch \in Nat /\ state.e \in Nat /\ state.e <= epoch
    BY DEF HInv, WInv, Shapes, States
  <2> QED
    BY <1>1, <2>1 DEF Known
<1>3. AllAnnounced'
  <2>1. ASSUME NEW j \in Items
        PROVE  /\ hold'[j].rel = hold[j].rel /\ hold'[j].st = hold[j].st
               /\ hold'[j].q = hold[j].q
    <3>1. hold[j] \in Holds
      BY DEF HInv, WInv, Shapes
    <3>2. hold'[j] = hold[j] \/ hold'[j] = Carried(hold[j])
      BY DEF Reset
    <3> QED
      BY <3>1, <3>2 DEF Carried, Holds
  <2> QED
    BY <1>1, <2>1 DEF HInv, AllAnnounced, Announced
<1> QED
  BY <1>1, <1>2, <1>3 DEF HInv, Owned, Shown, Writing

LEMMA NextHInv ==
  ASSUME HInv, Alive, [Next]_vars
  PROVE  HInv'
<1>1. WInv' /\ Numbers' /\ Flags' /\ Locks' /\ Shapes' /\ Shapes
  BY NextWInv, NextNumbers, NextFlags, NextLocks DEF HInv, WInv
<1>2. SUFFICES AllAnnounced' /\ Owned'
  BY <1>1 DEF HInv
<1>3. Shapes /\ Numbers /\ Flags /\ Owned /\ AllAnnounced
  BY <1>1 DEF HInv
<1>4. ASSUME AllAnnounced', Harmless \/ Announces PROVE AllAnnounced' /\ Owned'
  BY <1>1, <1>3, <1>4, SafeSteps
<1>5. ASSUME NEW i \in Items,
             \/ Order(i) \/ ItemStep(i) \/ Exchange(i) \/ CoreGivesBack(i)
             \/ MoveFails(i) \/ ItemDies(i) \/ Drain(i)
             \/ \E reason \in Releases : ReleaseHold(i, reason)
      PROVE  AllAnnounced' /\ Owned'
  <2>1. CASE ItemRecomputes(i) \/ AckRecomputes(i)
    BY <2>1, RecomputeOwned
  <2>2. CASE Order(i)
    BY <1>1, <1>3, <1>4, <2>2, OrderHarmless
  <2>3. CASE Move(i) \/ WriteMeta(i) \/ Sync(i) \/ MoveFails(i) \/ Drain(i)
    BY <1>3, <1>4, <2>3, ItemSteps
  <2>4. CASE Send(i) \/ RequestLost(i) \/ AckArrives(i) \/ CoreRecords(i) \/ CoreGivesBack(i)
    BY <1>3, <1>4, <2>4, ExchangeSteps
  <2>5. ~ItemDies(i) /\ ~\E reason \in Releases : ReleaseHold(i, reason)
    BY DEF Alive, ItemDies, Fails
  <2> QED
    BY <1>5, <2>1, <2>2, <2>3, <2>4, <2>5 DEF ItemStep, Exchange
<1>6. CASE \/ \E d \in {-1, 1} : InStore(d)
           \/ StatusFlips \/ Backup \/ Restore \/ UNCHANGED vars
  <2>1. UNCHANGED <<item, hold, req, backlog, fault, redo, stock, state, epoch, job>>
    BY <1>6 DEF InStore, StatusFlips, Backup, Restore, vars
  <2>2. \A j \in Items : Announced(item'[j], hold[j]) /\ item'[j].pc = item[j].pc /\ req'[j] = req[j]
    BY <1>3, <2>1 DEF AllAnnounced
  <2>3. Harmless /\ AllAnnounced'
    BY <1>3, <2>1, <2>2, QuietHarmless
  <2> QED
    BY <1>4, <2>3
<1>7. ~JobDies
  BY DEF Alive, JobDies, Fails
<1> QED
  BY <1>1, <1>5, <1>6, <1>7, WireOwned, WriterOwned, ResetOwned DEF Next

(* No unit the number hides is forgotten: as long as the processes of the site *)
(* run to their end and no hold is released, a number below what the snapshot *)
(* and the holds ask for has a mark, a fault or a process that will write it. *)
THEOREM HiddenUnitsHaveOwner == Alive => (Spec => []HiddenUnitsAreOwned)
<1> SUFFICES ASSUME Alive PROVE Spec => []HiddenUnitsAreOwned
  OBVIOUS
<1>1. Init => HInv
  <2> SUFFICES ASSUME Init PROVE HInv
    OBVIOUS
  <2>1. WInv /\ Numbers
    BY InitWInv, InitNumbers
  <2>2. Flags
    <3>1. /\ lost = FALSE /\ fault = FALSE /\ redo = "none" /\ early = {} /\ backlog = {}
          /\ intent = 0 /\ ops = 0 /\ mishaps = 0
      BY DEF Init
    <3> QED
      BY <3>1 DEF Flags
  <2>3. state = NoState /\ job = NoJob /\ fix = NoFix /\ epoch = 1
    BY DEF Init
  <2>4. ~Known /\ NoJob.by = "none"
    BY <2>3, NoneTypes DEF Known, NoJob
  <2>5. Locks
    BY <2>3, NoneTypes DEF Locks
  <2>6. \A i \in Items : item[i] = NewItem /\ hold[i] = NoHold
    BY DEF Init
  <2>7. \A i \in Items : Announced(item[i], hold[i])
    BY <2>6 DEF Announced, NewItem, NoHold
  <2> QED
    BY <2>1, <2>2, <2>3, <2>4, <2>5, <2>7, NoneTypes DEF HInv, AllAnnounced, Owned, Shown, Writing
<1>2. HInv /\ [Next]_vars => HInv'
  BY NextHInv
<1>3. HInv => HiddenUnitsAreOwned
  <2> SUFFICES ASSUME HInv, Known, stock < Target(state, epoch)
               PROVE  \/ redo # "none" \/ backlog # {} \/ fault \/ job # NoJob
                      \/ \E i \in Items : item[i].pc # "idle" \/ req[i].st = "recompute"
    BY DEF HiddenUnitsAreOwned
  <2>1. ShownOwned
    BY DEF HInv, Owned, Shown
  <2>2. NoJob.by = "none"
    BY DEF NoJob
  <2> QED
    BY <2>1, <2>2 DEF ShownOwned, Coming
<1> QED
  BY <1>1, <1>2, <1>3, PTL DEF Spec
=============================================================================
