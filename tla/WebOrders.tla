------------------------------ MODULE WebOrders ------------------------------
(***************************************************************************)
(* Orders of the web shop, each of one piece of one product: the connector   *)
(* (LMC_Order_Reservation, LMC_Order_Sync) reserves, releases and sends them, *)
(* the core (web_order_reserve, the ingestion of an order) keeps what becomes *)
(* of them.  A job is what SiteQueue says of it: once queued it runs, one run *)
(* at a time, and a run that dies is queued again.                          *)
(*                                                                          *)
(* The core executes a request in one transaction under the order's lock.    *)
(* Its answer and what the site does with it are one step, or the answer is   *)
(* lost and the request, which nobody waits for any more, may be executed     *)
(* much later, or never.                                                    *)
(***************************************************************************)
EXTENDS Integers, FiniteSets, FiniteSetsExt

CONSTANTS
  Orders,
  Shelf,       \* pieces on hand at the start
  MaxTries,    \* LMC_Order_Sync::MAX_ATTEMPTS
  MaxStock,    \* bound: pieces on hand
  MaxChanges,  \* bound: changes of status and sends by hand
  MaxTroubles  \* bound: lost answers, dead runs, refusals for other reasons

ASSUME WebOrdersConstants ==
  /\ IsFiniteSet(Orders)
  /\ Shelf \in Nat /\ MaxTries \in Nat \ {0} /\ MaxStock \in Nat
  /\ MaxChanges \in Nat /\ MaxTroubles \in Nat

VARIABLES
  shop,     \* what the site keeps of each order
  queued,   \* the jobs of each order that wait in the queue
  sent,     \* the request each running job waits for
  late,     \* requests nobody waits for
  row,      \* inventory.web_order_reservation.status
  sold,     \* the invoice of each order, by the request that made it
  onHand, held,  \* stock_balance.on_hand and .reserved
  changes, troubles

core == <<row, sold, onHand, held>>
wovars == <<shop, queued, sent, late, core, changes, troubles>>

Statuses == {"pending", "processing", "completed", "cancelled", "refunded"}
JobKinds == {"reservation", "order"}
Kinds == {"reserve", "release", "plain", "cod"}  \* cod: with codDelivered
Nothing == [what |-> "none", n |-> 0]
Waiting == [what : Kinds, n : Nat] \cup {Nothing}  \* n: the attempts read before
Fates == {"none", "reserved", "released", "consumed"}

(* The order and its meta, by the constants of the two classes.  A payload    *)
(* first made for a release has no lines.                                   *)
Shops == [status : Statuses, cod : BOOLEAN, paid : BOOLEAN, delivered : BOOLEAN,
          payload : {"none", "lines", "bare"}, action : {"none", "reserve", "release"},
          attempts : Nat, error : BOOLEAN, state : Fates,
          tries : Nat, fault : BOOLEAN, stopped : BOOLEAN, invoice : BOOLEAN]

WebOrdersTypeOK ==
  /\ shop \in [Orders -> Shops]
  /\ queued \in [Orders -> SUBSET JobKinds]
  /\ sent \in [Orders -> [JobKinds -> Waiting]]
  /\ late \subseteq Orders \X Kinds
  /\ row \in [Orders -> Fates]
  /\ sold \in [Orders -> {"none", "plain", "cod"}]
  /\ onHand \in Nat /\ held \in Nat
  /\ changes \in Nat /\ troubles \in Nat

WebOrdersInit ==
  /\ \E c \in [Orders -> BOOLEAN] :
       shop = [o \in Orders |->
         [status |-> "pending", cod |-> c[o], paid |-> FALSE, delivered |-> FALSE,
          payload |-> "none", action |-> "none", attempts |-> 0, error |-> FALSE,
          state |-> "none", tries |-> 0, fault |-> FALSE, stopped |-> FALSE,
          invoice |-> FALSE]]
  /\ queued = [o \in Orders |-> {}]
  /\ sent = [o \in Orders |-> [j \in JobKinds |-> Nothing]]
  /\ late = {}
  /\ row = [o \in Orders |-> "none"] /\ sold = [o \in Orders |-> "none"]
  /\ onHand = Shelf /\ held = 0
  /\ changes = 0 /\ troubles = 0

-----------------------------------------------------------------------------
(* What the site decides from an order.                                     *)
OnReservation(s) == s.cod \/ s.payload # "none"

Wanted(s) ==
  CASE ~OnReservation(s) -> "none"
    [] OnReservation(s) /\ s.status = "cancelled" -> "release"
    [] OnReservation(s) /\ s.status \in {"processing", "completed"} -> "reserve"
    [] OTHER -> "none"

Eligible(s) ==
  /\ s.paid /\ s.status \in {"processing", "completed", "refunded"}
  /\ \/ ~OnReservation(s)
     \/ s.status = "completed"
     \/ s.status = "refunded" /\ s.delivered

-----------------------------------------------------------------------------
(* The hooks of a changed order: the order as they leave it, and the jobs     *)
(* they queue.  ok: the first payload could be made.                        *)
FirstPayload(s) ==
  IF s.payload # "none" THEN s
  ELSE [s EXCEPT !.payload = IF s.action = "release" THEN "bare" ELSE "lines"]

Failed(s, n) == [s EXCEPT !.attempts = n + 1, !.error = TRUE]

Changed(s, ok) ==
  LET x == IF s.action = Wanted(s) THEN s
           ELSE [s EXCEPT !.action = Wanted(s), !.attempts = 0, !.error = FALSE]
  IN CASE s.invoice \/ Wanted(s) = "none" -> [shop |-> s, queue |-> {}]
       [] ~s.invoice /\ Wanted(s) # "none" /\ (x.error \/ x.attempts >= MaxTries) ->
            [shop |-> x, queue |-> {}]
       [] ~s.invoice /\ Wanted(s) # "none" /\ ~x.error /\ x.attempts < MaxTries
          /\ x.payload = "none" /\ ~ok -> [shop |-> Failed(x, x.attempts), queue |-> {}]
       [] OTHER -> [shop |-> FirstPayload(x), queue |-> {"reservation"}]

(* wrong: only an order on its way is sent, not one that is delivered *)
ResumedEarly(s) ==
  LET x == [s EXCEPT !.delivered = @ \/ (s.status = "completed" /\ OnReservation(s))]
      go == Eligible(x) /\ s.status = "processing" /\ ~x.invoice /\ ~x.stopped
            /\ ~x.fault /\ x.tries = 0
  IN [shop |-> x, queue |-> IF go THEN {"order"} ELSE {}]

Resumed(s) ==
  LET x == [s EXCEPT !.delivered = @ \/ (s.status = "completed" /\ OnReservation(s))]
      go == Eligible(x) /\ ~x.invoice /\ ~x.stopped /\ ~x.fault /\ x.tries = 0
  IN [shop |-> x, queue |-> IF go THEN {"order"} ELSE {}]

(* wrong: a job that is running need not be queued *)
EnqueueIdle(o, jobs) ==
  queued' = [queued EXCEPT ![o] = @ \cup {j \in jobs : sent[o][j] = Nothing}]
Enqueue(o, jobs) == queued' = [queued EXCEPT ![o] = @ \cup jobs]

(* ok = FALSE is a setting or an SKU that is missing: it is one of the troubles. *)
Made(o, ok) ==
  /\ ok \/ (shop[o].payload = "none" /\ troubles < MaxTroubles)
  /\ troubles' = IF ok THEN troubles ELSE troubles + 1

SetStatus(o, status, ok) ==
  /\ changes < MaxChanges /\ changes' = changes + 1
  /\ status # shop[o].status
  /\ Made(o, ok)
  /\ LET c == Changed([shop[o] EXCEPT !.status = status], ok)
         r == Resumed(c.shop)
     IN /\ shop' = [shop EXCEPT ![o] = r.shop]
        /\ Enqueue(o, c.queue \cup r.queue)
  /\ UNCHANGED <<sent, late, core>>

(* The buyer takes another way to pay while the order is unpaid.             *)
ChangeMethod(o) ==
  /\ changes < MaxChanges /\ changes' = changes + 1
  /\ shop[o].status = "pending" /\ ~shop[o].paid
  /\ shop' = [shop EXCEPT ![o].cod = ~@]
  /\ UNCHANGED <<queued, sent, late, core, troubles>>

PaymentComplete(o) ==
  /\ ~shop[o].invoice
  /\ shop' = [shop EXCEPT ![o].paid = TRUE]
  /\ Enqueue(o, IF shop[o].stopped \/ shop[o].fault \/ shop[o].tries >= MaxTries
                THEN {} ELSE {"order"})
  /\ UNCHANGED <<sent, late, core, changes, troubles>>

ConfirmPayment(o) ==
  /\ ~shop[o].paid /\ shop[o].status \in {"processing", "completed"}
  /\ shop' = [shop EXCEPT ![o].paid = TRUE]
  /\ Enqueue(o, {"order"})
  /\ UNCHANGED <<sent, late, core, changes, troubles>>

(* A human sends again, from a page that may be old.                         *)
SendAgain(o, ok) ==
  /\ changes < MaxChanges /\ changes' = changes + 1
  /\ Made(o, ok)
  /\ LET s == shop[o]
         c == IF Wanted(s) = "none" THEN [shop |-> s, queue |-> {}]
              ELSE Changed([s EXCEPT !.attempts = 0, !.error = FALSE], ok)
     IN /\ shop' = [shop EXCEPT ![o] =
             [c.shop EXCEPT !.tries = 0, !.stopped = FALSE, !.invoice = FALSE]]
        /\ Enqueue(o, c.queue \cup {"order"})
  /\ UNCHANGED <<sent, late, core>>

-----------------------------------------------------------------------------
(* The core.  web_order_reserve answers with what became of the order.       *)
Refusal == "refused"

Reserve(o) ==
  CASE shop[o].payload = "bare" -> Refusal
    [] shop[o].payload # "bare" /\ row[o] = "none" ->
         IF onHand - held >= 1 THEN "reserved" ELSE Refusal
    [] OTHER -> row[o]
Release(o) == IF row[o] = "consumed" THEN "consumed" ELSE "released"

(* wrong: no piece may be missing, but a held one may be sold *)
CoveredByStock(n, h) == n >= 0

(* What is on hand may not fall below what is held for orders.               *)
Covered(n, h) == n >= 0 /\ n >= h

(* 'lock' and 'consume', then the finalization, in one transaction.          *)
HeldAfter(o) == IF row[o] = "reserved" THEN held - 1 ELSE held
(* wrong: the order's row is asked only for what it holds *)
SellableAgain(o, what) ==
  /\ row[o] = "reserved" => what = "cod"
  /\ Covered(onHand - 1, HeldAfter(o))
Sellable(o, what) ==
  /\ row[o] \notin {"released", "consumed"}
  /\ row[o] = "reserved" => what = "cod"
  /\ Covered(onHand - 1, HeldAfter(o))

Ingest(o, what) ==
  IF sold[o] # "none" THEN IF sold[o] = what THEN "consumed" ELSE Refusal
  ELSE IF Sellable(o, what) THEN "consumed" ELSE Refusal

Answer(o, what) ==
  CASE what = "reserve" -> Reserve(o)
    [] what = "release" -> Release(o)
    [] OTHER -> Ingest(o, what)

(* The request is executed: the answer is a, and the rows follow it.          *)
Executes(o, what, a) ==
  IF a = Refusal \/ a = row[o] THEN UNCHANGED core
  ELSE /\ row' = [row EXCEPT ![o] = a]
       /\ held' = IF a = "reserved" THEN held + 1 ELSE HeldAfter(o)
       /\ sold' = IF a = "consumed" THEN [sold EXCEPT ![o] = what] ELSE sold
       /\ onHand' = IF a = "consumed" THEN onHand - 1 ELSE onHand

-----------------------------------------------------------------------------
(* A job runs: it reads the order, and sends a request or has nothing to do.  *)
Asked(o, j) ==
  LET s == shop[o] IN
  IF j = "reservation" THEN IF s.invoice THEN "none" ELSE Wanted(s)
  ELSE IF s.invoice \/ ~Eligible(s) \/ s.stopped \/ s.tries >= MaxTries THEN "none"
  ELSE IF OnReservation(s) THEN "cod" ELSE "plain"
TriesOf(o, j) == IF j = "reservation" THEN shop[o].attempts ELSE shop[o].tries

Resting(o, j) == sent[o][j] = Nothing
RunJob(o, j) ==
  /\ j \in queued[o] /\ Resting(o, j)
  /\ queued' = [queued EXCEPT ![o] = @ \ {j}]
  /\ sent' = IF Asked(o, j) = "none" THEN sent
             ELSE [sent EXCEPT ![o][j] = [what |-> Asked(o, j), n |-> TriesOf(o, j)]]
  /\ UNCHANGED <<shop, late, core, changes, troubles>>

JobEnds(o, j) == sent' = [sent EXCEPT ![o][j] = Nothing]

(* fail: the attempts are those read before the request; what happened to the *)
(* order meanwhile is not looked at.  The order's decision replaces whatever  *)
(* waits in the queue, the reservation's is added to it.                     *)
FailReservation(o, retryable) ==
  LET n == sent[o]["reservation"].n
      again == retryable /\ n + 1 < MaxTries
  IN /\ shop' = [shop EXCEPT ![o] = Failed(@, n)]
     /\ Enqueue(o, IF again THEN {"reservation"} ELSE {})
FailOrder(o, retryable) ==
  LET n == sent[o]["order"].n
      again == retryable /\ n + 1 < MaxTries
  IN /\ shop' = [shop EXCEPT ![o].tries = n + 1, ![o].fault = TRUE,
                             ![o].stopped = @ \/ ~again]
     /\ queued' = [queued EXCEPT ![o] = IF again THEN @ \cup {"order"} ELSE @ \ {"order"}]
Fail(o, j, retryable) ==
  IF j = "order" THEN FailOrder(o, retryable) ELSE FailReservation(o, retryable)

(* wrong: the answer is taken for what was asked *)
NotedAsAsked(o, j, a) ==
  shop' = [shop EXCEPT ![o] =
    IF j = "order" THEN [@ EXCEPT !.invoice = TRUE, !.fault = FALSE]
    ELSE [@ EXCEPT !.state = IF sent[o][j].what = "reserve" THEN "reserved" ELSE "released",
                   !.error = FALSE]]
Noted(o, j, a) ==
  shop' = [shop EXCEPT ![o] =
    IF j = "order" THEN [@ EXCEPT !.invoice = TRUE, !.fault = FALSE]
    ELSE [@ EXCEPT !.state = a, !.error = FALSE]]

Answered(o, j) ==
  /\ ~Resting(o, j)
  /\ LET what == sent[o][j].what
         a == Answer(o, what)
     IN /\ Executes(o, what, a)
        /\ IF a = Refusal THEN Fail(o, j, FALSE) ELSE Noted(o, j, a) /\ UNCHANGED queued
  /\ JobEnds(o, j)
  /\ UNCHANGED <<late, changes, troubles>>

Trouble == troubles < MaxTroubles /\ troubles' = troubles + 1

(* Refused before the core looks at the order: permission, scope, settings.   *)
TurnedAway(o, j) ==
  /\ ~Resting(o, j) /\ Trouble
  /\ Fail(o, j, FALSE) /\ JobEnds(o, j)
  /\ UNCHANGED <<late, core, changes>>

(* No answer in time, or one that says nothing.                              *)
Unanswered(o, j) ==
  /\ ~Resting(o, j) /\ Trouble
  /\ late' = late \cup {<<o, sent[o][j].what>>}
  /\ Fail(o, j, TRUE) /\ JobEnds(o, j)
  /\ UNCHANGED <<core, changes>>

(* The run dies and is queued again.                                        *)
RunDies(o, j) ==
  /\ ~Resting(o, j) /\ Trouble
  /\ late' = late \cup {<<o, sent[o][j].what>>}
  /\ Enqueue(o, {j}) /\ JobEnds(o, j)
  /\ UNCHANGED <<shop, core, changes>>

Late(o, what) ==
  /\ <<o, what>> \in late
  /\ Executes(o, what, Answer(o, what))
  /\ UNCHANGED <<shop, queued, sent, late, changes, troubles>>

-----------------------------------------------------------------------------
(* Elsewhere: a piece is sold over the counter, or bought.                   *)
ShelfSale ==
  /\ Covered(onHand - 1, held) /\ onHand' = onHand - 1
  /\ UNCHANGED <<shop, queued, sent, late, row, sold, held, changes, troubles>>
Arrival ==
  /\ onHand < MaxStock /\ onHand' = onHand + 1
  /\ UNCHANGED <<shop, queued, sent, late, row, sold, held, changes, troubles>>

ShopSteps(o) ==
  \/ \E status \in Statuses, ok \in BOOLEAN : SetStatus(o, status, ok)
  \/ \E ok \in BOOLEAN : SendAgain(o, ok)
  \/ ChangeMethod(o) \/ PaymentComplete(o) \/ ConfirmPayment(o)
JobSteps(o, j) ==
  \/ RunJob(o, j) \/ Answered(o, j) \/ TurnedAway(o, j) \/ Unanswered(o, j) \/ RunDies(o, j)

WebOrdersNext ==
  \/ \E o \in Orders : \/ ShopSteps(o)
                       \/ \E j \in JobKinds : JobSteps(o, j)
                       \/ \E what \in Kinds : Late(o, what)
  \/ ShelfSale \/ Arrival

WebOrdersSpec == WebOrdersInit /\ [][WebOrdersNext]_wovars

-----------------------------------------------------------------------------
Busy(o, j) == j \in queued[o] \/ ~Resting(o, j)

(* The pieces held are those of the reserved orders, one each, and the shelf  *)
(* has them, whatever is sold, released or sent again (092:17-30).           *)
HoldsAreCovered ==
  /\ held = Cardinality({o \in Orders : row[o] = "reserved"})
  /\ held <= onHand

(* A released order is never reserved again or sold, a sold one never released *)
(* or sold again, in whatever order its requests arrive (092:63-70).          *)
OneFate ==
  [][\A o \in Orders : row[o] \in {"released", "consumed"} =>
       row'[o] = row[o] /\ sold'[o] = sold[o]]_core

(* A cancelled order holds no piece that nobody is about to release and no    *)
(* error tells of (class-lmc-order-reservation.php:32-49).                   *)
NoSilentHold ==
  \A o \in Orders :
    shop[o].status = "cancelled" /\ row[o] = "reserved" /\ ~shop[o].invoice =>
      Busy(o, "reservation") \/ shop[o].error

(* A paid order that may be sent is sent, is about to be, or shows an error    *)
(* (class-lmc-order-sync.php:95-119).                                       *)
NoSilentSale ==
  \A o \in Orders :
    Eligible(shop[o]) /\ ~shop[o].invoice => Busy(o, "order") \/ shop[o].fault

(* What the shop shows as reserved is reserved or sold, unless a release that *)
(* nobody waited for came through (class-lmc-order-reservation.php:122-135).  *)
ShownIsHeld ==
  \A o \in Orders :
    /\ shop[o].state = "reserved" /\ Wanted(shop[o]) = "reserve"
    /\ ~Busy(o, "reservation") /\ ~shop[o].error /\ <<o, "release">> \notin late
    => row[o] \in {"reserved", "consumed"}
=============================================================================
