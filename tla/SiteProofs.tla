----------------------------- MODULE SiteProofs ------------------------------
(* Proofs about the connector on the shop's site: about WebOrders for any     *)
(* orders, stock and number of troubles, about SiteQueue for any processes,   *)
(* rows, failures and requests.                                             *)
EXTENDS WebOrders, SiteQueue, FiniteSetTheorems, WellFoundedInduction, TLAPS

USE DEF core, wovars

-----------------------------------------------------------------------------
(* What the hooks leave of an order and queue for it is an order and jobs.   *)
LEMMA FailedShape ==
  ASSUME NEW s \in Shops, NEW n \in Nat
  PROVE  Failed(s, n) \in Shops
<1> DEFINE m == n + 1
<1>1. m \in Nat
  OBVIOUS
<1> HIDE DEF m
<1>2. [s EXCEPT !.attempts = m, !.error = TRUE] \in Shops
  BY <1>1 DEF Shops
<1> QED
  BY <1>2 DEF Failed, m

LEMMA PayloadShape ==
  ASSUME NEW s \in Shops
  PROVE  FirstPayload(s) \in Shops
BY DEF FirstPayload, Shops

LEMMA ChangedShape ==
  ASSUME NEW s \in Shops, NEW ok \in BOOLEAN
  PROVE  Changed(s, ok).shop \in Shops /\ Changed(s, ok).queue \subseteq JobKinds
<1> DEFINE x == IF s.action = Wanted(s) THEN s
                ELSE [s EXCEPT !.action = Wanted(s), !.attempts = 0, !.error = FALSE]
<1>1. Wanted(s) \in {"none", "reserve", "release"}
  BY DEF Wanted
<1>2. x \in Shops
  <2> DEFINE w == Wanted(s)
  <2> HIDE DEF w
  <2>1. [s EXCEPT !.action = w, !.attempts = 0, !.error = FALSE] \in Shops
    BY <1>1 DEF Shops, w
  <2> QED
    BY <2>1 DEF w
<1>3. x.attempts \in Nat
  BY <1>2 DEF Shops
<1> HIDE DEF x
<1>4. Failed(x, x.attempts) \in Shops /\ FirstPayload(x) \in Shops
  BY <1>2, <1>3, FailedShape, PayloadShape
<1>5. Changed(s, ok) \in {[shop |-> s, queue |-> {}], [shop |-> x, queue |-> {}],
                          [shop |-> Failed(x, x.attempts), queue |-> {}],
                          [shop |-> FirstPayload(x), queue |-> {"reservation"}]}
  BY DEF Changed, x
<1> QED
  BY <1>2, <1>4, <1>5 DEF JobKinds

LEMMA ResumedShape ==
  ASSUME NEW s \in Shops
  PROVE  Resumed(s).shop \in Shops /\ Resumed(s).queue \subseteq JobKinds
BY DEF Resumed, Shops, JobKinds, OnReservation

LEMMA EnqueueShape ==
  ASSUME WebOrdersTypeOK, NEW o \in Orders, NEW jobs \in SUBSET JobKinds, Enqueue(o, jobs)
  PROVE  queued' \in [Orders -> SUBSET JobKinds]
BY DEF WebOrdersTypeOK, Enqueue

(* A change of one order's meta. *)
LEMMA ShopShape ==
  ASSUME WebOrdersTypeOK, NEW o \in Orders, NEW s \in Shops,
         shop' = [shop EXCEPT ![o] = s]
  PROVE  shop' \in [Orders -> Shops]
BY DEF WebOrdersTypeOK

LEMMA OneMeta ==
  ASSUME WebOrdersTypeOK, NEW o \in Orders
  PROVE  /\ [shop EXCEPT ![o].cod = ~@] \in [Orders -> Shops]
         /\ [shop EXCEPT ![o].paid = TRUE] \in [Orders -> Shops]
<1>1. shop \in [Orders -> Shops] /\ shop[o] \in Shops
  BY DEF WebOrdersTypeOK
<1>2. [shop[o] EXCEPT !.cod = ~@] \in Shops /\ [shop[o] EXCEPT !.paid = TRUE] \in Shops
  BY <1>1 DEF Shops
<1> QED
  BY <1>1, <1>2

-----------------------------------------------------------------------------
(* The types of what the site keeps. *)
SiteShapes ==
  /\ shop \in [Orders -> Shops]
  /\ queued \in [Orders -> SUBSET JobKinds]
  /\ sent \in [Orders -> [JobKinds -> Waiting]]
  /\ late \subseteq Orders \X Kinds
  /\ changes \in Nat /\ troubles \in Nat

LEMMA MadeCounts ==
  ASSUME WebOrdersTypeOK, NEW o \in Orders, NEW ok \in BOOLEAN, Made(o, ok)
  PROVE  troubles' \in Nat
BY DEF Made, WebOrdersTypeOK

LEMMA StatusShapes ==
  ASSUME WebOrdersTypeOK, NEW o \in Orders, NEW status \in Statuses, NEW ok \in BOOLEAN,
         SetStatus(o, status, ok)
  PROVE  SiteShapes'
<1> DEFINE s == [shop[o] EXCEPT !.status = status]
           c == Changed(s, ok)
           r == Resumed(c.shop)
<1>0. shop[o] \in Shops
  BY DEF WebOrdersTypeOK
<1>1. s \in Shops
  BY <1>0 DEF Shops, Statuses
<1>2. c.shop \in Shops /\ c.queue \subseteq JobKinds
  BY <1>1, ChangedShape
<1>3. r.shop \in Shops /\ r.queue \subseteq JobKinds
  BY <1>2, ResumedShape
<1>4. shop' = [shop EXCEPT ![o] = r.shop] /\ Enqueue(o, c.queue \cup r.queue)
  BY DEF SetStatus
<1> HIDE DEF c, r, s
<1>5. shop' \in [Orders -> Shops] /\ queued' \in [Orders -> SUBSET JobKinds]
  BY <1>2, <1>3, <1>4, ShopShape, EnqueueShape
<1> QED
  BY <1>5, MadeCounts DEF SetStatus, WebOrdersTypeOK, SiteShapes

LEMMA SendAgainShapes ==
  ASSUME WebOrdersTypeOK, NEW o \in Orders, NEW ok \in BOOLEAN, SendAgain(o, ok)
  PROVE  SiteShapes'
<1> DEFINE s == shop[o]
           fresh == [s EXCEPT !.attempts = 0, !.error = FALSE]
           c == IF Wanted(s) = "none" THEN [shop |-> s, queue |-> {}] ELSE Changed(fresh, ok)
           x == [c.shop EXCEPT !.tries = 0, !.stopped = FALSE, !.invoice = FALSE]
<1>0. s \in Shops
  BY DEF WebOrdersTypeOK
<1>1. s \in Shops /\ fresh \in Shops
  BY <1>0 DEF Shops
<1>2. Changed(fresh, ok).shop \in Shops /\ Changed(fresh, ok).queue \subseteq JobKinds
  BY <1>1, ChangedShape
<1>3. c.shop \in Shops /\ c.queue \subseteq JobKinds
  BY <1>1, <1>2
<1>4. shop' = [shop EXCEPT ![o] = x] /\ Enqueue(o, c.queue \cup {"order"})
  BY DEF SendAgain
<1> HIDE DEF c, s, fresh
<1>5. x \in Shops
  BY <1>3 DEF Shops
<1>6. c.queue \cup {"order"} \in SUBSET JobKinds
  BY <1>3 DEF JobKinds
<1> HIDE DEF x
<1>7. shop' \in [Orders -> Shops] /\ queued' \in [Orders -> SUBSET JobKinds]
  BY <1>4, <1>5, <1>6, ShopShape, EnqueueShape
<1> QED
  BY <1>7, MadeCounts DEF SendAgain, WebOrdersTypeOK, SiteShapes

LEMMA ShopShapes ==
  ASSUME WebOrdersTypeOK, NEW o \in Orders, ShopSteps(o)
  PROVE  SiteShapes'
<1>1. CASE \E status \in Statuses, ok \in BOOLEAN : SetStatus(o, status, ok)
  BY <1>1, StatusShapes
<1>2. CASE \E ok \in BOOLEAN : SendAgain(o, ok)
  BY <1>2, SendAgainShapes
<1>3. CASE ChangeMethod(o)
  <2>1. shop' \in [Orders -> Shops]
    BY <1>3, OneMeta DEF ChangeMethod
  <2> QED
    BY <1>3, <2>1 DEF ChangeMethod, WebOrdersTypeOK, SiteShapes
<1>4. CASE PaymentComplete(o)
  <2>1. shop' \in [Orders -> Shops]
    BY <1>4, OneMeta DEF PaymentComplete
  <2>2. queued' \in [Orders -> SUBSET JobKinds]
    BY <1>4 DEF PaymentComplete, Enqueue, WebOrdersTypeOK, JobKinds
  <2> QED
    BY <1>4, <2>1, <2>2 DEF PaymentComplete, WebOrdersTypeOK, SiteShapes
<1>5. CASE ConfirmPayment(o)
  <2>1. shop' \in [Orders -> Shops]
    BY <1>5, OneMeta DEF ConfirmPayment
  <2>2. queued' \in [Orders -> SUBSET JobKinds]
    BY <1>5 DEF ConfirmPayment, Enqueue, WebOrdersTypeOK, JobKinds
  <2> QED
    BY <1>5, <2>1, <2>2 DEF ConfirmPayment, WebOrdersTypeOK, SiteShapes
<1> QED
  BY <1>1, <1>2, <1>3, <1>4, <1>5 DEF ShopSteps

-----------------------------------------------------------------------------
(* A job sends one of the four requests, and ends as it began.               *)
LEMMA SentShape ==
  ASSUME WebOrdersTypeOK, NEW o \in Orders, NEW j \in JobKinds, ~Resting(o, j)
  PROVE  sent[o][j].n \in Nat /\ sent[o][j].what \in Kinds
BY DEF WebOrdersTypeOK, Waiting, Resting

LEMMA EndsShape ==
  ASSUME WebOrdersTypeOK, NEW o \in Orders, NEW j \in JobKinds, JobEnds(o, j)
  PROVE  sent' \in [Orders -> [JobKinds -> Waiting]]
BY DEF WebOrdersTypeOK, JobEnds, Waiting, Nothing

(* What an answer leaves of the order: noted, or a failure and another try.   *)
LEMMA FailShapes ==
  ASSUME WebOrdersTypeOK, NEW o \in Orders, NEW j \in JobKinds, ~Resting(o, j),
         NEW retryable \in BOOLEAN, Fail(o, j, retryable)
  PROVE  shop' \in [Orders -> Shops] /\ queued' \in [Orders -> SUBSET JobKinds]
<1>1. shop \in [Orders -> Shops] /\ shop[o] \in Shops /\ sent[o][j].n \in Nat
  BY SentShape DEF WebOrdersTypeOK
<1>2. CASE j = "order"
  <2> DEFINE n == sent[o]["order"].n
             m == n + 1
             again == retryable /\ n + 1 < MaxTries
  <2>1. m \in Nat
    BY <1>1, <1>2
  <2>2. shop' = [shop EXCEPT ![o].tries = m, ![o].fault = TRUE, ![o].stopped = @ \/ ~again]
    BY <1>2 DEF Fail, FailOrder
  <2>3. queued' \in [Orders -> SUBSET JobKinds]
    BY <1>2 DEF Fail, FailOrder, WebOrdersTypeOK, JobKinds
  <2> HIDE DEF m, again
  <2>4. [shop[o] EXCEPT !.tries = m, !.fault = TRUE, !.stopped = @ \/ ~again] \in Shops
    BY <1>1, <2>1 DEF Shops
  <2>5. shop' = [shop EXCEPT ![o] = [shop[o] EXCEPT !.tries = m, !.fault = TRUE,
                                                    !.stopped = @ \/ ~again]]
    BY <1>1, <2>2 DEF Shops
  <2> QED
    BY <1>1, <2>3, <2>4, <2>5
<1>3. CASE j # "order"
  <2>1. j = "reservation"
    BY <1>3 DEF JobKinds
  <2> DEFINE s == Failed(shop[o], sent[o][j].n)
  <2>2. s \in Shops
    BY <1>1, FailedShape
  <2>3. shop' = [shop EXCEPT ![o] = s]
    BY <1>1, <1>3, <2>1 DEF Fail, FailReservation
  <2> HIDE DEF s
  <2>4. shop' \in [Orders -> Shops]
    BY <1>1, <2>2, <2>3
  <2>5. queued' \in [Orders -> SUBSET JobKinds]
    BY <1>3 DEF Fail, FailReservation, Enqueue, WebOrdersTypeOK, JobKinds
  <2> QED
    BY <2>4, <2>5
<1> QED
  BY <1>2, <1>3

LEMMA NotedShape ==
  ASSUME WebOrdersTypeOK, NEW o \in Orders, NEW j \in JobKinds, NEW a \in Fates,
         Noted(o, j, a)
  PROVE  shop' \in [Orders -> Shops]
<1>1. shop \in [Orders -> Shops] /\ shop[o] \in Shops
  BY DEF WebOrdersTypeOK
<1> DEFINE s == IF j = "order" THEN [shop[o] EXCEPT !.invoice = TRUE, !.fault = FALSE]
                ELSE [shop[o] EXCEPT !.state = a, !.error = FALSE]
<1>2. s \in Shops
  BY <1>1 DEF Shops
<1>3. shop' = [shop EXCEPT ![o] = s]
  BY <1>1 DEF Noted
<1> HIDE DEF s
<1> QED
  BY <1>1, <1>2, <1>3

LEMMA AnswerShape ==
  ASSUME WebOrdersTypeOK, NEW o \in Orders, NEW what
  PROVE  Answer(o, what) \in Fates \cup {Refusal}
BY DEF WebOrdersTypeOK, Answer, Reserve, Release, Ingest, Fates, Refusal

LEMMA JobShapes ==
  ASSUME WebOrdersTypeOK, NEW o \in Orders, NEW j \in JobKinds, JobSteps(o, j)
  PROVE  SiteShapes'
<1>0. ~Resting(o, j) => sent[o][j].n \in Nat /\ sent[o][j].what \in Kinds
  BY SentShape
<1>1. CASE RunJob(o, j)
  <2>1. Asked(o, j) \in Kinds \cup {"none"}
    BY DEF Asked, Wanted, Kinds
  <2>2. TriesOf(o, j) \in Nat
    BY DEF TriesOf, WebOrdersTypeOK, Shops
  <2>3. sent' \in [Orders -> [JobKinds -> Waiting]]
    <3> DEFINE w == [what |-> Asked(o, j), n |-> TriesOf(o, j)]
    <3>1. Asked(o, j) # "none" => w \in Waiting
      BY <2>1, <2>2 DEF Waiting
    <3>2. sent' = IF Asked(o, j) = "none" THEN sent ELSE [sent EXCEPT ![o][j] = w]
      BY <1>1 DEF RunJob
    <3> HIDE DEF w
    <3> QED
      BY <3>1, <3>2 DEF WebOrdersTypeOK
  <2>4. queued' \in [Orders -> SUBSET JobKinds]
    BY <1>1 DEF RunJob, WebOrdersTypeOK
  <2> QED
    BY <1>1, <2>3, <2>4 DEF RunJob, WebOrdersTypeOK, SiteShapes
<1>2. CASE Answered(o, j)
  <2> DEFINE a == Answer(o, sent[o][j].what)
  <2>1. a \in Fates \cup {Refusal}
    BY AnswerShape
  <2>2. CASE a = Refusal
    BY <1>2, <2>2, FailShapes, EndsShape DEF Answered, WebOrdersTypeOK, SiteShapes
  <2>3. CASE a # Refusal
    <3>1. a \in Fates /\ Noted(o, j, a) /\ UNCHANGED queued
      BY <1>2, <2>1, <2>3 DEF Answered
    <3>2. shop' \in [Orders -> Shops]
      BY <3>1, NotedShape
    <3> QED
      BY <1>2, <3>1, <3>2, EndsShape DEF Answered, WebOrdersTypeOK, SiteShapes
  <2> QED
    BY <2>2, <2>3
<1>3. CASE TurnedAway(o, j)
  <2>1. shop' \in [Orders -> Shops] /\ queued' \in [Orders -> SUBSET JobKinds]
    BY <1>3, FailShapes DEF TurnedAway
  <2>2. sent' \in [Orders -> [JobKinds -> Waiting]]
    BY <1>3, EndsShape DEF TurnedAway
  <2> QED
    BY <1>3, <2>1, <2>2 DEF TurnedAway, Trouble, WebOrdersTypeOK, SiteShapes
<1>4. CASE Unanswered(o, j)
  <2>1. shop' \in [Orders -> Shops] /\ queued' \in [Orders -> SUBSET JobKinds]
    BY <1>4, FailShapes DEF Unanswered
  <2>2. sent' \in [Orders -> [JobKinds -> Waiting]]
    BY <1>4, EndsShape DEF Unanswered
  <2> QED
    BY <1>0, <1>4, <2>1, <2>2 DEF Unanswered, Trouble, WebOrdersTypeOK, SiteShapes
<1>5. CASE RunDies(o, j)
  <2>1. queued' \in [Orders -> SUBSET JobKinds]
    BY <1>5, EnqueueShape DEF RunDies
  <2>2. sent' \in [Orders -> [JobKinds -> Waiting]]
    BY <1>5, EndsShape DEF RunDies
  <2> QED
    BY <1>0, <1>5, <2>1, <2>2 DEF RunDies, Trouble, WebOrdersTypeOK, SiteShapes
<1> QED
  BY <1>1, <1>2, <1>3, <1>4, <1>5 DEF JobSteps

-----------------------------------------------------------------------------
(* The rows of the core.  What is sold is consumed: only so is a piece that    *)
(* has left never counted as held.                                          *)
CoreShapes ==
  /\ row \in [Orders -> Fates]
  /\ sold \in [Orders -> {"none", "plain", "cod"}]
  /\ onHand \in Nat /\ held \in Nat

SaleConsumes == \A o \in Orders : sold[o] # "none" => row[o] = "consumed"

WInv == WebOrdersTypeOK /\ SaleConsumes /\ HoldsAreCovered

HeldOrders(r) == {o \in Orders : r[o] = "reserved"}

(* One row changes: what is held grows or shrinks by one, or stays.           *)
LEMMA HeldCount ==
  ASSUME row \in [Orders -> Fates], NEW o \in Orders, NEW a \in Fates,
         row' = [row EXCEPT ![o] = a]
  PROVE  /\ Cardinality(HeldOrders(row)) \in Nat
         /\ a = "reserved" /\ row[o] # "reserved" =>
              Cardinality(HeldOrders(row')) = Cardinality(HeldOrders(row)) + 1
         /\ a # "reserved" /\ row[o] = "reserved" =>
              Cardinality(HeldOrders(row')) = Cardinality(HeldOrders(row)) - 1
         /\ a # "reserved" /\ row[o] # "reserved" =>
              Cardinality(HeldOrders(row')) = Cardinality(HeldOrders(row))
<1> DEFINE H == HeldOrders(row)
<1>1. IsFiniteSet(H)
  BY WebOrdersConstants, FS_Subset DEF HeldOrders
<1>2. Cardinality(H) \in Nat
  BY <1>1, FS_CardinalityType
<1>3. ASSUME a = "reserved", row[o] # "reserved"
      PROVE  Cardinality(HeldOrders(row')) = Cardinality(H) + 1
  <2>1. HeldOrders(row') = H \cup {o} /\ o \notin H
    BY <1>3 DEF HeldOrders
  <2> HIDE DEF H
  <2> QED
    BY <1>1, <2>1, FS_AddElement
<1>4. ASSUME a # "reserved", row[o] = "reserved"
      PROVE  Cardinality(HeldOrders(row')) = Cardinality(H) - 1
  <2>1. HeldOrders(row') = H \ {o} /\ o \in H
    BY <1>4 DEF HeldOrders
  <2> HIDE DEF H
  <2> QED
    BY <1>1, <2>1, FS_RemoveElement
<1>5. ASSUME a # "reserved", row[o] # "reserved"
      PROVE  HeldOrders(row') = H
  BY <1>5 DEF HeldOrders
<1> QED
  BY <1>2, <1>3, <1>4, <1>5

(* The core executes a request of any kind, whenever it comes.               *)
LEMMA ExecutesKeeps ==
  ASSUME WInv, NEW o \in Orders, NEW what \in Kinds, Executes(o, what, Answer(o, what))
  PROVE  /\ CoreShapes' /\ SaleConsumes' /\ HoldsAreCovered'
         /\ \A x \in Orders : row[x] \in {"released", "consumed"} =>
                               row'[x] = row[x] /\ sold'[x] = sold[x]
<1> DEFINE a == Answer(o, what)
<1>1. /\ row \in [Orders -> Fates] /\ sold \in [Orders -> {"none", "plain", "cod"}]
      /\ onHand \in Nat /\ held \in Nat
      /\ held = Cardinality(HeldOrders(row)) /\ held <= onHand
  BY DEF WInv, WebOrdersTypeOK, HoldsAreCovered, HeldOrders
<1>2. sold[o] # "none" => row[o] = "consumed"
  BY DEF WInv, SaleConsumes
<1>3. CASE a = Refusal \/ a = row[o]
  <2>1. UNCHANGED core
    BY <1>3 DEF Executes
  <2> QED
    BY <1>1, <2>1 DEF WInv, CoreShapes, SaleConsumes, HoldsAreCovered
<1>4. CASE a # Refusal /\ a # row[o]
  <2>1. /\ row' = [row EXCEPT ![o] = a]
        /\ held' = IF a = "reserved" THEN held + 1 ELSE HeldAfter(o)
        /\ sold' = IF a = "consumed" THEN [sold EXCEPT ![o] = what] ELSE sold
        /\ onHand' = IF a = "consumed" THEN onHand - 1 ELSE onHand
    BY <1>4 DEF Executes
  (* what may become of a row, and that a sale is covered *)
  <2>2. /\ a \in {"reserved", "released", "consumed"} /\ a \in Fates
        /\ row[o] \in {"none", "reserved"}
        /\ a = "reserved" => row[o] = "none" /\ onHand - held >= 1
        /\ a = "consumed" => what \in {"plain", "cod"} /\ onHand - 1 >= HeldAfter(o)
    <3>1. CASE what = "reserve"
      BY <1>1, <1>4, <3>1 DEF Answer, Reserve, Refusal, Fates
    <3>2. CASE what = "release"
      BY <1>1, <1>4, <3>2 DEF Answer, Release, Refusal, Fates
    <3>3. CASE what \in {"plain", "cod"}
      BY <1>1, <1>2, <1>4, <3>3 DEF Answer, Ingest, Sellable, Covered, Refusal, Fates
    <3> QED
      BY <3>1, <3>2, <3>3 DEF Kinds
  <2>3. HeldAfter(o) = IF row[o] = "reserved" THEN held - 1 ELSE held
    BY DEF HeldAfter
  <2> HIDE DEF a
  <2>4. /\ Cardinality(HeldOrders(row)) \in Nat
        /\ held' = Cardinality(HeldOrders(row'))
    BY <1>1, <2>1, <2>2, <2>3, HeldCount
  <2>5. Cardinality(HeldOrders(row')) \in Nat
    <3>1. IsFiniteSet(HeldOrders(row'))
      BY WebOrdersConstants, FS_Subset DEF HeldOrders
    <3> QED
      BY <3>1, FS_CardinalityType
  <2>6. held' \in Nat /\ onHand' \in Nat /\ held' <= onHand'
    BY <1>1, <2>1, <2>2, <2>3, <2>4, <2>5
  <2>7. CoreShapes'
    BY <1>1, <2>1, <2>2, <2>6 DEF CoreShapes
  <2>8. SaleConsumes'
    BY <1>1, <1>2, <2>1, <2>2 DEF WInv, SaleConsumes
  <2>9. HoldsAreCovered'
    BY <2>4, <2>6 DEF HoldsAreCovered, HeldOrders
  <2> QED
    BY <1>1, <2>1, <2>2, <2>7, <2>8, <2>9
<1> QED
  BY <1>3, <1>4

(* Every step leaves the rows of the core alone, executes one request, or      *)
(* moves a piece that nobody has asked to hold.                             *)
LEMMA CoreMoves ==
  ASSUME WInv, WebOrdersNext
  PROVE  \/ UNCHANGED core
         \/ \E o \in Orders, what \in Kinds : Executes(o, what, Answer(o, what))
         \/ ShelfSale \/ Arrival
<1>1. ASSUME NEW o \in Orders, ShopSteps(o) PROVE UNCHANGED core
  BY <1>1 DEF ShopSteps, SetStatus, SendAgain, ChangeMethod, PaymentComplete, ConfirmPayment
<1>2. ASSUME NEW o \in Orders, NEW j \in JobKinds, JobSteps(o, j)
      PROVE  UNCHANGED core \/ \E what \in Kinds : Executes(o, what, Answer(o, what))
  <2>1. CASE Answered(o, j)
    <3>1. ~Resting(o, j) /\ Executes(o, sent[o][j].what, Answer(o, sent[o][j].what))
      BY <2>1 DEF Answered
    <3>2. sent[o][j].what \in Kinds
      BY <3>1, SentShape DEF WInv
    <3> QED
      BY <3>1, <3>2
  <2>2. CASE ~Answered(o, j)
    BY <1>2, <2>2 DEF JobSteps, RunJob, TurnedAway, Unanswered, RunDies
  <2> QED
    BY <2>1, <2>2
<1>3. ASSUME NEW o \in Orders, NEW what \in Kinds, Late(o, what)
      PROVE  Executes(o, what, Answer(o, what))
  BY <1>3 DEF Late
<1> QED
  BY <1>1, <1>2, <1>3 DEF WebOrdersNext

LEMMA SiteKeeps ==
  ASSUME WInv, WebOrdersNext
  PROVE  SiteShapes'
<1>0. WebOrdersTypeOK
  BY DEF WInv
<1>1. ASSUME NEW o \in Orders, NEW what \in Kinds, Late(o, what) PROVE SiteShapes'
  BY <1>0, <1>1 DEF Late, WebOrdersTypeOK, SiteShapes
<1>2. ASSUME ShelfSale \/ Arrival PROVE SiteShapes'
  BY <1>0, <1>2 DEF ShelfSale, Arrival, WebOrdersTypeOK, SiteShapes
<1> QED
  BY <1>0, <1>1, <1>2, ShopShapes, JobShapes DEF WebOrdersNext

LEMMA CoreKeeps ==
  ASSUME WInv, [WebOrdersNext]_wovars
  PROVE  /\ CoreShapes' /\ SaleConsumes' /\ HoldsAreCovered'
         /\ \A o \in Orders : row[o] \in {"released", "consumed"} =>
                               row'[o] = row[o] /\ sold'[o] = sold[o]
<1>1. CASE UNCHANGED core
  BY <1>1 DEF WInv, WebOrdersTypeOK, CoreShapes, SaleConsumes, HoldsAreCovered
<1>2. CASE \E o \in Orders, what \in Kinds : Executes(o, what, Answer(o, what))
  BY <1>2, ExecutesKeeps
<1>3. CASE ShelfSale \/ Arrival
  <2>1. UNCHANGED <<row, sold, held>> /\ onHand' \in Nat /\ held <= onHand'
    BY <1>3 DEF ShelfSale, Arrival, Covered, WInv, WebOrdersTypeOK, HoldsAreCovered
  <2> QED
    BY <2>1 DEF WInv, WebOrdersTypeOK, CoreShapes, SaleConsumes, HoldsAreCovered
<1> QED
  BY <1>1, <1>2, <1>3, CoreMoves

LEMMA InitWInv == WebOrdersInit => WInv
<1> SUFFICES ASSUME WebOrdersInit PROVE WInv
  OBVIOUS
<1>1. shop \in [Orders -> Shops]
  BY DEF WebOrdersInit, Shops, Statuses, Fates
<1>2. WebOrdersTypeOK
  BY <1>1, WebOrdersConstants DEF WebOrdersInit, WebOrdersTypeOK, Waiting, Fates
<1>3. HeldOrders(row) = {}
  BY DEF WebOrdersInit, HeldOrders
<1>4. held = Cardinality(HeldOrders(row)) /\ held <= onHand
  <2>1. Cardinality(HeldOrders(row)) = 0
    BY <1>3, FS_EmptySet
  <2> QED
    BY <2>1, WebOrdersConstants DEF WebOrdersInit
<1>5. HoldsAreCovered
  BY <1>4 DEF HoldsAreCovered, HeldOrders
<1> QED
  BY <1>2, <1>5 DEF WInv, SaleConsumes, WebOrdersInit

LEMMA NextWInv == WInv /\ [WebOrdersNext]_wovars => WInv'
<1> SUFFICES ASSUME WInv, [WebOrdersNext]_wovars PROVE WInv'
  OBVIOUS
<1>1. SiteShapes'
  <2>1. CASE UNCHANGED wovars
    BY <2>1 DEF WInv, WebOrdersTypeOK, SiteShapes
  <2> QED
    BY <2>1, SiteKeeps
<1> QED
  BY <1>1, CoreKeeps DEF WInv, WebOrdersTypeOK, SiteShapes, CoreShapes

LEMMA WebOrdersInvariance == WebOrdersSpec => []WInv
<1> QED
  BY InitWInv, NextWInv, PTL DEF WebOrdersSpec

(* The orders, their jobs and the rows of the core keep their shapes, for any *)
(* orders, stock, tries and troubles (class-lmc-order-reservation.php,       *)
(* class-lmc-order-sync.php, 092_web_order_reservations.sql).                *)
THEOREM WebOrdersTypeCorrect == WebOrdersSpec => []WebOrdersTypeOK
<1>1. WInv => WebOrdersTypeOK
  BY DEF WInv
<1> QED
  BY <1>1, WebOrdersInvariance, PTL

(* Whatever is reserved, released, sold and sent again, by requests that may   *)
(* come late: what the core holds is one piece for each reserved order, and   *)
(* the shelf has it (092:17-30).                                            *)
THEOREM HeldIsCovered == WebOrdersSpec => []HoldsAreCovered
<1>1. WInv => HoldsAreCovered
  BY DEF WInv
<1> QED
  BY <1>1, WebOrdersInvariance, PTL

(* An order that was released or sold stays so, whatever request of it comes    *)
(* after (092:63-70, 127-158).                                              *)
THEOREM FateIsFinal == WebOrdersSpec => OneFate
<1>1. WInv /\ [WebOrdersNext]_wovars =>
        [\A o \in Orders : row[o] \in {"released", "consumed"} =>
            row'[o] = row[o] /\ sold'[o] = sold[o]]_core
  BY CoreKeeps
<1> QED
  BY <1>1, WebOrdersInvariance, PTL DEF WebOrdersSpec, OneFate
-----------------------------------------------------------------------------
(* What the site knows of one order.  s is what it keeps of the order, q its  *)
(* jobs in the queue, r the request its running job waits for, f the row of   *)
(* the core, l whether a late request of the kind in question may still come.  *)

(* A job asks only for what its kind asks for.                              *)
AsksItsOwn(r, o) == /\ r # Nothing => r.what \in {"reserve", "release"}
                    /\ o # Nothing => o.what \in {"plain", "cod"}

(* An order whose sale was noted or whose request went out once has left the  *)
(* stage it came from: only a sold order is noted as sold, only an order with *)
(* a payload was ever asked for.  As long as it is not sold, a request that   *)
(* is no longer wanted has its successor in the queue with no attempt         *)
(* counted, and a wanted release counts attempts only with the error shown.   *)
Traced(s, q, r, f, l) ==
  /\ s.invoice => f = "consumed"
  /\ s.payload = "none" =>
       "reservation" \notin q /\ r = Nothing /\ ~l /\ f # "reserved"
  /\ f # "consumed" /\ r # Nothing /\ r.what # s.action =>
       "reservation" \in q /\ s.attempts = 0
  /\ f \notin {"released", "consumed"} /\ s.action = "release" /\ ~s.error =>
       s.attempts = 0

(* The action kept is the one the order's status wants, and a wanted release  *)
(* is on its way or its failure is shown.                                   *)
Suits(s, q, r, f) ==
  /\ f # "consumed" /\ Wanted(s) # "none" => s.action = Wanted(s)
  /\ f \notin {"released", "consumed"} /\ Wanted(s) = "release" =>
       "reservation" \in q \/ r # Nothing \/ s.error

(* An order that was tried or stopped shows its fault, and an order that may  *)
(* be sent is sent, is on its way or shows its fault.                       *)
Marked(s) == s.tries # 0 \/ s.stopped => s.fault \/ s.invoice
Pursued(s, q, r) ==
  /\ Marked(s)
  /\ Eligible(s) /\ ~s.invoice => "order" \in q \/ r # Nothing \/ s.fault

(* What the shop shows as reserved is, unless a late release came through.    *)
Shown(s, f, l) == s.state = "reserved" => f \in {"reserved", "consumed"} \/ l

OrderInv(o) ==
  /\ AsksItsOwn(sent[o]["reservation"], sent[o]["order"])
  /\ Traced(shop[o], queued[o], sent[o]["reservation"], row[o], <<o, "reserve">> \in late)
  /\ Suits(shop[o], queued[o], sent[o]["reservation"], row[o])
  /\ Pursued(shop[o], queued[o], sent[o]["order"])
  /\ Shown(shop[o], row[o], <<o, "release">> \in late)

OInv == WInv /\ \A o \in Orders : OrderInv(o)

(* What the hooks decide: nothing for a sold order or one they have no        *)
(* business with; otherwise the wanted action is kept, and the job is queued  *)
(* unless an error is shown or the attempts for that action are used up.      *)
LEMMA ChangedFields ==
  ASSUME NEW s \in Shops, NEW ok \in BOOLEAN,
         NEW t, t = Changed(s, ok).shop, NEW q, q = Changed(s, ok).queue
  PROVE  /\ t.status = s.status /\ t.cod = s.cod /\ t.paid = s.paid
         /\ t.delivered = s.delivered /\ t.state = s.state /\ t.tries = s.tries
         /\ t.fault = s.fault /\ t.stopped = s.stopped /\ t.invoice = s.invoice
         /\ OnReservation(t) <=> OnReservation(s)
         /\ s.payload # "none" => t.payload = s.payload
         /\ \/ t = s /\ q = {} /\ (s.invoice \/ Wanted(s) = "none")
            \/ /\ ~s.invoice /\ Wanted(s) # "none" /\ t.action = Wanted(s)
               /\ \/ /\ q = {} /\ t.error
                     /\ \/ s.payload = "none"
                        \/ s.action = Wanted(s) /\ t.attempts = s.attempts
                  \/ /\ q = {} /\ ~t.error /\ ~s.error /\ s.action = Wanted(s)
                     /\ s.attempts >= MaxTries /\ t = s
                  \/ /\ q = {"reservation"} /\ ~t.error /\ t.payload # "none"
                     /\ IF s.action = Wanted(s) THEN t.attempts = s.attempts /\ ~s.error
                        ELSE t.attempts = 0
<1> DEFINE w == Wanted(s)
           x == IF s.action = w THEN s
                ELSE [s EXCEPT !.action = w, !.attempts = 0, !.error = FALSE]
<1>1. MaxTries \in Nat /\ MaxTries > 0
  BY WebOrdersConstants
<1>2. w \in {"none", "reserve", "release"}
  BY DEF Wanted
<1>3. /\ x.status = s.status /\ x.cod = s.cod /\ x.paid = s.paid
      /\ x.delivered = s.delivered /\ x.state = s.state /\ x.tries = s.tries
      /\ x.fault = s.fault /\ x.stopped = s.stopped /\ x.invoice = s.invoice
      /\ x.payload = s.payload /\ x.action = w
      /\ IF s.action = w THEN x = s ELSE x.attempts = 0 /\ ~x.error
  <2> HIDE DEF w
  <2> QED
    BY DEF Shops
<1>4. x \in Shops
  <2> HIDE DEF w
  <2>1. [s EXCEPT !.action = w, !.attempts = 0, !.error = FALSE] \in Shops
    BY <1>2 DEF Shops
  <2> QED
    BY <2>1
<1>5. w # "none" /\ s.payload = "none" => s.cod
  BY DEF Wanted, OnReservation
<1> HIDE DEF x, w
<1>6. CASE s.invoice \/ w = "none"
  <2>1. t = s /\ q = {}
    BY <1>6 DEF Changed, w
  <2> QED
    BY <1>6, <2>1 DEF w
<1>7. CASE ~s.invoice /\ w # "none" /\ (x.error \/ x.attempts >= MaxTries)
  <2>1. t = x /\ q = {}
    BY <1>1, <1>4, <1>7 DEF Changed, x, w, Shops
  <2>2. x = s /\ s.action = w
    BY <1>1, <1>3, <1>7
  <2> QED
    BY <1>3, <1>7, <2>1, <2>2 DEF Shops, w
<1>8. CASE /\ ~s.invoice /\ w # "none" /\ ~x.error /\ x.attempts < MaxTries
           /\ x.payload = "none" /\ ~ok
  <2>1. t = Failed(x, x.attempts) /\ q = {}
    BY <1>1, <1>4, <1>8 DEF Changed, x, w, Shops
  <2>2. /\ t.status = x.status /\ t.cod = x.cod /\ t.paid = x.paid
        /\ t.delivered = x.delivered /\ t.state = x.state /\ t.tries = x.tries
        /\ t.fault = x.fault /\ t.stopped = x.stopped /\ t.invoice = x.invoice
        /\ t.payload = x.payload /\ t.action = x.action /\ t.error
    BY <1>4, <2>1 DEF Failed, Shops
  <2> QED
    BY <1>3, <1>5, <1>8, <2>1, <2>2 DEF w, OnReservation
<1>9. CASE /\ ~s.invoice /\ w # "none" /\ ~x.error /\ x.attempts < MaxTries
           /\ ~(x.payload = "none" /\ ~ok)
  <2>1. t = FirstPayload(x) /\ q = {"reservation"}
    BY <1>1, <1>4, <1>9 DEF Changed, x, w, Shops
  <2>2. /\ t.status = x.status /\ t.cod = x.cod /\ t.paid = x.paid
        /\ t.delivered = x.delivered /\ t.state = x.state /\ t.tries = x.tries
        /\ t.fault = x.fault /\ t.stopped = x.stopped /\ t.invoice = x.invoice
        /\ t.payload # "none" /\ (x.payload # "none" => t.payload = x.payload)
        /\ t.action = x.action /\ t.error = x.error /\ t.attempts = x.attempts
    BY <1>4, <2>1 DEF FirstPayload, Shops
  <2> QED
    BY <1>3, <1>5, <1>9, <2>1, <2>2 DEF w, OnReservation
<1>10. x.attempts >= MaxTries \/ x.attempts < MaxTries
  BY <1>1, <1>4 DEF Shops
<1> QED
  BY <1>6, <1>7, <1>8, <1>9, <1>10

(* The hook of the order sync only notes the delivery and queues the order.   *)
LEMMA ResumedFields ==
  ASSUME NEW s \in Shops, NEW t, t = Resumed(s).shop, NEW q, q = Resumed(s).queue
  PROVE  /\ t.status = s.status /\ t.cod = s.cod /\ t.paid = s.paid
         /\ t.payload = s.payload /\ t.action = s.action /\ t.attempts = s.attempts
         /\ t.error = s.error /\ t.state = s.state /\ t.tries = s.tries
         /\ t.fault = s.fault /\ t.stopped = s.stopped /\ t.invoice = s.invoice
         /\ q = {} \/ q = {"order"}
         /\ Eligible(t) /\ ~t.invoice /\ ~t.stopped /\ ~t.fault /\ t.tries = 0 => q = {"order"}
<1> DEFINE x == [s EXCEPT !.delivered = @ \/ (s.status = "completed" /\ OnReservation(s))]
<1>1. t = x
  BY DEF Resumed
<1>2. /\ x.status = s.status /\ x.cod = s.cod /\ x.paid = s.paid
      /\ x.payload = s.payload /\ x.action = s.action /\ x.attempts = s.attempts
      /\ x.error = s.error /\ x.state = s.state /\ x.tries = s.tries
      /\ x.fault = s.fault /\ x.stopped = s.stopped /\ x.invoice = s.invoice
  BY DEF Shops
<1>3. q = IF Eligible(x) /\ ~x.invoice /\ ~x.stopped /\ ~x.fault /\ x.tries = 0
          THEN {"order"} ELSE {}
  BY DEF Resumed
<1> HIDE DEF x
<1> QED
  BY <1>1, <1>2, <1>3

(* Whatever the status was changed to, both hooks together settle the order.  *)
LEMMA ReservationHook ==
  ASSUME NEW s \in Shops, NEW ok \in BOOLEAN, NEW q \in SUBSET JobKinds, NEW r \in Waiting,
         NEW f \in Fates, NEW l, Traced(s, q, r, f, l),
         NEW t, t = Changed(s, ok).shop, NEW p, p = Changed(s, ok).queue
  PROVE  Traced(t, q \cup p, r, f, l) /\ Suits(t, q \cup p, r, f)
<1>1. MaxTries \in Nat /\ MaxTries > 0 /\ s.attempts \in Nat
  BY WebOrdersConstants DEF Shops
<1>2. Wanted(t) = Wanted(s)
  BY ChangedFields DEF Wanted
<1>3. CASE t = s /\ p = {} /\ (s.invoice \/ Wanted(s) = "none")
  BY <1>2, <1>3 DEF Traced, Suits
<1>4. CASE /\ ~s.invoice /\ Wanted(s) # "none" /\ t.action = Wanted(s)
           /\ p = {} /\ t.error
           /\ \/ s.payload = "none"
              \/ s.action = Wanted(s) /\ t.attempts = s.attempts
  <2>1. t.invoice = s.invoice /\ (s.payload # "none" => t.payload = s.payload)
    BY ChangedFields
  <2> QED
    BY <1>2, <1>4, <2>1 DEF Traced, Suits
<1>5. CASE /\ p = {} /\ ~t.error /\ ~s.error /\ s.action = Wanted(s)
           /\ s.attempts >= MaxTries /\ t = s
  BY <1>1, <1>2, <1>5 DEF Traced, Suits
<1>6. CASE /\ ~s.invoice /\ Wanted(s) # "none" /\ t.action = Wanted(s)
           /\ p = {"reservation"} /\ ~t.error /\ t.payload # "none"
           /\ IF s.action = Wanted(s) THEN t.attempts = s.attempts /\ ~s.error
              ELSE t.attempts = 0
  <2>1. t.invoice = s.invoice
    BY ChangedFields
  <2> QED
    BY <1>2, <1>6, <2>1 DEF Traced, Suits
<1> QED
  BY <1>3, <1>4, <1>5, <1>6, ChangedFields

LEMMA OrderHook ==
  ASSUME NEW s \in Shops, Marked(s), NEW q \in SUBSET JobKinds,
         NEW r \in Waiting, NEW o \in Waiting, NEW f \in Fates, NEW l,
         Traced(s, q, r, f, l), Suits(s, q, r, f),
         NEW t, t = Resumed(s).shop, NEW p, p = Resumed(s).queue
  PROVE  Traced(t, q \cup p, r, f, l) /\ Suits(t, q \cup p, r, f) /\ Pursued(t, q \cup p, o)
<1>1. /\ t.status = s.status /\ t.cod = s.cod /\ t.paid = s.paid
      /\ t.payload = s.payload /\ t.action = s.action /\ t.attempts = s.attempts
      /\ t.error = s.error /\ t.state = s.state /\ t.tries = s.tries
      /\ t.fault = s.fault /\ t.stopped = s.stopped /\ t.invoice = s.invoice
      /\ p = {} \/ p = {"order"}
      /\ Eligible(t) /\ ~t.invoice /\ ~t.stopped /\ ~t.fault /\ t.tries = 0 => p = {"order"}
  BY ResumedFields
<1>2. Wanted(t) = Wanted(s)
  BY <1>1 DEF Wanted, OnReservation
<1>3. Traced(t, q \cup p, r, f, l) /\ Suits(t, q \cup p, r, f)
  BY <1>1, <1>2 DEF Traced, Suits
<1>4. Pursued(t, q \cup p, o)
  BY <1>1 DEF Pursued, Marked
<1> QED
  BY <1>3, <1>4

(* The types a step on one order is reasoned with.                          *)
LEMMA OrderTypes ==
  ASSUME OInv, NEW o \in Orders
  PROVE  /\ shop \in [Orders -> Shops] /\ shop[o] \in Shops
         /\ queued \in [Orders -> SUBSET JobKinds] /\ queued[o] \in SUBSET JobKinds
         /\ sent \in [Orders -> [JobKinds -> Waiting]]
         /\ sent[o]["reservation"] \in Waiting /\ sent[o]["order"] \in Waiting
         /\ row \in [Orders -> Fates] /\ row[o] \in Fates
         /\ OrderInv(o) /\ WebOrdersTypeOK
BY DEF OInv, WInv, WebOrdersTypeOK, JobKinds

LEMMA StatusKeeps ==
  ASSUME OInv, NEW o \in Orders, NEW status \in Statuses, NEW ok \in BOOLEAN,
         SetStatus(o, status, ok)
  PROVE  OrderInv(o)'
<1>0. OInv /\ OrderInv(o) /\ shop \in [Orders -> Shops] /\ shop[o] \in Shops
      /\ queued \in [Orders -> SUBSET JobKinds] /\ queued[o] \in SUBSET JobKinds
      /\ sent[o]["reservation"] \in Waiting /\ sent[o]["order"] \in Waiting /\ row[o] \in Fates
  BY OrderTypes
<1> DEFINE s0 == [shop[o] EXCEPT !.status = status]
<1>1. PICK s \in Shops : s = s0
  BY <1>0 DEF Shops, Statuses
<1>2. /\ s.payload = shop[o].payload /\ s.action = shop[o].action
      /\ s.attempts = shop[o].attempts /\ s.error = shop[o].error
      /\ s.invoice = shop[o].invoice /\ s.state = shop[o].state
      /\ s.tries = shop[o].tries /\ s.stopped = shop[o].stopped /\ s.fault = shop[o].fault
  BY <1>0, <1>1 DEF Shops
<1>3. PICK t : t = Changed(s, ok).shop
  OBVIOUS
<1>4. PICK p : p = Changed(s, ok).queue
  OBVIOUS
<1>5. t \in Shops /\ p \subseteq JobKinds
  BY <1>3, <1>4, ChangedShape
<1>6. PICK u : u = Resumed(t).shop
  OBVIOUS
<1>7. PICK v : v = Resumed(t).queue
  OBVIOUS
<1>8. shop'[o] = u /\ queued'[o] = (queued[o] \cup p) \cup v
  BY <1>0, <1>1, <1>3, <1>4, <1>6, <1>7 DEF SetStatus, Enqueue
<1>9. /\ sent' = sent /\ late' = late /\ row' = row
  BY DEF SetStatus
<1> HIDE DEF s0
<1>10. Traced(s, queued[o], sent[o]["reservation"], row[o], <<o, "reserve">> \in late)
  BY <1>0, <1>2 DEF OrderInv, Traced
<1>11. /\ Traced(t, queued[o] \cup p, sent[o]["reservation"], row[o], <<o, "reserve">> \in late)
       /\ Suits(t, queued[o] \cup p, sent[o]["reservation"], row[o])
  BY <1>0, <1>3, <1>4, <1>10, ReservationHook
<1>12. /\ t.state = s.state /\ t.tries = s.tries /\ t.fault = s.fault
       /\ t.stopped = s.stopped /\ t.invoice = s.invoice
  BY <1>3, <1>4, ChangedFields
<1>13. Marked(t)
  BY <1>0, <1>2, <1>12 DEF OrderInv, Pursued, Marked
<1>14. /\ Traced(u, (queued[o] \cup p) \cup v, sent[o]["reservation"], row[o],
                 <<o, "reserve">> \in late)
       /\ Suits(u, (queued[o] \cup p) \cup v, sent[o]["reservation"], row[o])
       /\ Pursued(u, (queued[o] \cup p) \cup v, sent[o]["order"])
  <2>1. PICK w \in SUBSET JobKinds : w = queued[o] \cup p
    BY <1>0, <1>5
  <2>2. PICK l : l = (<<o, "reserve">> \in late)
    OBVIOUS
  <2>3. /\ Traced(t, w, sent[o]["reservation"], row[o], l)
        /\ Suits(t, w, sent[o]["reservation"], row[o])
    BY <1>11, <2>1, <2>2
  <2>4. /\ Traced(u, w \cup v, sent[o]["reservation"], row[o], l)
        /\ Suits(u, w \cup v, sent[o]["reservation"], row[o])
        /\ Pursued(u, w \cup v, sent[o]["order"])
    <3>1. sent[o]["reservation"] \in Waiting /\ sent[o]["order"] \in Waiting /\ row[o] \in Fates
      BY <1>0
    <3> QED
      BY <1>5, <1>6, <1>7, <1>13, <2>3, <3>1, OrderHook
  <2> QED
    BY <2>1, <2>2, <2>4
<1>15. Shown(u, row[o], <<o, "release">> \in late)
  <2>1. u.state = t.state
    BY <1>5, <1>6, <1>7, ResumedFields
  <2> QED
    BY <1>0, <1>2, <1>12, <2>1 DEF OrderInv, Shown
<1> QED
  BY <1>0, <1>8, <1>9, <1>14, <1>15 DEF OrderInv

LEMMA SendAgainKeeps ==
  ASSUME OInv, NEW o \in Orders, NEW ok \in BOOLEAN, SendAgain(o, ok)
  PROVE  OrderInv(o)'
<1>0. OInv /\ OrderInv(o) /\ shop \in [Orders -> Shops] /\ shop[o] \in Shops
      /\ queued \in [Orders -> SUBSET JobKinds] /\ queued[o] \in SUBSET JobKinds
      /\ sent[o]["reservation"] \in Waiting /\ sent[o]["order"] \in Waiting /\ row[o] \in Fates
  BY OrderTypes
<1>1. sent' = sent /\ late' = late /\ row' = row
  BY DEF SendAgain
<1>2. PICK s \in Shops : s = [shop[o] EXCEPT !.attempts = 0, !.error = FALSE]
  BY <1>0 DEF Shops
<1>3. /\ s.payload = shop[o].payload /\ s.action = shop[o].action /\ s.attempts = 0
      /\ ~s.error /\ s.invoice = shop[o].invoice /\ s.state = shop[o].state
  BY <1>0, <1>2 DEF Shops
<1>4. PICK t : t = IF Wanted(shop[o]) = "none" THEN shop[o] ELSE Changed(s, ok).shop
  OBVIOUS
<1>5. PICK p : p = IF Wanted(shop[o]) = "none" THEN {} ELSE Changed(s, ok).queue
  OBVIOUS
<1>6. t \in Shops /\ p \subseteq JobKinds
  BY <1>0, <1>4, <1>5, ChangedShape
<1>7. PICK u : u = [t EXCEPT !.tries = 0, !.stopped = FALSE, !.invoice = FALSE]
  OBVIOUS
<1>8. shop'[o] = u /\ queued'[o] = queued[o] \cup (p \cup {"order"})
  BY <1>0, <1>2, <1>4, <1>5, <1>7 DEF SendAgain, Enqueue
<1>9. /\ u.status = t.status /\ u.cod = t.cod /\ u.payload = t.payload
      /\ u.action = t.action /\ u.attempts = t.attempts /\ u.error = t.error
      /\ u.state = t.state /\ u.tries = 0 /\ ~u.stopped /\ ~u.invoice
  BY <1>6, <1>7 DEF Shops
<1>10. /\ Traced(t, queued[o] \cup p, sent[o]["reservation"], row[o], <<o, "reserve">> \in late)
       /\ Suits(t, queued[o] \cup p, sent[o]["reservation"], row[o])
       /\ t.state = shop[o].state
  <2>1. CASE Wanted(shop[o]) = "none"
    BY <1>0, <1>4, <1>5, <2>1 DEF OrderInv, Traced, Suits
  <2>2. CASE Wanted(shop[o]) # "none"
    <3>1. Traced(s, queued[o], sent[o]["reservation"], row[o], <<o, "reserve">> \in late)
      BY <1>0, <1>3 DEF OrderInv, Traced
    <3>2. t.state = s.state
      BY <1>4, <2>2, ChangedFields
    <3> QED
      BY <1>0, <1>3, <1>4, <1>5, <2>2, <3>1, <3>2, ReservationHook
  <2> QED
    BY <2>1, <2>2
<1>11. Wanted(u) = Wanted(t)
  BY <1>9 DEF Wanted, OnReservation
<1>12. /\ Traced(u, queued[o] \cup (p \cup {"order"}), sent[o]["reservation"], row[o],
                 <<o, "reserve">> \in late)
       /\ Suits(u, queued[o] \cup (p \cup {"order"}), sent[o]["reservation"], row[o])
  BY <1>9, <1>10, <1>11 DEF Traced, Suits
<1>13. Pursued(u, queued[o] \cup (p \cup {"order"}), sent[o]["order"])
  BY <1>9 DEF Pursued, Marked
<1>14. Shown(u, row[o], <<o, "release">> \in late)
  BY <1>0, <1>9, <1>10 DEF OrderInv, Shown
<1> QED
  BY <1>0, <1>1, <1>8, <1>12, <1>13, <1>14 DEF OrderInv

LEMMA PaymentKeeps ==
  ASSUME OInv, NEW o \in Orders,
         ChangeMethod(o) \/ PaymentComplete(o) \/ ConfirmPayment(o)
  PROVE  OrderInv(o)'
<1>0. OInv /\ OrderInv(o) /\ shop \in [Orders -> Shops] /\ shop[o] \in Shops
      /\ queued \in [Orders -> SUBSET JobKinds] /\ queued[o] \in SUBSET JobKinds
      /\ sent[o]["reservation"] \in Waiting /\ sent[o]["order"] \in Waiting /\ row[o] \in Fates
  BY OrderTypes
<1>1. sent' = sent /\ late' = late /\ row' = row
  BY DEF ChangeMethod, PaymentComplete, ConfirmPayment
<1>2. CASE ChangeMethod(o)
  <2>1. PICK t : t = [shop[o] EXCEPT !.cod = ~@]
    OBVIOUS
  <2>2. shop'[o] = t /\ queued' = queued /\ shop[o].status = "pending"
    BY <1>0, <1>2, <2>1 DEF ChangeMethod
  <2>3. /\ t.status = "pending" /\ t.payload = shop[o].payload
        /\ t.action = shop[o].action /\ t.attempts = shop[o].attempts
        /\ t.error = shop[o].error /\ t.state = shop[o].state /\ t.tries = shop[o].tries
        /\ t.fault = shop[o].fault /\ t.stopped = shop[o].stopped
        /\ t.invoice = shop[o].invoice
    BY <1>0, <2>1, <2>2 DEF Shops
  <2>4. Wanted(t) = "none" /\ ~Eligible(t)
    BY <2>3 DEF Wanted, Eligible
  <2>5. OrderInv(o)'
    BY <1>0, <1>1, <2>2, <2>3, <2>4
       DEF OrderInv, Traced, Suits, Pursued, Marked, Shown
  <2> QED
    BY <2>5
<1>3. CASE PaymentComplete(o) \/ ConfirmPayment(o)
  <2>1. PICK t : t = [shop[o] EXCEPT !.paid = TRUE]
    OBVIOUS
  <2>2. \/ queued'[o] = queued[o] \cup {"order"}
        \/ /\ queued'[o] = queued[o]
           /\ shop[o].stopped \/ shop[o].fault \/ shop[o].tries >= MaxTries
    BY <1>0, <1>3 DEF PaymentComplete, ConfirmPayment, Enqueue
  <2>3. shop'[o] = t
    BY <1>0, <1>3, <2>1 DEF PaymentComplete, ConfirmPayment
  <2>4. /\ t.status = shop[o].status /\ t.cod = shop[o].cod /\ t.payload = shop[o].payload
        /\ t.action = shop[o].action /\ t.attempts = shop[o].attempts
        /\ t.error = shop[o].error /\ t.state = shop[o].state /\ t.tries = shop[o].tries
        /\ t.fault = shop[o].fault /\ t.stopped = shop[o].stopped
        /\ t.invoice = shop[o].invoice
    BY <1>0, <2>1 DEF Shops
  <2>5. Wanted(t) = Wanted(shop[o])
    BY <2>4 DEF Wanted, OnReservation
  <2>6. shop[o].tries \in Nat /\ MaxTries \in Nat /\ MaxTries > 0
    BY <1>0, WebOrdersConstants DEF Shops
  <2>7. Pursued(t, queued'[o], sent[o]["order"])
    BY <1>0, <2>2, <2>4, <2>6 DEF OrderInv, Pursued, Marked
  <2>8. /\ Traced(t, queued'[o], sent[o]["reservation"], row[o], <<o, "reserve">> \in late)
        /\ Suits(t, queued'[o], sent[o]["reservation"], row[o])
        /\ Shown(t, row[o], <<o, "release">> \in late)
    BY <1>0, <2>2, <2>4, <2>5 DEF OrderInv, Traced, Suits, Shown
  <2> QED
    BY <1>0, <1>1, <2>3, <2>7, <2>8 DEF OrderInv
<1> QED
  BY <1>2, <1>3

(* A run takes its job from the queue: it asks for what is wanted, or there    *)
(* is nothing left to do.                                                   *)
LEMMA RunKeeps ==
  ASSUME OInv, NEW o \in Orders, NEW j \in JobKinds, RunJob(o, j)
  PROVE  OrderInv(o)'
<1>0. OInv /\ OrderInv(o) /\ shop[o] \in Shops
      /\ queued \in [Orders -> SUBSET JobKinds] /\ queued[o] \in SUBSET JobKinds
      /\ sent \in [Orders -> [JobKinds -> Waiting]]
  BY OrderTypes
<1> DEFINE r == [what |-> Asked(o, j), n |-> TriesOf(o, j)]
<1>1. /\ shop' = shop /\ late' = late /\ row' = row /\ j \in queued[o]
      /\ queued'[o] = queued[o] \ {j} /\ sent[o][j] = Nothing
      /\ \A k \in JobKinds : k # j => sent'[o][k] = sent[o][k]
      /\ sent'[o][j] = IF Asked(o, j) = "none" THEN Nothing ELSE r
  BY <1>0 DEF RunJob, Resting
<1>2. r.what = Asked(o, j) /\ (Asked(o, j) # "none" => r # Nothing)
  BY DEF Nothing
<1> HIDE DEF r
<1>3. MaxTries \in Nat /\ MaxTries > 0 /\ shop[o].tries \in Nat
  BY <1>0, WebOrdersConstants DEF Shops
<1>4. CASE j = "reservation"
  <2>1. /\ sent'[o]["order"] = sent[o]["order"] /\ queued'[o] = queued[o] \ {"reservation"}
        /\ sent[o]["reservation"] = Nothing /\ "reservation" \in queued[o]
        /\ sent'[o]["reservation"] = IF Asked(o, j) = "none" THEN Nothing ELSE r
    BY <1>1, <1>4 DEF JobKinds
  <2>2. Asked(o, j) = IF shop[o].invoice THEN "none" ELSE Wanted(shop[o])
    BY <1>4 DEF Asked
  <2>3. Wanted(shop[o]) \in {"none", "reserve", "release"}
    BY DEF Wanted
  <2>4. AsksItsOwn(sent'[o]["reservation"], sent'[o]["order"])
    BY <1>0, <1>2, <2>1, <2>2, <2>3 DEF OrderInv, AsksItsOwn
  <2>5. Traced(shop[o], queued'[o], sent'[o]["reservation"], row[o], <<o, "reserve">> \in late)
    BY <1>0, <1>2, <2>1, <2>2 DEF OrderInv, Traced, Suits
  <2>6. Suits(shop[o], queued'[o], sent'[o]["reservation"], row[o])
    BY <1>0, <1>2, <2>1, <2>2 DEF OrderInv, Traced, Suits
  <2>7. Pursued(shop[o], queued'[o], sent'[o]["order"])
    BY <1>0, <2>1 DEF OrderInv, Pursued
  <2> QED
    BY <1>0, <1>1, <2>4, <2>5, <2>6, <2>7 DEF OrderInv
<1>5. CASE j = "order"
  <2>1. /\ sent'[o]["reservation"] = sent[o]["reservation"]
        /\ queued'[o] = queued[o] \ {"order"}
        /\ sent'[o]["order"] = IF Asked(o, j) = "none" THEN Nothing ELSE r
    BY <1>1, <1>5 DEF JobKinds
  <2>2. /\ Asked(o, j) \in {"none", "plain", "cod"}
        /\ Asked(o, j) = "none" => \/ shop[o].invoice \/ ~Eligible(shop[o])
                                   \/ shop[o].stopped \/ shop[o].tries >= MaxTries
    BY <1>5 DEF Asked
  <2>3. AsksItsOwn(sent'[o]["reservation"], sent'[o]["order"])
    BY <1>0, <1>2, <2>1, <2>2 DEF OrderInv, AsksItsOwn
  <2>4. Traced(shop[o], queued'[o], sent'[o]["reservation"], row[o], <<o, "reserve">> \in late)
    BY <1>0, <2>1 DEF OrderInv, Traced
  <2>5. Suits(shop[o], queued'[o], sent'[o]["reservation"], row[o])
    BY <1>0, <2>1 DEF OrderInv, Suits
  <2>6. Pursued(shop[o], queued'[o], sent'[o]["order"])
    BY <1>0, <1>2, <1>3, <2>1, <2>2 DEF OrderInv, Pursued, Marked
  <2> QED
    BY <1>0, <1>1, <2>3, <2>4, <2>5, <2>6 DEF OrderInv
<1> QED
  BY <1>4, <1>5 DEF JobKinds

(* A run that fails shows the error and may leave its request behind.         *)
LEMMA FailKeeps ==
  ASSUME OInv, NEW o \in Orders, NEW j \in JobKinds, ~Resting(o, j),
         NEW retryable \in BOOLEAN, Fail(o, j, retryable), JobEnds(o, j), row'[o] = row[o],
         late \subseteq late', late' \subseteq late \cup {<<o, sent[o][j].what>>}
  PROVE  OrderInv(o)'
<1>0. OInv /\ OrderInv(o) /\ shop \in [Orders -> Shops] /\ shop[o] \in Shops
      /\ queued \in [Orders -> SUBSET JobKinds] /\ queued[o] \in SUBSET JobKinds
      /\ sent \in [Orders -> [JobKinds -> Waiting]]
  BY OrderTypes
<1>1. /\ sent'[o][j] = Nothing /\ sent[o][j] # Nothing
      /\ \A k \in JobKinds : k # j => sent'[o][k] = sent[o][k]
  BY <1>0 DEF JobEnds, Resting
<1>2. /\ <<o, "reserve">> \in late => <<o, "reserve">> \in late'
      /\ <<o, "release">> \in late => <<o, "release">> \in late'
      /\ <<o, "reserve">> \in late' => <<o, "reserve">> \in late \/ sent[o][j].what = "reserve"
  OBVIOUS
<1>3. sent[o][j].n \in Nat
  BY SentShape DEF OInv, WInv
<1>4. CASE j = "reservation"
  <2>1. PICK n \in Nat : n = sent[o]["reservation"].n
    BY <1>3, <1>4
  <2>2. PICK t : t = [shop[o] EXCEPT !.attempts = n + 1, !.error = TRUE]
    OBVIOUS
  <2>3. /\ shop'[o] = t /\ queued[o] \subseteq queued'[o]
        /\ "order" \in queued'[o] => "order" \in queued[o]
    BY <1>0, <1>4, <2>1, <2>2 DEF Fail, FailReservation, Failed, Enqueue
  <2>4. /\ t.status = shop[o].status /\ t.cod = shop[o].cod /\ t.payload = shop[o].payload
        /\ t.action = shop[o].action /\ t.paid = shop[o].paid
        /\ t.delivered = shop[o].delivered /\ t.error
        /\ t.state = shop[o].state /\ t.tries = shop[o].tries
        /\ t.fault = shop[o].fault /\ t.stopped = shop[o].stopped
        /\ t.invoice = shop[o].invoice
    BY <1>0, <2>2 DEF Shops
  <2>5. sent'[o]["order"] = sent[o]["order"] /\ sent'[o]["reservation"] = Nothing
    BY <1>1, <1>4 DEF JobKinds
  <2>6. Wanted(t) = Wanted(shop[o]) /\ (Eligible(t) <=> Eligible(shop[o]))
    BY <2>4 DEF Wanted, Eligible, OnReservation
  <2>7. shop[o].payload # "none"
    BY <1>0, <1>1, <1>4 DEF OrderInv, Traced
  <2>8. Traced(t, queued'[o], Nothing, row[o], <<o, "reserve">> \in late')
    BY <1>0, <2>4, <2>7 DEF OrderInv, Traced
  <2>9. Suits(t, queued'[o], Nothing, row[o])
    BY <1>0, <2>4, <2>6 DEF OrderInv, Suits
  <2>10. Pursued(t, queued'[o], sent[o]["order"])
    BY <1>0, <2>3, <2>4, <2>6 DEF OrderInv, Pursued, Marked
  <2>11. Shown(t, row[o], <<o, "release">> \in late')
    BY <1>0, <1>2, <2>4 DEF OrderInv, Shown
  <2>12. AsksItsOwn(Nothing, sent[o]["order"])
    BY <1>0 DEF OrderInv, AsksItsOwn
  <2> QED
    BY <2>3, <2>5, <2>8, <2>9, <2>10, <2>11, <2>12 DEF OrderInv
<1>5. CASE j = "order"
  <2> DEFINE again == retryable /\ sent[o]["order"].n + 1 < MaxTries
  <2>1. PICK n \in Nat : n = sent[o]["order"].n
    BY <1>3, <1>5
  <2>2. PICK t : t = [shop[o] EXCEPT !.tries = n + 1, !.fault = TRUE, !.stopped = @ \/ ~again]
    OBVIOUS
  <2>3. shop'[o] = t /\ ("reservation" \in queued'[o] <=> "reservation" \in queued[o])
    <3>1. shop' = [shop EXCEPT ![o].tries = n + 1, ![o].fault = TRUE,
                               ![o].stopped = @ \/ ~again]
      BY <1>5, <2>1 DEF Fail, FailOrder
    <3>2. queued' = [queued EXCEPT ![o] = IF again THEN @ \cup {"order"} ELSE @ \ {"order"}]
      BY <1>5, <2>1 DEF Fail, FailOrder
    <3> HIDE DEF again
    <3>3. shop'[o] = t
      BY <1>0, <2>2, <3>1 DEF Shops
    <3> QED
      BY <1>0, <3>2, <3>3
  <2> HIDE DEF again
  <2>4. /\ t.status = shop[o].status /\ t.cod = shop[o].cod /\ t.payload = shop[o].payload
        /\ t.action = shop[o].action /\ t.attempts = shop[o].attempts
        /\ t.error = shop[o].error /\ t.state = shop[o].state
        /\ t.fault /\ t.invoice = shop[o].invoice
    BY <1>0, <2>2 DEF Shops
  <2>5. sent'[o]["order"] = Nothing /\ sent'[o]["reservation"] = sent[o]["reservation"]
    BY <1>1, <1>5 DEF JobKinds
  <2>6. Wanted(t) = Wanted(shop[o])
    BY <2>4 DEF Wanted, OnReservation
  <2>7. sent[o]["order"].what \in {"plain", "cod"}
    BY <1>0, <1>1, <1>5 DEF OrderInv, AsksItsOwn
  <2>8. <<o, "reserve">> \in late' <=> <<o, "reserve">> \in late
    BY <1>2, <1>5, <2>7
  <2>9. Traced(t, queued'[o], sent[o]["reservation"], row[o], <<o, "reserve">> \in late')
    BY <1>0, <2>3, <2>4, <2>8 DEF OrderInv, Traced
  <2>10. Suits(t, queued'[o], sent[o]["reservation"], row[o])
    BY <1>0, <2>3, <2>4, <2>6 DEF OrderInv, Suits
  <2>11. Pursued(t, queued'[o], Nothing)
    BY <2>4 DEF Pursued, Marked
  <2>12. Shown(t, row[o], <<o, "release">> \in late')
    BY <1>0, <1>2, <2>4 DEF OrderInv, Shown
  <2>13. AsksItsOwn(sent[o]["reservation"], Nothing)
    BY <1>0 DEF OrderInv, AsksItsOwn
  <2> QED
    BY <2>3, <2>5, <2>9, <2>10, <2>11, <2>12, <2>13 DEF OrderInv
<1> QED
  BY <1>4, <1>5 DEF JobKinds

(* A run that dies leaves its request behind and is in the queue again.       *)
LEMMA DyingKeeps ==
  ASSUME OInv, NEW o \in Orders, NEW j \in JobKinds, RunDies(o, j)
  PROVE  OrderInv(o)'
<1>0. OInv /\ OrderInv(o) /\ shop[o] \in Shops
      /\ queued \in [Orders -> SUBSET JobKinds] /\ queued[o] \in SUBSET JobKinds
      /\ sent \in [Orders -> [JobKinds -> Waiting]]
  BY OrderTypes
<1>1. /\ shop' = shop /\ row' = row /\ queued'[o] = queued[o] \cup {j}
      /\ sent'[o][j] = Nothing /\ sent[o][j] # Nothing
      /\ \A k \in JobKinds : k # j => sent'[o][k] = sent[o][k]
  BY <1>0 DEF RunDies, JobEnds, Resting, Enqueue
<1>2. /\ <<o, "release">> \in late => <<o, "release">> \in late'
      /\ <<o, "reserve">> \in late' => <<o, "reserve">> \in late \/ sent[o][j].what = "reserve"
  BY DEF RunDies
<1>3. CASE j = "reservation"
  <2>1. sent'[o]["order"] = sent[o]["order"] /\ sent'[o]["reservation"] = Nothing
    BY <1>1, <1>3 DEF JobKinds
  <2>2. shop[o].payload # "none"
    BY <1>0, <1>1, <1>3 DEF OrderInv, Traced
  <2>3. Traced(shop[o], queued'[o], Nothing, row[o], <<o, "reserve">> \in late')
    BY <1>0, <2>2 DEF OrderInv, Traced
  <2>4. Suits(shop[o], queued'[o], Nothing, row[o])
    BY <1>0, <1>1, <1>3 DEF OrderInv, Suits
  <2> QED
    BY <1>0, <1>1, <1>2, <2>1, <2>3, <2>4
       DEF OrderInv, AsksItsOwn, Pursued, Shown
<1>4. CASE j = "order"
  <2>1. sent'[o]["order"] = Nothing /\ sent'[o]["reservation"] = sent[o]["reservation"]
    BY <1>1, <1>4 DEF JobKinds
  <2>2. sent[o][j].what \in {"plain", "cod"}
    BY <1>0, <1>1, <1>4 DEF OrderInv, AsksItsOwn
  <2>3. Traced(shop[o], queued'[o], sent[o]["reservation"], row[o], <<o, "reserve">> \in late')
    BY <1>0, <1>1, <1>2, <1>4, <2>2 DEF OrderInv, Traced
  <2>4. Pursued(shop[o], queued'[o], Nothing)
    BY <1>0, <1>1, <1>4 DEF OrderInv, Pursued
  <2> QED
    BY <1>0, <1>1, <1>2, <2>1, <2>3, <2>4
       DEF OrderInv, AsksItsOwn, Suits, Shown
<1> QED
  BY <1>3, <1>4 DEF JobKinds

-----------------------------------------------------------------------------
(* What a request may do to its order's row: a release ends it, a reservation *)
(* holds a row that had no fate yet, a sale consumes it.                     *)
LEMMA RowAfter ==
  ASSUME OInv, NEW o \in Orders, NEW what \in Kinds, NEW a, a = Answer(o, what),
         Executes(o, what, a)
  PROVE  /\ row'[o] = IF a = Refusal THEN row[o] ELSE a
         /\ \A x \in Orders : x # o => row'[x] = row[x]
         /\ a = Refusal \/ a \in Fates
         /\ row[o] \in {"released", "consumed"} => row'[o] = row[o]
         /\ what = "release" => a \in {"released", "consumed"}
         /\ what = "reserve" => a \in {Refusal, "reserved", row[o]}
         /\ what \in {"plain", "cod"} => a \in {Refusal, "consumed"}
<1>1. row \in [Orders -> Fates] /\ row[o] \in Fates
  BY OrderTypes
<1>2. a = Refusal \/ a \in Fates
  BY AnswerShape DEF OInv, WInv
<1>3. /\ row'[o] = IF a = Refusal THEN row[o] ELSE a
      /\ \A x \in Orders : x # o => row'[x] = row[x]
  BY <1>1 DEF Executes
<1>4. row[o] \in {"released", "consumed"} => row'[o] = row[o]
  BY ExecutesKeeps DEF OInv
<1>5. what = "release" => a \in {"released", "consumed"}
  BY DEF Answer, Release
<1>6. what = "reserve" => a \in {Refusal, "reserved", row[o]}
  BY <1>1 DEF Answer, Reserve, Fates
<1>7. what \in {"plain", "cod"} => a \in {Refusal, "consumed"}
  BY DEF Answer, Ingest
<1> QED
  BY <1>2, <1>3, <1>4, <1>5, <1>6, <1>7

(* An answer: a refusal fails the job, a result is noted with what became of  *)
(* the row.                                                                 *)
LEMMA AnsweredKeeps ==
  ASSUME OInv, NEW o \in Orders, NEW j \in JobKinds, Answered(o, j)
  PROVE  OrderInv(o)'
<1>0. OInv /\ OrderInv(o) /\ shop \in [Orders -> Shops] /\ shop[o] \in Shops
      /\ queued \in [Orders -> SUBSET JobKinds] /\ queued[o] \in SUBSET JobKinds
      /\ sent \in [Orders -> [JobKinds -> Waiting]]
  BY OrderTypes
<1>1. PICK what \in Kinds : what = sent[o][j].what
  BY SentShape DEF OInv, WInv, Answered
<1>2. PICK a : a = Answer(o, what)
  OBVIOUS
<1>3. Executes(o, what, a) /\ late' = late
  BY <1>1, <1>2 DEF Answered
<1>4. /\ row'[o] = IF a = Refusal THEN row[o] ELSE a
      /\ a = Refusal \/ a \in Fates
      /\ row[o] \in {"released", "consumed"} => row'[o] = row[o]
      /\ what = "release" => a \in {"released", "consumed"}
      /\ what = "reserve" => a \in {Refusal, "reserved", row[o]}
      /\ what \in {"plain", "cod"} => a \in {Refusal, "consumed"}
  BY <1>2, <1>3, RowAfter
<1>5. CASE a = Refusal
  <2>1. Fail(o, j, FALSE) /\ JobEnds(o, j) /\ ~Resting(o, j)
    BY <1>1, <1>2, <1>5 DEF Answered
  <2> QED
    BY <1>3, <1>4, <1>5, <2>1, FailKeeps
<1>6. CASE a # Refusal
  <2>1. Noted(o, j, a) /\ queued' = queued
    BY <1>1, <1>2, <1>6 DEF Answered
  <2>2. /\ sent'[o][j] = Nothing /\ sent[o][j] # Nothing
        /\ \A k \in JobKinds : k # j => sent'[o][k] = sent[o][k]
    BY <1>0 DEF Answered, JobEnds, Resting
  <2>3. CASE j = "reservation"
    <3>1. sent'[o]["order"] = sent[o]["order"] /\ sent'[o]["reservation"] = Nothing
          /\ sent[o]["reservation"] # Nothing /\ sent[o]["reservation"].what = what
      BY <1>1, <2>2, <2>3 DEF JobKinds
    <3>2. PICK t : t = [shop[o] EXCEPT !.state = a, !.error = FALSE]
      OBVIOUS
    <3>3. shop'[o] = t
      BY <1>0, <2>1, <2>3, <3>2 DEF Noted
    <3>4. /\ t.status = shop[o].status /\ t.cod = shop[o].cod /\ t.payload = shop[o].payload
          /\ t.action = shop[o].action /\ t.attempts = shop[o].attempts
          /\ t.paid = shop[o].paid /\ t.delivered = shop[o].delivered
          /\ t.state = a /\ ~t.error /\ t.tries = shop[o].tries /\ t.fault = shop[o].fault
          /\ t.stopped = shop[o].stopped /\ t.invoice = shop[o].invoice
      BY <1>0, <3>2 DEF Shops
    <3>5. Wanted(t) = Wanted(shop[o]) /\ (Eligible(t) <=> Eligible(shop[o]))
      BY <3>4 DEF Wanted, Eligible, OnReservation
    <3>6. what \in {"reserve", "release"} /\ shop[o].payload # "none"
      BY <1>0, <3>1 DEF OrderInv, AsksItsOwn, Traced
    (* an answer that leaves the row open answers a reservation *)
    <3>7. row'[o] \notin {"released", "consumed"} =>
            what = "reserve" /\ row[o] \notin {"released", "consumed"}
      BY <1>4, <1>6, <3>6
    <3>8. Traced(t, queued[o], Nothing, row'[o], <<o, "reserve">> \in late)
      BY <1>0, <1>4, <3>1, <3>4, <3>6, <3>7 DEF OrderInv, Traced
    <3>9. Suits(t, queued[o], Nothing, row'[o])
      BY <1>0, <1>4, <3>1, <3>5, <3>4, <3>7 DEF OrderInv, Traced, Suits
    <3>10. Pursued(t, queued[o], sent[o]["order"])
      BY <1>0, <3>4, <3>5 DEF OrderInv, Pursued, Marked
    <3>11. Shown(t, row'[o], <<o, "release">> \in late)
      BY <1>4, <1>6, <3>4 DEF Shown
    <3>12. AsksItsOwn(Nothing, sent[o]["order"])
      BY <1>0 DEF OrderInv, AsksItsOwn
    <3> QED
      BY <1>3, <2>1, <3>1, <3>3, <3>8, <3>9, <3>10, <3>11, <3>12 DEF OrderInv
  <2>4. CASE j = "order"
    <3>1. sent'[o]["order"] = Nothing /\ sent'[o]["reservation"] = sent[o]["reservation"]
          /\ sent[o]["order"] # Nothing /\ sent[o]["order"].what = what
      BY <1>1, <2>2, <2>4 DEF JobKinds
    <3>2. PICK t : t = [shop[o] EXCEPT !.invoice = TRUE, !.fault = FALSE]
      OBVIOUS
    <3>3. shop'[o] = t
      BY <1>0, <2>1, <2>4, <3>2 DEF Noted
    <3>4. t.payload = shop[o].payload /\ t.state = shop[o].state /\ t.invoice
      BY <1>0, <3>2 DEF Shops
    <3>5. row'[o] = "consumed"
      BY <1>0, <1>4, <1>6, <3>1 DEF OrderInv, AsksItsOwn
    <3>6. Traced(t, queued[o], sent[o]["reservation"], row'[o], <<o, "reserve">> \in late)
      BY <1>0, <3>4, <3>5 DEF OrderInv, Traced
    <3>7. /\ Suits(t, queued[o], sent[o]["reservation"], row'[o])
          /\ Pursued(t, queued[o], Nothing)
          /\ Shown(t, row'[o], <<o, "release">> \in late)
      BY <3>4, <3>5 DEF Suits, Pursued, Marked, Shown
    <3>8. AsksItsOwn(sent[o]["reservation"], Nothing)
      BY <1>0 DEF OrderInv, AsksItsOwn
    <3> QED
      BY <1>3, <2>1, <3>1, <3>3, <3>6, <3>7, <3>8 DEF OrderInv
  <2> QED
    BY <2>3, <2>4 DEF JobKinds
<1> QED
  BY <1>5, <1>6

(* A request that nobody waits for: the site learns nothing of it.            *)
LEMMA LateKeeps ==
  ASSUME OInv, NEW o \in Orders, NEW what \in Kinds, Late(o, what)
  PROVE  OrderInv(o)'
<1>0. OInv /\ OrderInv(o) /\ row[o] \in Fates
  BY OrderTypes
<1>1. PICK a : a = Answer(o, what)
  OBVIOUS
<1>2. /\ <<o, what>> \in late /\ Executes(o, what, a)
      /\ shop' = shop /\ queued' = queued /\ sent' = sent /\ late' = late
  BY <1>1 DEF Late
<1>3. /\ row'[o] = IF a = Refusal THEN row[o] ELSE a
      /\ row[o] \in {"released", "consumed"} => row'[o] = row[o]
      /\ what = "release" => a \in {"released", "consumed"}
      /\ what = "reserve" => a \in {Refusal, "reserved", row[o]}
      /\ what \in {"plain", "cod"} => a \in {Refusal, "consumed"}
  BY <1>1, <1>2, RowAfter
<1>4. what \in {"reserve", "release", "plain", "cod"}
  BY DEF Kinds
<1>5. Traced(shop[o], queued[o], sent[o]["reservation"], row'[o], <<o, "reserve">> \in late)
  BY <1>0, <1>2, <1>3, <1>4 DEF OrderInv, Traced
<1>6. Suits(shop[o], queued[o], sent[o]["reservation"], row'[o])
  BY <1>0, <1>3 DEF OrderInv, Suits
<1>7. Shown(shop[o], row'[o], <<o, "release">> \in late)
  BY <1>0, <1>2, <1>3, <1>4 DEF OrderInv, Shown
<1> QED
  BY <1>0, <1>2, <1>5, <1>6, <1>7 DEF OrderInv

-----------------------------------------------------------------------------
(* A step on one order leaves the others alone. *)
Untouched(o) ==
  /\ shop'[o] = shop[o] /\ queued'[o] = queued[o] /\ sent'[o] = sent[o] /\ row'[o] = row[o]
  /\ \A what \in Kinds : <<o, what>> \in late' <=> <<o, what>> \in late

LEMMA UntouchedKeeps ==
  ASSUME OInv, NEW o \in Orders, Untouched(o)
  PROVE  OrderInv(o)'
<1>1. OrderInv(o)
  BY DEF OInv
<1> QED
  BY <1>1 DEF Untouched, OrderInv, Kinds

LEMMA OthersUntouched ==
  ASSUME OInv, NEW o \in Orders, NEW x \in Orders, x # o,
         \/ ShopSteps(o)
         \/ \E j \in JobKinds : JobSteps(o, j)
         \/ \E what \in Kinds : Late(o, what)
  PROVE  Untouched(x)
<1>1. /\ shop \in [Orders -> Shops] /\ queued \in [Orders -> SUBSET JobKinds]
      /\ sent \in [Orders -> [JobKinds -> Waiting]] /\ row \in [Orders -> Fates]
  BY OrderTypes
<1>2. CASE ShopSteps(o)
  <2>1. shop'[x] = shop[x] /\ queued'[x] = queued[x]
    BY <1>1, <1>2 DEF ShopSteps, SetStatus, SendAgain, ChangeMethod, PaymentComplete,
                      ConfirmPayment, Enqueue
  <2>2. sent' = sent /\ late' = late /\ row' = row
    BY <1>2 DEF ShopSteps, SetStatus, SendAgain, ChangeMethod, PaymentComplete, ConfirmPayment
  <2> QED
    BY <2>1, <2>2 DEF Untouched
<1>3. ASSUME NEW j \in JobKinds, JobSteps(o, j) PROVE Untouched(x)
  <2>1. ASSUME NEW retryable \in BOOLEAN, Fail(o, j, retryable)
        PROVE  shop'[x] = shop[x] /\ queued'[x] = queued[x]
    BY <1>1, <2>1 DEF Fail, FailOrder, FailReservation, Enqueue
  <2>2. ASSUME JobEnds(o, j) PROVE sent'[x] = sent[x]
    BY <1>1, <2>2 DEF JobEnds
  <2>3. CASE RunJob(o, j)
    <3>1. shop' = shop /\ late' = late /\ row' = row /\ queued'[x] = queued[x]
      BY <1>1, <2>3 DEF RunJob
    <3>2. sent'[x] = sent[x]
      BY <1>1, <2>3 DEF RunJob
    <3> QED
      BY <3>1, <3>2 DEF Untouched
  <2>4. CASE Answered(o, j)
    <3> DEFINE what == sent[o][j].what
               a == Answer(o, what)
    <3>1. what \in Kinds
      BY <2>4, SentShape DEF OInv, WInv, Answered
    <3>2. Executes(o, what, a) /\ late' = late /\ JobEnds(o, j)
      BY <2>4 DEF Answered
    <3>3. Fail(o, j, FALSE) \/ (Noted(o, j, a) /\ queued' = queued)
      BY <2>4 DEF Answered
    <3> HIDE DEF a, what
    <3>4. row'[x] = row[x]
      <4>1. a = Answer(o, what)
        BY DEF a
      <4> QED
        BY <3>1, <3>2, <4>1, RowAfter
    <3>5. shop'[x] = shop[x] /\ queued'[x] = queued[x]
      <4>1. CASE Fail(o, j, FALSE)
        BY <2>1, <4>1
      <4>2. CASE Noted(o, j, a) /\ queued' = queued
        BY <1>1, <4>2 DEF Noted
      <4> QED
        BY <3>3, <4>1, <4>2
    <3> QED
      BY <2>2, <3>2, <3>4, <3>5 DEF Untouched
  <2>5. CASE TurnedAway(o, j)
    BY <2>1, <2>2, <2>5 DEF TurnedAway, Untouched
  <2>6. CASE Unanswered(o, j)
    BY <2>1, <2>2, <2>6 DEF Unanswered, Untouched
  <2>7. CASE RunDies(o, j)
    BY <1>1, <2>2, <2>7 DEF RunDies, Untouched, Enqueue
  <2> QED
    BY <1>3, <2>3, <2>4, <2>5, <2>6, <2>7 DEF JobSteps
<1>4. ASSUME NEW what \in Kinds, Late(o, what) PROVE Untouched(x)
  <2> DEFINE a == Answer(o, what)
  <2>1. /\ shop' = shop /\ queued' = queued /\ sent' = sent /\ late' = late
        /\ Executes(o, what, a)
    BY <1>4 DEF Late
  <2>2. row'[x] = row[x]
    BY <2>1, RowAfter
  <2> QED
    BY <2>1, <2>2 DEF Untouched
<1> QED
  BY <1>2, <1>3, <1>4

LEMMA JobsKeep ==
  ASSUME OInv, NEW o \in Orders, NEW j \in JobKinds, JobSteps(o, j)
  PROVE  OrderInv(o)'
<1>1. CASE TurnedAway(o, j)
  <2>1. ~Resting(o, j) /\ Fail(o, j, FALSE) /\ JobEnds(o, j) /\ row' = row /\ late' = late
    BY <1>1 DEF TurnedAway
  <2> QED
    BY <2>1, FailKeeps
<1>2. CASE Unanswered(o, j)
  <2>1. ~Resting(o, j) /\ Fail(o, j, TRUE) /\ JobEnds(o, j) /\ row' = row
        /\ late' = late \cup {<<o, sent[o][j].what>>}
    BY <1>2 DEF Unanswered
  <2> QED
    BY <2>1, FailKeeps
<1> QED
  BY <1>1, <1>2, RunKeeps, AnsweredKeeps, DyingKeeps DEF JobSteps

LEMMA ShopKeeps ==
  ASSUME OInv, NEW o \in Orders, ShopSteps(o)
  PROVE  OrderInv(o)'
BY StatusKeeps, SendAgainKeeps, PaymentKeeps DEF ShopSteps

LEMMA InitOInv == WebOrdersInit => OInv
<1> SUFFICES ASSUME WebOrdersInit PROVE OInv
  OBVIOUS
<1>1. ASSUME NEW o \in Orders PROVE OrderInv(o)
  <2>1. /\ shop[o].status = "pending" /\ shop[o].payload = "none" /\ shop[o].action = "none"
        /\ shop[o].attempts = 0 /\ ~shop[o].invoice /\ shop[o].tries = 0 /\ ~shop[o].stopped
        /\ shop[o].state = "none" /\ ~shop[o].paid
    BY DEF WebOrdersInit
  <2>2. queued[o] = {} /\ late = {} /\ row[o] = "none"
        /\ sent[o]["reservation"] = Nothing /\ sent[o]["order"] = Nothing
    BY DEF WebOrdersInit, JobKinds
  <2>3. Wanted(shop[o]) = "none" /\ ~Eligible(shop[o])
    BY <2>1 DEF Wanted, Eligible
  <2> QED
    BY <2>1, <2>2, <2>3 DEF OrderInv, AsksItsOwn, Traced, Suits, Pursued, Marked, Shown
<1> QED
  BY <1>1, InitWInv DEF OInv

LEMMA NextOInv == OInv /\ [WebOrdersNext]_wovars => OInv'
<1> SUFFICES ASSUME OInv, [WebOrdersNext]_wovars PROVE OInv'
  OBVIOUS
<1>1. WInv'
  BY NextWInv DEF OInv
<1>2. ASSUME NEW x \in Orders PROVE OrderInv(x)'
  <2>1. CASE \E o \in Orders : \/ ShopSteps(o)
                               \/ \E j \in JobKinds : JobSteps(o, j)
                               \/ \E what \in Kinds : Late(o, what)
    <3>1. PICK o \in Orders : \/ ShopSteps(o)
                              \/ \E j \in JobKinds : JobSteps(o, j)
                              \/ \E what \in Kinds : Late(o, what)
      BY <2>1
    <3>2. CASE x = o
      BY <3>1, <3>2, ShopKeeps, JobsKeep, LateKeeps
    <3>3. CASE x # o
      BY <3>1, <3>3, OthersUntouched, UntouchedKeeps
    <3> QED
      BY <3>2, <3>3
  <2>2. CASE ShelfSale \/ Arrival \/ UNCHANGED wovars
    <3>1. Untouched(x)
      BY <2>2 DEF ShelfSale, Arrival, Untouched
    <3> QED
      BY <3>1, UntouchedKeeps
  <2> QED
    BY <2>1, <2>2 DEF WebOrdersNext
<1> QED
  BY <1>1, <1>2 DEF OInv

LEMMA OrdersInvariance == WebOrdersSpec => []OInv
<1> QED
  BY InitOInv, NextOInv, PTL DEF WebOrdersSpec

(* A cancelled order holds no piece that nobody is about to release and no    *)
(* error tells of, whatever hook, run or answer came first                   *)
(* (class-lmc-order-reservation.php:32-49).                                 *)
THEOREM NoHoldIsForgotten == WebOrdersSpec => []NoSilentHold
<1>1. OInv => NoSilentHold
  <2> SUFFICES ASSUME OInv, NEW o \in Orders,
                      shop[o].status = "cancelled", row[o] = "reserved", ~shop[o].invoice
               PROVE  Busy(o, "reservation") \/ shop[o].error
    BY DEF NoSilentHold
  <2>1. shop[o].payload # "none"
    BY DEF OInv, OrderInv, Traced
  <2>2. Wanted(shop[o]) = "release"
    BY <2>1 DEF Wanted, OnReservation
  <2> QED
    BY <2>2 DEF OInv, OrderInv, Suits, Busy, Resting
<1> QED
  BY <1>1, OrdersInvariance, PTL

(* A paid order that may be sent is sent, is about to be, or shows an error,   *)
(* for any orders, tries and troubles (class-lmc-order-sync.php:95-119).     *)
THEOREM NoSaleIsForgotten == WebOrdersSpec => []NoSilentSale
<1>1. OInv => NoSilentSale
  BY DEF OInv, OrderInv, Pursued, NoSilentSale, Busy, Resting
<1> QED
  BY <1>1, OrdersInvariance, PTL

(* What the shop shows as reserved is reserved or sold, unless a release that  *)
(* nobody waited for came through (class-lmc-order-reservation.php:122-135).  *)
THEOREM ReservedIsHeld == WebOrdersSpec => []ShownIsHeld
<1>1. OInv => ShownIsHeld
  BY DEF OInv, OrderInv, Shown, ShownIsHeld
<1> QED
  BY <1>1, OrdersInvariance, PTL

-----------------------------------------------------------------------------
(* What the statements and the decisions make of the database.  Same: only    *)
(* the refused statements were counted.                                     *)
Same(d, x) ==
  /\ x.row = d.row /\ x.cron = d.cron /\ x.e = d.e /\ x.r = d.r /\ x.c = d.c
  /\ x.dead = d.dead /\ x.counted = d.counted /\ x.succ = d.succ

(* Rows are numbered as they are made, at most the newest waits, and it is    *)
(* above the watermark.                                                     *)
Numbering(d) ==
  /\ \A i, j \in Ids : i < j /\ d.row[j] # "none" => d.row[i] # "none"
  /\ \A i, j \in Ids : d.row[i] = "pending" /\ d.row[j] # "none" => j <= i
  /\ \A i \in Ids : d.row[i] = "pending" => i > d.succ
  /\ \A i \in Ids : i <= d.succ => d.row[i] # "none"

(* What is queued or cancelled is no row that runs or has failed.             *)
Steady(d, x) ==
  /\ x.succ = d.succ /\ x.c = d.c
  /\ \A i \in Ids : d.row[i] \in {"running", "failed"} \/ x.row[i] \in {"running", "failed"}
                      => x.row[i] = d.row[i]

Kept(d, x) == x \in Stores /\ Numbering(x) /\ Steady(d, x)

LEMMA IdsType == Ids \subseteq Nat \ {0} /\ Ids \subseteq 0..MaxRows /\ IsFiniteSet(Ids)
<1>1. MaxRows \in Nat
  BY SiteQueueConstants
<1>2. IsFiniteSet(1..MaxRows)
  BY <1>1, FS_Interval
<1> QED
  BY <1>1, <1>2 DEF Ids

LEMMA FirstFree ==
  ASSUME NEW S \in SUBSET Ids, S # {}
  PROVE  Min(S) \in S /\ \A j \in S : Min(S) <= j
<1>1. S \subseteq Nat
  BY IdsType
<1> DEFINE Less == {s \in Nat \X Nat : s[1] < s[2]}
<1>2. \E n \in S : \A m \in S : <<m, n>> \notin Less
  <2>1. IsWellFoundedOn(Less, Nat)
    BY NatLessThanWellFounded DEF OpToRel
  <2> HIDE DEF Less
  <2> QED
    BY <1>1, <2>1, WFMin
<1>3. \A m, n \in Nat : m < n => <<m, n>> \in Less
  OBVIOUS
<1> HIDE DEF Less
<1>4. \A m, n \in Nat : m < n \/ n <= m
  OBVIOUS
<1>5. PICK n \in S : \A m \in S : <<m, n>> \notin Less
  BY <1>2
<1>6. \A m \in S : n <= m
  BY <1>1, <1>3, <1>4, <1>5
<1> QED
  BY <1>5, <1>6 DEF Min

LEMMA RefusedFields ==
  ASSUME NEW d \in Stores, NEW n \in Nat, NEW x \in Refused(d, n)
  PROVE  x \in Stores /\ Same(d, x)
BY DEF Refused, Stores, Same

LEMMA SameKept ==
  ASSUME NEW d \in Stores, NEW x \in Stores, Same(d, x), Numbering(d)
  PROVE  Kept(d, x) /\ (Queued(x) <=> Queued(d))
BY DEF Same, Numbering, Steady, Kept, Queued

LEMMA CancelledFields ==
  ASSUME NEW d \in Stores
  PROVE  /\ Cancelled(d) \in Stores /\ ~Queued(Cancelled(d))
         /\ Cancelled(d).e = d.e /\ Cancelled(d).r = d.r /\ Cancelled(d).c = d.c
         /\ Cancelled(d).dead = d.dead /\ Cancelled(d).counted = d.counted
         /\ Cancelled(d).succ = d.succ
         /\ Numbering(d) => Numbering(Cancelled(d)) /\ Steady(d, Cancelled(d))
<1> DEFINE R == [i \in Ids |-> IF d.row[i] = "pending" THEN "canceled" ELSE d.row[i]]
           x == [d EXCEPT !.cron = FALSE, !.row = R]
<1>1. x = Cancelled(d)
  BY DEF Cancelled, Stores
<1>2. R \in [Ids -> RowStates]
  BY DEF Stores, RowStates
<1>3. \A i \in Ids : R[i] # "pending" /\ (R[i] = "none" <=> d.row[i] = "none")
                     /\ (d.row[i] \in {"running", "failed"} \/ R[i] \in {"running", "failed"}
                           => R[i] = d.row[i])
  OBVIOUS
<1> HIDE DEF R
<1>4. /\ x \in Stores /\ x.row = R /\ ~x.cron /\ x.e = d.e /\ x.r = d.r /\ x.c = d.c
      /\ x.dead = d.dead /\ x.counted = d.counted /\ x.succ = d.succ
  BY <1>2 DEF Stores
<1> HIDE DEF x
<1>5. ~Queued(x)
  BY <1>3, <1>4 DEF Queued
<1>6. Numbering(d) => Numbering(x) /\ Steady(d, x)
  BY <1>3, <1>4 DEF Numbering, Steady
<1> QED
  BY <1>1, <1>4, <1>5, <1>6

(* A row, the event, a marker, the record of a dead job, or nothing.          *)
LEMMA ScheduledFields ==
  ASSUME NEW d \in Stores, Numbering(d), ~Queued(d), NEW op \in {"e", "r"},
         NEW m \in Markers({"retry"}), NEW o \in Scheduled(d, op, m)
  PROVE  /\ Kept(d, o.db) /\ o.db.counted = d.counted
         /\ o.said \in {"queued", "marked", "dead", "lost"}
         /\ o.said = "queued" => Queued(o.db)
         /\ o.said # "queued" => o.db.row = d.row /\ o.db.cron = d.cron
         /\ o.db.dead = (d.dead \/ o.said = "dead")
         /\ o.db.e = IF op = "e" /\ o.said = "marked" THEN m ELSE d.e
         /\ o.db.r = IF op = "r" /\ o.said = "marked" THEN m ELSE d.r
<1> DEFINE free == {i \in Ids : d.row[i] = "none"}
<1>1. free # {}
  BY DEF Scheduled
<1>2. PICK n \in Ids : n = Min(free) /\ d.row[n] = "none" /\ \A j \in free : n <= j
  BY <1>1, FirstFree
<1>3. \/ o = [db |-> [d EXCEPT !.row[n] = "pending"], said |-> "queued"]
      \/ \E x \in Refused(d, 1) : o = [db |-> [x EXCEPT !.cron = TRUE], said |-> "queued"]
      \/ \E x \in Refused(d, 1) : o = [db |-> [x EXCEPT ![op] = m], said |-> "marked"]
      \/ \E x \in Refused(d, 2) : o = [db |-> [x EXCEPT !.dead = TRUE], said |-> "dead"]
      \/ \E x \in Refused(d, 3) : o = [db |-> x, said |-> "lost"]
  BY <1>1, <1>2 DEF Scheduled
<1> HIDE DEF free
<1>4. ASSUME o = [db |-> [d EXCEPT !.row[n] = "pending"], said |-> "queued"]
      PROVE  /\ Kept(d, o.db) /\ o.said = "queued" /\ Queued(o.db)
             /\ o.db.counted = d.counted /\ o.db.dead = d.dead /\ o.db.e = d.e /\ o.db.r = d.r
  <2> DEFINE R == [d.row EXCEPT ![n] = "pending"]
             y == [d EXCEPT !.row = R]
  <2>1. o.db = y /\ o.said = "queued"
    BY <1>4 DEF Stores
  <2>2. R \in [Ids -> RowStates] /\ R[n] = "pending" /\ \A i \in Ids : i # n => R[i] = d.row[i]
    BY DEF Stores, RowStates
  <2> HIDE DEF R
  <2>3. /\ y \in Stores /\ y.row = R /\ y.cron = d.cron /\ y.e = d.e /\ y.r = d.r
        /\ y.c = d.c /\ y.dead = d.dead /\ y.counted = d.counted /\ y.succ = d.succ
    BY <2>2 DEF Stores
  <2> HIDE DEF y
  <2>4. Queued(y)
    BY <2>2, <2>3 DEF Queued
  <2>5. \A j \in Ids : d.row[j] # "none" => j < n
    <3> SUFFICES ASSUME NEW j \in Ids, d.row[j] # "none", ~(j < n) PROVE FALSE
      OBVIOUS
    <3>1. n < j
      BY <1>2, IdsType
    <3> QED
      BY <1>2, <3>1 DEF Numbering
  <2>6. \A j \in Ids : d.row[j] # "pending"
    BY DEF Queued
  <2>7. n > d.succ /\ d.succ \in Nat
    <3>1. d.succ \in Nat /\ n \in Nat
      BY IdsType, SiteQueueConstants DEF Stores
    <3> QED
      BY <1>2, <3>1 DEF Numbering
  <2>8. Numbering(y)
    <3>1. ASSUME NEW i \in Ids, NEW j \in Ids, i < j, R[j] # "none" PROVE R[i] # "none"
      <4>1. CASE j = n
        <5>1. i # n /\ i \in Nat /\ n \in Nat
          BY <3>1, <4>1, IdsType
        <5>2. d.row[i] # "none"
          BY <1>2, <3>1, <4>1, <5>1 DEF free
        <5> QED
          BY <2>2, <5>1, <5>2
      <4>2. CASE j # n
        BY <2>2, <3>1, <4>2 DEF Numbering
      <4> QED
        BY <4>1, <4>2
    <3>2. ASSUME NEW i \in Ids, NEW j \in Ids, R[i] = "pending", R[j] # "none" PROVE j <= i
      BY <2>2, <2>5, <2>6, <3>2, IdsType
    <3>3. ASSUME NEW i \in Ids, R[i] = "pending" PROVE i > d.succ
      BY <2>2, <2>6, <2>7, <3>3
    <3>4. ASSUME NEW i \in Ids, i <= d.succ PROVE R[i] # "none"
      BY <2>2, <3>4 DEF Numbering
    <3> QED
      BY <2>3, <3>1, <3>2, <3>3, <3>4 DEF Numbering
  <2>9. Steady(d, y)
    BY <1>2, <2>2, <2>3 DEF Steady
  <2> QED
    BY <2>1, <2>3, <2>4, <2>8, <2>9 DEF Kept
<1>5. ASSUME NEW x \in Refused(d, 1), o = [db |-> [x EXCEPT !.cron = TRUE], said |-> "queued"]
      PROVE  /\ Kept(d, o.db) /\ o.said = "queued" /\ Queued(o.db)
             /\ o.db.counted = d.counted /\ o.db.dead = d.dead /\ o.db.e = d.e /\ o.db.r = d.r
  <2>1. x \in Stores /\ Same(d, x)
    BY RefusedFields
  <2>2. /\ o.db \in Stores /\ o.db.row = x.row /\ o.db.cron /\ o.db.e = x.e /\ o.db.r = x.r
        /\ o.db.c = x.c /\ o.db.dead = x.dead /\ o.db.counted = x.counted
        /\ o.db.succ = x.succ /\ o.said = "queued"
    BY <1>5, <2>1 DEF Stores
  <2> QED
    BY <2>1, <2>2 DEF Same, Kept, Numbering, Steady, Queued
<1>6. ASSUME NEW x \in Refused(d, 1), o = [db |-> [x EXCEPT ![op] = m], said |-> "marked"]
      PROVE  /\ Kept(d, o.db) /\ o.said = "marked" /\ o.db.row = d.row /\ o.db.cron = d.cron
             /\ o.db.counted = d.counted /\ o.db.dead = d.dead
             /\ o.db.e = IF op = "e" THEN m ELSE d.e
             /\ o.db.r = IF op = "r" THEN m ELSE d.r
  <2>1. x \in Stores /\ Same(d, x)
    BY RefusedFields
  <2>2. m \in {NoMark} \cup Markers({"retry"}) /\ m \in {NoMark} \cup Markers({"retry", "stop"})
    BY DEF Markers
  <2>3. /\ o.db \in Stores /\ o.db.row = x.row /\ o.db.cron = x.cron
        /\ o.db.e = IF op = "e" THEN m ELSE x.e
        /\ o.db.r = IF op = "r" THEN m ELSE x.r
        /\ o.db.c = x.c /\ o.db.dead = x.dead /\ o.db.counted = x.counted
        /\ o.db.succ = x.succ /\ o.said = "marked"
    BY <1>6, <2>1, <2>2 DEF Stores
  <2> QED
    BY <2>1, <2>3 DEF Same, Kept, Numbering, Steady
<1>7. ASSUME NEW x \in Refused(d, 2), o = [db |-> [x EXCEPT !.dead = TRUE], said |-> "dead"]
      PROVE  /\ Kept(d, o.db) /\ o.said = "dead" /\ o.db.row = d.row /\ o.db.cron = d.cron
             /\ o.db.counted = d.counted /\ o.db.dead /\ o.db.e = d.e /\ o.db.r = d.r
  <2>1. x \in Stores /\ Same(d, x)
    BY RefusedFields
  <2>2. /\ o.db \in Stores /\ o.db.row = x.row /\ o.db.cron = x.cron /\ o.db.e = x.e
        /\ o.db.r = x.r /\ o.db.c = x.c /\ o.db.dead /\ o.db.counted = x.counted
        /\ o.db.succ = x.succ /\ o.said = "dead"
    BY <1>7, <2>1 DEF Stores
  <2> QED
    BY <2>1, <2>2 DEF Same, Kept, Numbering, Steady
<1>8. ASSUME NEW x \in Refused(d, 3), o = [db |-> x, said |-> "lost"]
      PROVE  Kept(d, o.db) /\ Same(d, o.db) /\ o.said = "lost"
  BY <1>8, RefusedFields, SameKept
<1>9. d.dead \in BOOLEAN
  BY DEF Stores
<1> QED
  BY <1>3, <1>4, <1>5, <1>6, <1>7, <1>8, <1>9 DEF Same, Stores

LEMMA EnqueuedFields ==
  ASSUME NEW d \in Stores, Numbering(d), NEW floor \in 0..MaxRows, NEW o \in Enqueued(d, floor)
  PROVE  /\ Kept(d, o.db) /\ o.db.counted = d.counted /\ o.db.r = d.r
         /\ o.said \in {"queued", "marked", "dead", "lost"}
         /\ o.said = "queued" => Queued(o.db)
         /\ o.said # "queued" => o.db.row = d.row /\ o.db.cron = d.cron
         /\ o.db.dead = (d.dead \/ o.said = "dead")
         /\ o.db.e = IF o.said = "marked" THEN Retry(floor) ELSE d.e
<1>1. CASE Queued(d)
  <2>1. o.db = d /\ o.said = "queued"
    BY <1>1 DEF Enqueued
  <2>2. Kept(d, d)
    BY DEF Kept, Steady
  <2> QED
    BY <1>1, <2>1, <2>2 DEF Stores
<1>2. CASE ~Queued(d)
  <2>1. o \in Scheduled(d, "e", Retry(floor))
    BY <1>2 DEF Enqueued
  <2>2. Retry(floor) \in Markers({"retry"})
    BY DEF Retry, Markers
  <2> HIDE DEF Retry
  <2> QED
    BY <1>2, <2>1, <2>2, ScheduledFields
<1> QED
  BY <1>1, <1>2

(* A newest decision carried out: what was queued is gone, what it asks for    *)
(* is queued, marked, or the job recorded as dead, or nothing was kept.       *)
LEMMA CarriedOutFields ==
  ASSUME NEW d \in Stores, Numbering(d), NEW m \in Markers({"retry", "stop"}),
         NEW o \in CarriedOut(d, m)
  PROVE  /\ Kept(d, o.db) /\ o.db.counted = d.counted /\ o.db.e = d.e
         /\ o.said \in {"queued", "marked", "dead", "lost"}
         /\ m.kind = "stop" => o.said = "queued" /\ ~Queued(o.db)
         /\ m.kind = "retry" /\ o.said = "queued" => Queued(o.db)
         /\ o.db.dead = (d.dead \/ o.said = "dead")
         /\ o.db.r = IF o.said = "marked" THEN m ELSE d.r
<1> DEFINE x == Cancelled(d)
<1>1. /\ x \in Stores /\ ~Queued(x) /\ x.e = d.e /\ x.r = d.r /\ x.c = d.c
      /\ x.dead = d.dead /\ x.counted = d.counted /\ x.succ = d.succ
      /\ Numbering(x) /\ Steady(d, x)
  BY CancelledFields
<1>2. CASE m.kind = "stop"
  <2>1. o.db = x /\ o.said = "queued"
    BY <1>2 DEF CarriedOut
  <2> HIDE DEF x
  <2> QED
    BY <1>1, <1>2, <2>1 DEF Kept, Stores
<1>3. CASE m.kind # "stop"
  <2>1. m \in Markers({"retry"}) /\ m.kind = "retry"
    BY <1>3 DEF Markers
  <2>2. o \in Scheduled(x, "r", m)
    BY <1>3 DEF CarriedOut
  <2> HIDE DEF x
  <2>3. /\ Kept(x, o.db) /\ o.db.counted = x.counted
        /\ o.said \in {"queued", "marked", "dead", "lost"}
        /\ o.said = "queued" => Queued(o.db)
        /\ o.db.dead = (x.dead \/ o.said = "dead")
        /\ o.db.e = x.e /\ o.db.r = IF o.said = "marked" THEN m ELSE x.r
    BY <1>1, <2>1, <2>2, ScheduledFields
  <2>4. Kept(d, o.db)
    BY <1>1, <2>3 DEF Kept, Steady
  <2> QED
    BY <1>1, <2>1, <2>3, <2>4
<1> QED
  BY <1>2, <1>3

LEMMA AnnouncedFields ==
  ASSUME NEW d \in Stores, NEW m \in Markers({"retry", "stop"})
  PROVE  LET x == Announced(d, m)
         IN /\ x \in Stores /\ x.row = d.row /\ x.cron = d.cron /\ x.e = d.e /\ x.c = d.c
            /\ x.dead = d.dead /\ x.counted = d.counted /\ x.succ = d.succ
            /\ x.r = IF d.r = NoMark THEN NoMark ELSE m
BY DEF Announced, Stores, Markers

LEMMA ClearedFields ==
  ASSUME NEW d \in Stores, NEW x \in Cleared(d, "r")
  PROVE  /\ x \in Stores /\ x.row = d.row /\ x.cron = d.cron /\ x.e = d.e /\ x.c = d.c
         /\ x.dead = d.dead /\ x.counted = d.counted /\ x.succ = d.succ
         /\ x.r \in {NoMark, d.r}
<1>1. CASE x = [d EXCEPT !["r"] = NoMark]
  <2>1. NoMark \in {NoMark} \cup Markers({"retry", "stop"})
    BY SiteQueueConstants DEF NoMark, Markers
  <2> QED
    BY <1>1, <2>1 DEF Stores
<1>2. CASE x \in Refused(d, 1)
  BY <1>2, RefusedFields DEF Same
<1> QED
  BY <1>1, <1>2 DEF Cleared

LEMMA SupersededFields ==
  ASSUME NEW d \in Stores, Numbering(d), NEW m \in Markers({"retry", "stop"}),
         NEW o \in Superseded(d, m)
  PROVE  /\ Kept(d, o.db) /\ o.db.counted = d.counted /\ o.db.e = d.e
         /\ o.said \in {"queued", "marked", "dead", "lost"}
         /\ m.kind = "stop" => o.said = "queued" /\ ~Queued(o.db)
         /\ m.kind = "retry" /\ o.said = "queued" => Queued(o.db)
         /\ o.db.dead = (d.dead \/ o.said = "dead")
         /\ o.db.r \in {NoMark, m} /\ (o.said = "marked" => o.db.r = m)
<1>1. CASE d.r = NoMark
  <2>1. o \in CarriedOut(d, m)
    BY <1>1 DEF Superseded
  <2> QED
    BY <1>1, <2>1, CarriedOutFields
<1>2. CASE d.r # NoMark
  <2> DEFINE a == Announced(d, m)
  <2>1. PICK x \in CarriedOut(a, m) :
          \/ o = x
          \/ /\ x.said \notin {"marked", "lost"}
             /\ \E y \in Cleared(x.db, "r") : o = [x EXCEPT !.db = y]
    BY <1>2 DEF Superseded
  <2>2. /\ a \in Stores /\ a.row = d.row /\ a.cron = d.cron /\ a.e = d.e /\ a.c = d.c
        /\ a.dead = d.dead /\ a.counted = d.counted /\ a.succ = d.succ /\ a.r = m
    BY <1>2, AnnouncedFields
  <2> HIDE DEF a
  <2>3. Numbering(a) /\ \A y : Kept(a, y) <=> Kept(d, y)
    BY <2>2 DEF Numbering, Steady, Kept
  <2>4. /\ Kept(a, x.db) /\ x.db.counted = a.counted /\ x.db.e = a.e
        /\ x.said \in {"queued", "marked", "dead", "lost"}
        /\ m.kind = "stop" => x.said = "queued" /\ ~Queued(x.db)
        /\ m.kind = "retry" /\ x.said = "queued" => Queued(x.db)
        /\ x.db.dead = (a.dead \/ x.said = "dead")
        /\ x.db.r = IF x.said = "marked" THEN m ELSE a.r
    BY <2>2, <2>3, CarriedOutFields
  <2>5. CASE o = x
    BY <2>2, <2>3, <2>4, <2>5
  <2>6. ASSUME NEW y \in Cleared(x.db, "r"), o = [x EXCEPT !.db = y],
               x.said \notin {"marked", "lost"}
        PROVE  /\ o.db = y /\ o.said = x.said
               /\ Kept(a, y) /\ y.counted = x.db.counted /\ y.e = x.db.e
               /\ y.dead = x.db.dead /\ y.r \in {NoMark, x.db.r}
               /\ Queued(y) <=> Queued(x.db)
    <3>1. x.db \in Stores
      BY <2>4 DEF Kept
    <3>2. /\ y \in Stores /\ y.row = x.db.row /\ y.cron = x.db.cron /\ y.e = x.db.e
          /\ y.c = x.db.c /\ y.dead = x.db.dead /\ y.counted = x.db.counted
          /\ y.succ = x.db.succ /\ y.r \in {NoMark, x.db.r}
      BY <3>1, ClearedFields
    <3>3. DOMAIN x = {"db", "said"}
      <4>1. \E u, v : x = [db |-> u, said |-> v]
        BY <2>1 DEF CarriedOut, Scheduled
      <4> QED
        BY <4>1
    <3>4. o.db = y /\ o.said = x.said
      BY <2>6, <3>3
    <3> QED
      BY <2>4, <3>2, <3>4 DEF Kept, Numbering, Steady, Queued
  <2> QED
    BY <2>1, <2>2, <2>3, <2>4, <2>5, <2>6
<1> QED
  BY <1>1, <1>2

LEMMA BuriedFields ==
  ASSUME NEW d \in Stores, Numbering(d)
  PROVE  /\ Kept(d, Buried(d)) /\ Buried(d).dead /\ Buried(d).counted = d.counted
         /\ Buried(d).e = d.e /\ Buried(d).r = d.r
<1> DEFINE x == [d EXCEPT !.dead = TRUE]
<1>1. /\ x \in Stores /\ x.row = d.row /\ x.cron = d.cron /\ x.e = d.e /\ x.r = d.r
      /\ x.c = d.c /\ x.dead /\ x.counted = d.counted /\ x.succ = d.succ
  BY DEF Stores
<1>2. Buried(d) = Cancelled(x)
  BY DEF Buried
<1> HIDE DEF x
<1>3. Numbering(x)
  BY <1>1 DEF Numbering
<1>4. /\ Cancelled(x) \in Stores /\ Cancelled(x).e = x.e /\ Cancelled(x).r = x.r
      /\ Cancelled(x).c = x.c /\ Cancelled(x).dead = x.dead
      /\ Cancelled(x).counted = x.counted /\ Cancelled(x).succ = x.succ
      /\ Numbering(Cancelled(x)) /\ Steady(x, Cancelled(x))
  BY <1>1, <1>3, CancelledFields
<1> QED
  BY <1>1, <1>2, <1>4 DEF Kept, Steady

(* What is decided about the failure of row i: it was of an older run, it is   *)
(* counted and tried again, the job is given up, or nothing was kept.         *)
DecidedAs(d, i, why, floor, o) ==
  /\ Kept(d, o.db) /\ o.db.r = d.r
  /\ o.said \in {"queued", "marked", "dead", "lost", "old"}
  /\ d.dead \/ o.said = "dead" => o.db.dead
  /\ o.said = "old" => o.db = d /\ why = "crash" /\ i <= d.succ
  /\ o.said = "queued" => Queued(o.db)
  /\ o.said = "marked" => o.db.e = Retry(floor)
  /\ o.said \in {"queued", "marked"} /\ why = "crash" =>
       i \in o.db.counted /\ ~(Cardinality(o.db.counted) >= MaxCrashes)
  /\ o.said = "lost" =>
       o.db.row = d.row /\ o.db.cron = d.cron /\ o.db.e = d.e /\ o.db.dead = d.dead
  /\ \/ o.db.counted = d.counted
     \/ o.db.counted = d.counted \cup {i} /\ why = "crash" /\ i > d.succ

LEMMA DecidedFields ==
  ASSUME NEW d \in Stores, Numbering(d), NEW i \in Ids, NEW why \in {"busy", "crash"},
         NEW floor \in 0..MaxRows, NEW o \in Decided(d, i, why, floor)
  PROVE  DecidedAs(d, i, why, floor, o)
<1> DEFINE counted == [d EXCEPT !.counted = @ \cup {i}]
           buried(x) == [db |-> Buried(x), said |-> "dead"]
           undone(x) == [db |-> x, said |-> "lost"]
           older == why = "crash" /\ i <= d.succ
(* the two states the decision starts from *)
<1>1. /\ counted \in Stores /\ counted.row = d.row /\ counted.cron = d.cron
      /\ counted.e = d.e /\ counted.r = d.r /\ counted.c = d.c /\ counted.dead = d.dead
      /\ counted.counted = d.counted \cup {i} /\ counted.succ = d.succ
  BY DEF Stores
<1>2. /\ Numbering(counted) /\ \A x : Kept(counted, x) <=> Kept(d, x)
      /\ Queued(counted) <=> Queued(d)
  BY <1>1 DEF Numbering, Steady, Kept, Queued
<1> HIDE DEF counted
<1>3. i \in Nat /\ d.succ \in Nat
  BY IdsType, SiteQueueConstants DEF Stores
<1>4. ASSUME NEW x, NEW n \in Nat, NEW y \in Refused(x, n),
             x = d \/ (x = counted /\ why = "crash" /\ ~older)
      PROVE  /\ DecidedAs(d, i, why, floor, buried(y))
             /\ DecidedAs(d, i, why, floor, undone(y))
  <2>1. x \in Stores /\ Numbering(x)
    BY <1>1, <1>2, <1>4
  <2>2. y \in Stores /\ Same(x, y) /\ Numbering(y)
    <3>1. y \in Stores /\ Same(x, y)
      BY <1>4, <2>1, RefusedFields
    <3> QED
      BY <2>1, <3>1 DEF Same, Numbering
  <2>3. x.counted = d.counted \/ (/\ x.counted = d.counted \cup {i} /\ why = "crash"
                                  /\ i > d.succ)
    BY <1>1, <1>3, <1>4
  <2>4. /\ x.row = d.row /\ x.cron = d.cron /\ x.e = d.e /\ x.r = d.r /\ x.c = d.c
        /\ x.dead = d.dead /\ x.succ = d.succ
    BY <1>1, <1>4
  <2>5. Kept(d, y)
    BY <2>2, <2>4 DEF Same, Kept, Steady
  <2>6. DecidedAs(d, i, why, floor, undone(y))
    BY <2>2, <2>3, <2>4, <2>5 DEF DecidedAs, Same
  <2>7. DecidedAs(d, i, why, floor, buried(y))
    <3>1. PICK z : z = Buried(y)
      OBVIOUS
    <3>2. /\ Kept(y, z) /\ z.dead /\ z.counted = y.counted
          /\ z.e = y.e /\ z.r = y.r
      BY <2>2, <3>1, BuriedFields
    <3>3. Kept(d, z)
      BY <2>2, <2>5, <3>2 DEF Same, Kept, Steady
    <3>4. buried(y).db = z /\ buried(y).said = "dead"
      BY <3>1
    <3> HIDE DEF buried
    <3> QED
      BY <2>2, <2>3, <2>4, <3>2, <3>3, <3>4 DEF DecidedAs, Same
  <2> QED
    BY <2>6, <2>7
<1>5. ASSUME NEW x, o \in Enqueued(x, floor),
             \/ x = d /\ why = "busy"
             \/ x = counted /\ why = "crash" /\ ~older
                /\ ~(Cardinality(x.counted) >= MaxCrashes)
      PROVE  DecidedAs(d, i, why, floor, o)
  <2>1. x \in Stores /\ Numbering(x)
    BY <1>1, <1>2, <1>5
  <2>2. /\ Kept(x, o.db) /\ o.db.counted = x.counted /\ o.db.r = x.r
        /\ o.said \in {"queued", "marked", "dead", "lost"}
        /\ o.said = "queued" => Queued(o.db)
        /\ o.said # "queued" => o.db.row = x.row /\ o.db.cron = x.cron
        /\ o.db.dead = (x.dead \/ o.said = "dead")
        /\ o.db.e = IF o.said = "marked" THEN Retry(floor) ELSE x.e
    BY <1>5, <2>1, EnqueuedFields
  <2>3. Kept(d, o.db) /\ x.dead \in BOOLEAN /\ x.dead = d.dead /\ x.e = d.e /\ x.r = d.r
        /\ x.row = d.row /\ x.cron = d.cron
    BY <1>1, <1>2, <1>5, <2>1, <2>2 DEF Stores
  <2>4. CASE x = d /\ why = "busy"
    BY <2>2, <2>3, <2>4 DEF DecidedAs
  <2>5. CASE x = counted /\ why = "crash"
    <3>1. i \in o.db.counted /\ o.db.counted = d.counted \cup {i} /\ i > d.succ
          /\ ~(Cardinality(o.db.counted) >= MaxCrashes)
      BY <1>1, <1>3, <1>5, <2>2, <2>5
    <3> QED
      BY <1>5, <2>2, <2>3, <2>5, <3>1 DEF DecidedAs
  <2> QED
    BY <1>5, <2>4, <2>5
<1>6. \/ \E y \in Refused(d, 1) : o = undone(y)
      \/ d.dead /\ o = buried(d)
      \/ why = "busy" /\ (\/ o \in Enqueued(d, floor)
                          \/ \E y \in Refused(d, 0) : o = buried(y)
                          \/ \E y \in Refused(d, 1) : o = undone(y))
      \/ older /\ o = [db |-> d, said |-> "old"]
      \/ why = "crash" /\ ~older /\
           \/ \E y \in Refused(d, 1) : o = buried(y)
           \/ \E y \in Refused(d, 2) : o = undone(y)
           \/ \E y \in Refused(counted, 0) : o = buried(y)
           \/ \E y \in Refused(counted, 1) : o = undone(y)
           \/ o \in Enqueued(counted, floor) /\ ~(Cardinality(counted.counted) >= MaxCrashes)
  BY DEF Decided, counted
<1>7. ASSUME d.dead, o = buried(d)
      PROVE  DecidedAs(d, i, why, floor, o)
  <2>1. PICK z : z = Buried(d)
    OBVIOUS
  <2>2. Kept(d, z) /\ z.dead /\ z.counted = d.counted /\ z.e = d.e /\ z.r = d.r
    BY <2>1, BuriedFields
  <2>3. o.db = z /\ o.said = "dead"
    BY <1>7, <2>1
  <2> QED
    BY <2>2, <2>3 DEF DecidedAs
<1>8. ASSUME older, o = [db |-> d, said |-> "old"]
      PROVE  DecidedAs(d, i, why, floor, o)
  BY <1>8 DEF DecidedAs, Kept, Steady
<1>9. CASE \E y \in Refused(d, 1) : o = undone(y)
  BY <1>4, <1>9
<1> HIDE DEF buried, undone, older
<1>10. CASE why = "busy" /\ (\/ o \in Enqueued(d, floor)
                             \/ \E y \in Refused(d, 0) : o = buried(y)
                             \/ \E y \in Refused(d, 1) : o = undone(y))
  BY <1>4, <1>5, <1>10
<1>11. CASE /\ why = "crash" /\ ~older
            /\ \/ \E y \in Refused(d, 1) : o = buried(y)
               \/ \E y \in Refused(d, 2) : o = undone(y)
               \/ \E y \in Refused(counted, 0) : o = buried(y)
               \/ \E y \in Refused(counted, 1) : o = undone(y)
               \/ /\ o \in Enqueued(counted, floor)
                  /\ ~(Cardinality(counted.counted) >= MaxCrashes)
  BY <1>4, <1>5, <1>11
<1> QED
  BY <1>6, <1>7, <1>8, <1>9, <1>10, <1>11

-----------------------------------------------------------------------------
(* Who holds the run lock, whose run may still end well, and who has seen a    *)
(* failure it has to deal with.                                             *)
Holds(p) == run[p].at \in {"work", "done", "threw"}
Active(p) == run[p].at \in {"work", "done"}
Fails(p) == run[p].at \in {"threw", "found"}

(* A run is of a row in progress, a failure of a failed row, and what a run    *)
(* that holds the lock is of no healthy run was of yet.                     *)
RunFits(d, x) ==
  /\ x.at = "idle" => x = NoRun
  /\ x.at = "done" => x.id # 0
  /\ x.at \in {"work", "done"} /\ x.id # 0 => d.row[x.id] = "running"
  /\ x.at \in {"threw", "found"} => x.id # 0 /\ d.row[x.id] = "failed"
  /\ x.at \in {"work", "done", "threw"} /\ x.id # 0 => d.succ < x.id
  /\ x.at \in {"work", "done", "threw"} => x.why = "crash"

Apart ==
  \A p, q \in Runners : p # q =>
    /\ ~(Holds(p) /\ Holds(q))
    /\ run[p].id # 0 => run[p].id # run[q].id

(* A deferred failure is of a failed row that no process looks after.         *)
Attended ==
  /\ drain.op = "none" => drain = NoDrain
  /\ drain.op = "c" => drain.id \in Ids
  /\ \A i \in Ids : db.c[i] # "no" \/ (drain.op = "c" /\ drain.id = i) =>
       db.row[i] = "failed" /\ \A p \in Runners : run[p].id # i

QInv ==
  /\ SiteQueueTypeOK /\ Numbering(db) /\ Apart /\ Attended
  /\ \A p \in Runners : RunFits(db, run[p])

(* The types a step is reasoned with. *)
LEMMA QueueTypes ==
  ASSUME QInv
  PROVE  /\ db \in Stores /\ Numbering(db) /\ run \in [Runners -> Runs]
         /\ db.row \in [Ids -> RowStates] /\ db.c \in [Ids -> {"no", "busy", "crash"}]
         /\ db.succ \in 0..MaxRows /\ db.succ \in Nat /\ db.counted \subseteq Ids
         /\ db.dead \in BOOLEAN
         /\ drain \in [op : {"none", "e", "r", "c"}, id : 0..MaxRows, same : BOOLEAN]
         /\ owed \in BOOLEAN /\ stopped \in BOOLEAN /\ exposed \in BOOLEAN /\ trace \in BOOLEAN
         /\ kills \in Nat /\ asks \in Nat /\ crashed \subseteq Ids
         /\ hook \in {"order", "reservation"} /\ failed \in BOOLEAN
         /\ MaxRows \in Nat
<1>1. MaxRows \in Nat
  BY SiteQueueConstants
<1>2. SiteQueueTypeOK /\ Numbering(db)
  BY DEF QInv
<1>3. db.succ \in 0..MaxRows
  BY <1>2 DEF SiteQueueTypeOK, Stores
<1> QED
  BY <1>1, <1>2, <1>3 DEF SiteQueueTypeOK, Stores

LEMMA RunType ==
  ASSUME QInv, NEW p \in Runners
  PROVE  /\ run[p] \in Runs /\ RunFits(db, run[p])
         /\ run[p].id \in 0..MaxRows /\ run[p].id \in Nat
         /\ run[p].id # 0 => run[p].id \in Ids
         /\ run[p].why \in {"busy", "crash"} /\ run[p].debt \in BOOLEAN /\ run[p].keep \in BOOLEAN
<1>1. run[p] \in Runs /\ RunFits(db, run[p])
  BY QueueTypes DEF QInv
<1>2. run[p].id \in 0..MaxRows /\ MaxRows \in Nat
  BY <1>1, SiteQueueConstants DEF Runs
<1> QED
  BY <1>1, <1>2 DEF Runs, Ids

\* Nothing but the types of the history: it is changed freely.
Histories ==
  /\ hook' = hook /\ failed' \in BOOLEAN /\ kills' \in Nat /\ asks' \in Nat
  /\ owed' \in BOOLEAN /\ stopped' \in BOOLEAN /\ exposed' \in BOOLEAN /\ trace' \in BOOLEAN
  /\ crashed' \subseteq Ids

\* A failure that is drained was being drained, or was deferred.
DrainFits ==
  /\ drain' \in [op : {"none", "e", "r", "c"}, id : 0..MaxRows, same : BOOLEAN]
  /\ drain'.op = "none" => drain' = NoDrain
  /\ drain'.op = "c" =>
       /\ drain'.id \in Ids
       /\ (drain.op = "c" /\ drain.id = drain'.id) \/ db.c[drain'.id] # "no"

(* One process goes on, one row of its own may end.                          *)
LEMMA StepKeeps ==
  ASSUME QInv, Histories, DrainFits, NEW p \in Runners, NEW x \in Runs,
         run' = [run EXCEPT ![p] = x], db' \in Stores, Numbering(db'), RunFits(db', x),
         \A q \in Runners : q # p => RunFits(db', run[q]),
         x.at \in {"work", "done", "threw"} => Holds(p) \/ RunLockFree,
         x.id # 0 => x.id = run[p].id \/ \A q \in Runners : q # p => run[q].id # x.id,
         \A i \in Ids : db'.c[i] # "no" =>
           db'.row[i] = "failed" /\ x.id # i /\ \A q \in Runners : q # p => run[q].id # i,
         drain'.op = "c" => db'.row[drain'.id] = "failed" /\ x.id # drain'.id
  PROVE  QInv'
<1>1. /\ run \in [Runners -> Runs] /\ run'[p] = x
      /\ \A q \in Runners : q # p => run'[q] = run[q]
  BY QueueTypes
<1>2. run' \in [Runners -> Runs] /\ \A q \in Runners : RunFits(db', run'[q])
  BY <1>1
<1>3. SiteQueueTypeOK'
  BY <1>2, QueueTypes DEF Histories, DrainFits, SiteQueueTypeOK
<1>4. Apart'
  <2>1. ASSUME NEW q \in Runners, q # p
        PROVE  /\ ~(x.at \in {"work", "done", "threw"} /\ Holds(q))
               /\ x.id # 0 => x.id # run[q].id
    BY <2>1 DEF QInv, Apart, RunLockFree, Holds
  <2> QED
    BY <1>1, <2>1 DEF QInv, Apart, Holds
<1>5. Attended'
  <2>1. drain'.op = "c" => drain'.id \in Ids /\ \A q \in Runners : run[q].id # drain'.id
    BY DEF DrainFits, QInv, Attended
  <2>2. \A q \in Runners : run'[q].id = (IF q = p THEN x.id ELSE run[q].id)
    BY <1>1
  <2>3. ASSUME NEW i \in Ids, db'.c[i] # "no" \/ (drain'.op = "c" /\ drain'.id = i)
        PROVE  db'.row[i] = "failed" /\ \A q \in Runners : run'[q].id # i
    BY <2>1, <2>2, <2>3
  <2>4. drain'.op = "none" => drain' = NoDrain
    BY DEF DrainFits
  <2> QED
    BY <2>1, <2>3, <2>4 DEF Attended
<1> QED
  BY <1>2, <1>3, <1>4, <1>5 DEF QInv

(* Nothing runs, fails or is deferred anew. *)
LEMMA QuietKeeps ==
  ASSUME QInv, Histories, DrainFits, run' = run, db' \in Stores, Numbering(db'),
         \A i \in Ids : db.row[i] \in {"running", "failed"} => db'.row[i] = db.row[i],
         db'.succ = db.succ, \A i \in Ids : db'.c[i] \in {"no", db.c[i]}
  PROVE  QInv'
<1>1. ASSUME NEW p \in Runners PROVE RunFits(db', run[p])
  BY RunType DEF RunFits
<1>2. SiteQueueTypeOK'
  BY QueueTypes DEF Histories, DrainFits, SiteQueueTypeOK
<1>3. Apart'
  BY DEF QInv, Apart, Holds
<1>4. Attended'
  BY DEF QInv, Attended, DrainFits
<1> QED
  BY <1>1, <1>2, <1>3, <1>4 DEF QInv

LEMMA KeptKeeps ==
  ASSUME QInv, Histories, DrainFits, run' = run, Kept(db, db')
  PROVE  QInv'
BY QuietKeeps DEF Kept, Steady

-----------------------------------------------------------------------------
(* What keeps a request that was accepted: it is queued; the job is recorded   *)
(* as dead and no healthy run in progress will clear that; a marker keeps it   *)
(* that no run in progress makes void; or a failure is to be dealt with, of a  *)
(* run newer than all that are in progress.                                 *)
Ahead(i) == db.succ < i /\ \A p \in Runners : Active(p) => run[p].id < i
Safe(m) ==
  m.kind = "retry" /\ db.succ <= m.floor /\ \A p \in Runners : Active(p) => run[p].id <= m.floor
Leaves(op) == drain.op = op /\ drain.same
LeavesFailure(i) == Leaves("c") /\ drain.id = i

DeadStands == db.dead /\ \A p \in Runners : Active(p) => run[p].keep
StillDeferred(i) == db.c[i] # "no" /\ ~LeavesFailure(i) /\ (db.c[i] = "busy" \/ Ahead(i))
Seen(p) == Fails(p) /\ (run[p].why = "busy" \/ Ahead(run[p].id))

Stands ==
  \/ Queued(db) \/ DeadStands
  \/ Safe(db.e) /\ ~Leaves("e")
  \/ Safe(db.r) /\ ~Leaves("r")
  \/ \E i \in Ids : StillDeferred(i) \/ (Orphan(i) /\ Ahead(i))
  \/ \E p \in Runners : Seen(p)

(* The shop or a human asks: whatever is refused, the request stands, or the   *)
(* history says that it does not.                                           *)
AcceptAs(d) ==
  /\ Kept(d, db') /\ db'.counted = d.counted /\ db'.r = d.r
  /\ d.dead => db'.dead
  /\ drain' \in [op : {"none", "e", "r", "c"}, id : 0..MaxRows, same : BOOLEAN]
  /\ drain'.op = drain.op /\ drain'.id = drain.id /\ (drain'.same => drain.same)
  /\ owed' \in BOOLEAN /\ exposed' \in BOOLEAN /\ trace' \in BOOLEAN
  /\ exposed => exposed'
  /\ trace => trace'
  /\ exposed' \/ trace' \/ (Stands' /\ d.r.kind # "stop")

LEMMA AcceptFields ==
  ASSUME QInv, NEW d \in Stores, Numbering(d), d.succ = db.succ, run' = run, Accept(d)
  PROVE  AcceptAs(d)
<1>1. /\ drain \in [op : {"none", "e", "r", "c"}, id : 0..MaxRows, same : BOOLEAN]
      /\ owed \in BOOLEAN /\ exposed \in BOOLEAN /\ trace \in BOOLEAN
      /\ d.succ \in 0..MaxRows /\ d.succ \in Nat /\ MaxRows \in Nat
  BY QueueTypes
<1>2. CASE /\ QueueLock /\ drain' = drain
           /\ \E o \in Enqueued(d, d.succ) :
                /\ db' = o.db
                /\ owed' = (owed \/ o.said # "lost")
                /\ exposed' = (IsExposed(o, d.succ) \/ d.r.kind = "stop")
                /\ trace' = (trace \/ o.said = "lost")
  <2>1. PICK o \in Enqueued(d, d.succ) :
                /\ db' = o.db
                /\ owed' = (owed \/ o.said # "lost")
                /\ exposed' = (IsExposed(o, d.succ) \/ d.r.kind = "stop")
                /\ trace' = (trace \/ o.said = "lost")
    BY <1>2
  <2>2. /\ Kept(d, db') /\ db'.counted = d.counted /\ db'.r = d.r
        /\ o.said \in {"queued", "marked", "dead", "lost"}
        /\ o.said = "queued" => Queued(db')
        /\ db'.dead = (d.dead \/ o.said = "dead")
        /\ db'.e = IF o.said = "marked" THEN Retry(d.succ) ELSE d.e
    BY <1>1, <2>1, EnqueuedFields
  <2>3. owed' \in BOOLEAN /\ exposed' \in BOOLEAN /\ trace' \in BOOLEAN
        /\ (trace => trace') /\ (exposed => exposed')
    BY <1>1, <2>1 DEF IsExposed
  <2>4. ASSUME ~exposed', ~trace' PROVE Stands' /\ d.r.kind # "stop"
    <3>1. o.said # "lost" /\ ~IsExposed(o, d.succ) /\ d.r.kind # "stop"
      BY <2>1, <2>4
    <3>2. CASE o.said = "queued"
      BY <2>2, <3>1, <3>2 DEF Stands
    <3>3. CASE o.said = "dead"
      <4>1. db'.dead /\ \A p \in Runners : ~Active(p)'
        BY <2>2, <3>1, <3>3 DEF IsExposed, Active
      <4> QED
        BY <3>1, <4>1 DEF Stands, DeadStands
    <3>4. CASE o.said = "marked"
      <4>1. db'.e = Retry(d.succ) /\ db'.succ = d.succ
        BY <2>2, <3>4 DEF Kept, Steady
      <4>2. \A p \in Runners : Active(p)' => run'[p].id <= d.succ
        BY <1>1, <3>1, <3>4, RunType DEF IsExposed, Active
      <4>3. Safe(db.e)' /\ ~Leaves("e")'
        BY <1>1, <1>2, <4>1, <4>2 DEF Safe, Retry, Leaves, QueueLock, NoDrain
      <4> QED
        BY <3>1, <4>3 DEF Stands
    <3> QED
      BY <2>2, <3>1, <3>2, <3>3, <3>4
  <2>5. (d.dead => db'.dead) /\ drain' = drain
    BY <1>2, <2>2
  <2> QED
    BY <1>1, <2>2, <2>3, <2>4, <2>5 DEF AcceptAs
<1>3. ASSUME NEW x \in NoLock(d),
             \/ /\ db' = [x EXCEPT !.e = Retry(NoFloor)]
                /\ owed' = TRUE /\ Rewritten("e")
                /\ exposed' = (exposed \/ d.r.kind = "stop")
                /\ trace' = trace
             \/ /\ db' \in Refused(x, 1)
                /\ trace' = TRUE
                /\ UNCHANGED <<drain, owed, exposed>>
      PROVE  AcceptAs(d)
  <2>1. x \in Stores /\ Same(d, x)
    BY <1>3, RefusedFields DEF NoLock, Same
  <2>2. CASE /\ db' = [x EXCEPT !.e = Retry(NoFloor)]
             /\ owed' = TRUE /\ Rewritten("e")
             /\ exposed' = (exposed \/ d.r.kind = "stop")
             /\ trace' = trace
    <3>1. Retry(NoFloor) \in {NoMark} \cup Markers({"retry"})
      BY <1>1 DEF Retry, NoFloor, Markers
    <3>2. /\ db' \in Stores /\ db'.row = x.row /\ db'.cron = x.cron /\ db'.e = Retry(NoFloor)
          /\ db'.r = x.r /\ db'.c = x.c /\ db'.dead = x.dead /\ db'.counted = x.counted
          /\ db'.succ = x.succ
      BY <2>1, <2>2, <3>1 DEF Stores
    <3>3. Kept(d, db') /\ db'.counted = d.counted /\ db'.r = d.r /\ db'.dead = d.dead
          /\ db'.succ = d.succ
      BY <2>1, <3>2 DEF Same, Kept, Numbering, Steady
    <3>4. /\ drain' \in [op : {"none", "e", "r", "c"}, id : 0..MaxRows, same : BOOLEAN]
          /\ drain'.op = drain.op /\ drain'.id = drain.id /\ (drain'.same => drain.same)
          /\ ~Leaves("e")'
      BY <1>1, <2>2 DEF Rewritten, Leaves
    <3>5. Safe(db.e)'
      <4>1. \A p \in Runners : run'[p].id <= MaxRows
        BY <1>1, RunType
      <4> QED
        BY <1>1, <3>2, <3>3, <4>1 DEF Safe, Retry, NoFloor
    <3>6. Stands'
      BY <3>4, <3>5 DEF Stands
    <3> QED
      BY <1>1, <2>2, <3>3, <3>4, <3>6 DEF AcceptAs
  <2>3. CASE db' \in Refused(x, 1) /\ trace' = TRUE /\ UNCHANGED <<drain, owed, exposed>>
    <3>1. db' \in Stores /\ Same(x, db')
      BY <2>1, <2>3, RefusedFields
    <3>2. Kept(d, db') /\ db'.counted = d.counted /\ db'.r = d.r /\ db'.dead = d.dead
      BY <2>1, <3>1 DEF Same, Kept, Numbering, Steady
    <3> QED
      BY <1>1, <2>3, <3>2 DEF AcceptAs
  <2> QED
    BY <1>3, <2>2, <2>3
<1> QED
  BY <1>2, <1>3 DEF Accept

-----------------------------------------------------------------------------
(* One row goes on or ends. *)
RowSet(d, x, i, s) ==
  /\ x \in Stores /\ x.row[i] = s /\ \A j \in Ids : j # i => x.row[j] = d.row[j]
  /\ x.cron = d.cron /\ x.e = d.e /\ x.r = d.r /\ x.c = d.c /\ x.dead = d.dead
  /\ x.counted = d.counted /\ x.succ = d.succ

LEMMA RowSetFields ==
  ASSUME NEW d \in Stores, NEW i \in Ids, d.row[i] # "none",
         NEW s \in {"running", "failed", "complete"}, NEW x, x = [d EXCEPT !.row[i] = s]
  PROVE  RowSet(d, x, i, s) /\ (Numbering(d) => Numbering(x))
<1> DEFINE R == [d.row EXCEPT ![i] = s]
<1>1. x = [d EXCEPT !.row = R]
  BY DEF Stores
<1>2. R \in [Ids -> RowStates] /\ R[i] = s /\ \A j \in Ids : j # i => R[j] = d.row[j]
  BY DEF Stores, RowStates
<1> HIDE DEF R
<1>3. /\ x \in Stores /\ x.row = R /\ x.cron = d.cron /\ x.e = d.e /\ x.r = d.r
      /\ x.c = d.c /\ x.dead = d.dead /\ x.counted = d.counted /\ x.succ = d.succ
  BY <1>1, <1>2 DEF Stores
<1>4. \A j \in Ids : /\ x.row[j] = "none" <=> d.row[j] = "none"
                     /\ x.row[j] = "pending" => d.row[j] = "pending"
  BY <1>2, <1>3
<1> QED
  BY <1>2, <1>3, <1>4 DEF RowSet, Numbering

\* Every other run fits as it did.
LEMMA OthersFit ==
  ASSUME QInv, NEW p \in Runners, NEW i \in Ids, NEW s, RowSet(db, db', i, s),
         \A q \in Runners : q # p => run[q].id # i
  PROVE  \A q \in Runners : q # p => RunFits(db', run[q])
BY RunType DEF RunFits, RowSet

(* The statement that begins a run, or fails a row: the row and the process.  *)
LEMMA RowStepKeeps ==
  ASSUME QInv, Histories, drain' = drain, NEW p \in Runners, NEW x \in Runs,
         run' = [run EXCEPT ![p] = x], NEW i \in Ids, NEW s \in {"running", "failed", "complete"},
         RowSet(db, db', i, s), Numbering(db'),
         \A q \in Runners : q # p => run[q].id # i,
         db.row[i] # "failed", x.id \in {0, i}, RunFits(db', x),
         x.at \in {"work", "done", "threw"} => Holds(p) \/ RunLockFree
  PROVE  QInv'
<1>1. \A q \in Runners : q # p => RunFits(db', run[q])
  BY OthersFit
<1>2. DrainFits
  BY QueueTypes DEF QInv, Attended, DrainFits
<1>3. ASSUME NEW j \in Ids, db.c[j] # "no" \/ (drain.op = "c" /\ drain.id = j)
      PROVE  db'.row[j] = "failed" /\ j # i /\ \A q \in Runners : run[q].id # j
  BY <1>3 DEF QInv, Attended, RowSet
<1>4. \A j \in Ids : db'.c[j] # "no" =>
        db'.row[j] = "failed" /\ x.id # j /\ \A q \in Runners : q # p => run[q].id # j
  BY <1>3, IdsType DEF RowSet
<1>5. drain'.op = "c" => db'.row[drain'.id] = "failed" /\ x.id # drain'.id
  <2>1. drain.op = "c" => drain.id \in Ids
    BY DEF QInv, Attended
  <2> QED
    BY <1>3, <2>1, IdsType
<1>6. x.id # 0 => x.id = run[p].id \/ \A q \in Runners : q # p => run[q].id # x.id
  OBVIOUS
<1>7. db' \in Stores
  BY DEF RowSet
<1> QED
  BY <1>1, <1>2, <1>4, <1>5, <1>6, <1>7, StepKeeps

LEMMA AcceptKeeps ==
  ASSUME QInv, NEW d \in Stores, Numbering(d), d.succ = db.succ, d.row = db.row,
         \A i \in Ids : d.c[i] \in {"no", db.c[i]}, run' = run, Accept(d),
         hook' = hook, failed' \in BOOLEAN, kills' \in Nat, asks' \in Nat,
         stopped' \in BOOLEAN, crashed' \subseteq Ids
  PROVE  QInv'
<1>1. AcceptAs(d)
  BY AcceptFields
<1>2. Histories /\ DrainFits
  <2>1. drain.op = "none" => drain' = NoDrain
    <3>1. drain'.op = drain.op /\ drain'.id = drain.id /\ (drain'.same => drain.same)
          /\ drain' \in [op : {"none", "e", "r", "c"}, id : 0..MaxRows, same : BOOLEAN]
      BY <1>1 DEF AcceptAs
    <3>2. drain.op = "none" => drain = NoDrain
      BY DEF QInv, Attended
    <3> QED
      BY <3>1, <3>2 DEF NoDrain
  <2> QED
    BY <1>1, <2>1 DEF AcceptAs, Histories, DrainFits, QInv, Attended
<1>3. db' \in Stores /\ Numbering(db') /\ Steady(d, db')
  BY <1>1 DEF AcceptAs, Kept
<1> QED
  BY <1>2, <1>3, QuietKeeps DEF Steady

LEMMA AskKeeps ==
  ASSUME QInv, Ask
  PROVE  QInv'
<1>1. /\ db \in Stores /\ Numbering(db) /\ asks \in Nat /\ kills \in Nat
      /\ failed \in BOOLEAN /\ crashed \subseteq Ids
  BY QueueTypes
<1>2. /\ Accept(db) /\ run' = run /\ hook' = hook /\ failed' = failed /\ kills' = kills
      /\ asks' = asks + 1 /\ stopped' = FALSE /\ crashed' = crashed
  BY DEF Ask, Still
<1>3. asks' \in Nat
  BY <1>1, <1>2
<1> HIDE DEF QInv
<1> QED
  BY <1>1, <1>2, <1>3, AcceptKeeps

LEMMA TakeRowKeeps ==
  ASSUME QInv, NEW p \in Runners, TakeRow(p)
  PROVE  QInv'
<1>1. PICK i \in Ids : /\ db.row[i] = "pending" /\ db' = [db EXCEPT !.row[i] = "running"]
                       /\ Begin(p, i)
  BY DEF TakeRow
<1> DEFINE x == [NoRun EXCEPT !.at = "work", !.id = i, !.debt = owed]
<1>2. run' = [run EXCEPT ![p] = x] /\ owed' = FALSE
  BY <1>1 DEF Begin
<1>3. x \in Runs /\ x.at = "work" /\ x.id = i /\ x.why = "crash"
  BY QueueTypes, IdsType DEF NoRun, Runs
<1> HIDE DEF x
<1>4. RowSet(db, db', i, "running") /\ Numbering(db')
  BY <1>1, RowSetFields, QueueTypes
<1>5. \A q \in Runners : run[q].id # i
  BY <1>1, RunType, IdsType DEF RunFits, Runs, NoRun
<1>6. RunFits(db', x)
  BY <1>1, <1>3, <1>4, QueueTypes DEF RunFits, RowSet, Numbering
<1>7. Histories
  BY <1>2, QueueTypes DEF TakeRow, Still, Histories
<1>8. drain' = drain /\ RunLockFree
  BY DEF TakeRow
<1>9. /\ db.row[i] # "failed" /\ x.id \in {0, i} /\ x \in Runs
      /\ x.at \in {"work", "done", "threw"} => Holds(p) \/ RunLockFree
  BY <1>1, <1>3, <1>8
<1> QED
  BY <1>2, <1>4, <1>5, <1>6, <1>7, <1>8, <1>9, RowStepKeeps

(* A row fails: the process that sees it looks after it.                     *)
LEMMA FailedRow ==
  ASSUME QInv, NEW p \in Runners, NEW i \in Ids, NEW at \in {"threw", "found"},
         NEW why \in {"busy", "crash"}, RowFails(p, i, at, why),
         RowSet(db, db', i, "failed"), Numbering(db'), db.row[i] # "failed",
         \A q \in Runners : q # p => run[q].id # i, drain' = drain,
         at = "threw" => Holds(p) /\ db.succ < i /\ why = "crash", Still, owed' \in BOOLEAN,
         trace' \in BOOLEAN, UNCHANGED <<kills, asks, stopped, exposed>>
  PROVE  QInv'
<1> DEFINE x == [NoRun EXCEPT !.at = at, !.id = i, !.why = why]
<1>1. run' = [run EXCEPT ![p] = x] /\ crashed' \subseteq crashed \cup {i}
  BY DEF RowFails
<1>2. x \in Runs /\ x.at = at /\ x.id = i /\ x.why = why
  BY QueueTypes, IdsType DEF NoRun, Runs
<1> HIDE DEF x
<1>3. RunFits(db', x)
  BY <1>2, IdsType DEF RunFits, RowSet
<1>4. Histories
  BY <1>1, QueueTypes DEF Still, Histories
<1>5. x \in Runs /\ x.id \in {0, i} /\ (x.at \in {"work", "done", "threw"} => Holds(p) \/ RunLockFree)
  BY <1>2
<1> QED
  BY <1>1, <1>3, <1>4, <1>5, RowStepKeeps

LEMMA StartFailsKeeps ==
  ASSUME QInv, NEW p \in Runners, StartFails(p)
  PROVE  QInv'
<1>1. PICK i \in Ids : /\ db.row[i] = "pending"
                       /\ \/ /\ db' = [db EXCEPT !.row[i] = "failed"]
                             /\ RowFails(p, i, "found", "busy")
                          \/ \E d \in Refused(db, 1) :
                               /\ db' = [d EXCEPT !.row[i] = "failed"]
                               /\ RowFails(p, i, "found", "crash")
  BY DEF StartFails
<1>2. RowSet(db, db', i, "failed") /\ Numbering(db')
  <2>1. db \in Stores /\ Numbering(db)
    BY QueueTypes
  <2>2. PICK d \in Stores : Same(db, d) /\ db' = [d EXCEPT !.row[i] = "failed"]
    BY <1>1, <2>1, RefusedFields DEF Same
  <2>3. RowSet(d, db', i, "failed") /\ (Numbering(d) => Numbering(db'))
    BY <1>1, <2>2, RowSetFields DEF Same
  <2> QED
    BY <2>1, <2>2, <2>3 DEF Same, RowSet, Numbering
<1>3. \A q \in Runners : run[q].id # i
  BY <1>1, RunType, IdsType DEF RunFits, Runs, NoRun
<1>4. drain' = drain /\ Still /\ owed' = owed /\ trace' = trace
      /\ UNCHANGED <<kills, asks, stopped, exposed>>
  BY DEF StartFails
<1> QED
  BY <1>1, <1>2, <1>3, <1>4, QueueTypes, FailedRow

LEMMA DrainKept ==
  ASSUME QInv, drain' = drain \/ (\E op \in {"e", "r"} : Rewritten(op)) \/ drain' = NoDrain
  PROVE  DrainFits /\ (drain'.same => drain' = drain) /\ drain'.op \in {drain.op, "none"}
<1>1. /\ drain \in [op : {"none", "e", "r", "c"}, id : 0..MaxRows, same : BOOLEAN]
      /\ drain.op = "c" => drain.id \in Ids
      /\ drain.op = "none" => drain = NoDrain
  BY QueueTypes DEF QInv, Attended
<1>2. CASE drain' = drain
  BY <1>1, <1>2 DEF DrainFits
<1>3. CASE drain' = [drain EXCEPT !.same = FALSE]
  <2>1. /\ drain' \in [op : {"none", "e", "r", "c"}, id : 0..MaxRows, same : BOOLEAN]
        /\ drain'.op = drain.op /\ drain'.id = drain.id /\ ~drain'.same
    BY <1>1, <1>3
  <2>2. drain.op = "none" => drain' = NoDrain
    <3>1. ASSUME NEW x, x = NoDrain, NEW y, y = [x EXCEPT !.same = FALSE] PROVE y = NoDrain
      <4>1. y = [op |-> x.op, id |-> x.id, same |-> FALSE]
        BY <3>1 DEF NoDrain
      <4> QED
        BY <3>1, <4>1 DEF NoDrain
    <3> QED
      BY <1>1, <1>3, <3>1
  <2> QED
    BY <1>1, <2>1, <2>2 DEF DrainFits
<1>4. CASE drain' = NoDrain
  <2>1. 0 \in 0..MaxRows
    BY SiteQueueConstants
  <2> QED
    BY <1>4, <2>1 DEF NoDrain, DrainFits
<1> QED
  BY <1>2, <1>3, <1>4 DEF Rewritten

(* The handler begins outside Action Scheduler, or is queued.                *)
LEMMA DirectKeeps ==
  ASSUME QInv, NEW p \in Runners, NEW d \in Stores, Numbering(d), d.succ = db.succ,
         d.row = db.row, \A i \in Ids : d.c[i] \in {"no", db.c[i]}, run[p] = NoRun,
         Direct(p, d), hook' = hook, failed' \in BOOLEAN, kills' \in Nat, asks' \in Nat,
         stopped' \in BOOLEAN, crashed' \subseteq Ids
  PROVE  QInv'
<1>1. CASE RunLockFree /\ Begin(p, 0) /\ db' = d /\ UNCHANGED <<drain, exposed, trace>>
  <2> DEFINE x == [NoRun EXCEPT !.at = "work", !.id = 0, !.debt = owed]
  <2>1. run' = [run EXCEPT ![p] = x] /\ owed' = FALSE
    BY <1>1 DEF Begin
  <2>0. 0 \in 0..MaxRows
    BY SiteQueueConstants
  <2>2. x \in Runs /\ x.at = "work" /\ x.id = 0 /\ x.why = "crash"
    BY <2>0, QueueTypes DEF NoRun, Runs
  <2> HIDE DEF x
  <2>3. Histories /\ DrainFits
    BY <1>1, <2>1, QueueTypes, DrainKept DEF Histories
  <2>4. RunFits(db', x) /\ \A q \in Runners : q # p => RunFits(db', run[q])
    BY <1>1, <2>2, RunType DEF RunFits
  <2>5. \A i \in Ids : db'.c[i] # "no" =>
          db'.row[i] = "failed" /\ x.id # i /\ \A q \in Runners : q # p => run[q].id # i
    BY <1>1, <2>2, IdsType DEF QInv, Attended
  <2>6. drain'.op = "c" => db'.row[drain'.id] = "failed" /\ x.id # drain'.id
    BY <1>1, <2>2, IdsType DEF QInv, Attended
  <2>7. x.at \in {"work", "done", "threw"} => Holds(p) \/ RunLockFree
    BY <1>1
  <2>8. db' \in Stores /\ Numbering(db')
    BY <1>1
  <2> QED
    BY <2>1, <2>2, <2>3, <2>4, <2>5, <2>6, <2>7, <2>8, StepKeeps
<1>2. ASSUME NEW x \in Refused(d, 1), Accept(x), run' = run PROVE QInv'
  <2>1. x \in Stores /\ Same(d, x)
    BY <1>2, RefusedFields
  <2>2. Numbering(x) /\ x.succ = db.succ /\ x.row = db.row
        /\ \A i \in Ids : x.c[i] \in {"no", db.c[i]}
    BY <2>1 DEF Same, Numbering
  <2> QED
    BY <1>2, <2>1, <2>2, AcceptKeeps
<1>3. CASE Accept(d) /\ run' = run
  BY <1>3, AcceptKeeps
<1> QED
  BY <1>1, <1>2, <1>3 DEF Direct

LEMMA CronRunKeeps ==
  ASSUME QInv, NEW p \in Runners, CronRun(p)
  PROVE  QInv'
<1> DEFINE d == [db EXCEPT !.cron = FALSE]
<1>1. d \in Stores /\ d.row = db.row /\ d.succ = db.succ /\ d.c = db.c
  BY QueueTypes DEF Stores
<1>2. Direct(p, d) /\ run[p] = NoRun
  BY DEF CronRun
<1> HIDE DEF d
<1>3. Numbering(d)
  BY <1>1, QueueTypes DEF Numbering
<1>4. /\ hook' = hook /\ failed' \in BOOLEAN /\ kills' \in Nat /\ asks' \in Nat
      /\ stopped' \in BOOLEAN /\ crashed' \subseteq Ids
  BY QueueTypes DEF CronRun, Still
<1> QED
  BY <1>1, <1>2, <1>3, <1>4, DirectKeeps

LEMMA ForgottenFields ==
  ASSUME NEW d \in Stores, NEW x \in Forgotten(d)
  PROVE  /\ x \in Stores /\ x.row = d.row /\ x.cron = d.cron /\ x.e = d.e /\ x.r = d.r
         /\ x.succ = d.succ
         /\ \/ /\ x.counted = {} /\ ~x.dead /\ (\A i \in Ids : x.c[i] = "no")
               /\ x.faults = d.faults
            \/ Same(d, x) /\ x.faults # d.faults
<1>1. CASE x = [d EXCEPT !.counted = {}, !.dead = FALSE, !.c = [i \in Ids |-> "no"]]
  <2> DEFINE C == [i \in Ids |-> "no"]
  <2>1. C \in [Ids -> {"no", "busy", "crash"}] /\ \A i \in Ids : C[i] = "no"
    OBVIOUS
  <2> HIDE DEF C
  <2>2. x = [d EXCEPT !.counted = {}, !.dead = FALSE, !.c = C]
    BY <1>1 DEF C
  <2> QED
    BY <2>1, <2>2 DEF Stores
<1>2. CASE x \in Refused(d, 1)
  <2>1. x.faults # d.faults
    BY <1>2 DEF Refused, Stores
  <2> QED
    BY <1>2, <2>1, RefusedFields DEF Same
<1> QED
  BY <1>1, <1>2 DEF Forgotten

LEMMA ResendKeeps ==
  ASSUME QInv, NEW p \in Runners, Resend(p)
  PROVE  QInv'
<1>1. PICK d \in Forgotten(db) :
        /\ IF hook = "order" THEN Direct(p, d) ELSE run' = run /\ Accept(d)
        /\ crashed' = IF d.faults = db.faults THEN {} ELSE crashed
  BY DEF Resend
<1>2. /\ d \in Stores /\ d.row = db.row /\ d.succ = db.succ
      /\ \A i \in Ids : d.c[i] \in {"no", db.c[i]}
  BY QueueTypes, ForgottenFields DEF Same
<1>3. Numbering(d)
  BY <1>2, QueueTypes DEF Numbering
<1>4. /\ hook' = hook /\ failed' \in BOOLEAN /\ kills' \in Nat /\ asks' \in Nat
      /\ stopped' \in BOOLEAN /\ crashed' \subseteq Ids
  <2>1. hook' = hook /\ failed' = failed /\ kills' = kills /\ asks' = asks + 1
        /\ stopped' = FALSE
    BY DEF Resend, Still
  <2>2. asks \in Nat /\ kills \in Nat /\ failed \in BOOLEAN /\ crashed \subseteq Ids
    BY QueueTypes
  <2>3. crashed' \subseteq Ids
    BY <1>1, <2>2
  <2>4. asks' \in Nat
    BY <2>1, <2>2
  <2> QED
    BY <2>1, <2>2, <2>3, <2>4
<1>5. run[p] = NoRun
  BY DEF Resend
<1> QED
  BY <1>1, <1>2, <1>3, <1>4, <1>5, DirectKeeps, AcceptKeeps

(* The handler ends, having done to the queue what leaves the rows that run    *)
(* or have failed alone.                                                    *)
LEMMA WorkEnds ==
  ASSUME QInv, Histories, DrainFits, NEW p \in Runners, Working(p), NEW d, Kept(db, d),
         NEW x \in Runs, run' = [run EXCEPT ![p] = x],
         \/ x = NoRun /\ db' = d
         \/ x.at = "done" /\ x.id = run[p].id /\ x.id # 0 /\ x.why = run[p].why /\ db' = d
         \/ /\ x.at = "threw" /\ x.id = run[p].id /\ x.id # 0 /\ x.why = run[p].why
            /\ db' = [d EXCEPT !.row[x.id] = "failed"]
  PROVE  QInv'
<1>1. /\ run[p].at = "work" /\ RunFits(db, run[p]) /\ (run[p].id # 0 => run[p].id \in Ids)
      /\ run[p].id \in Nat /\ db \in Stores /\ db.succ \in Nat
  BY RunType, QueueTypes DEF Working
<1>2. d \in Stores /\ Numbering(d) /\ Steady(db, d)
  BY DEF Kept
<1>3. \A q \in Runners : q # p => run[q].id # run[p].id \/ run[p].id = 0
  BY DEF QInv, Apart
<1>4. x.at \in {"work", "done", "threw"} => Holds(p)
  BY <1>1 DEF Holds
<1>5. x.id \in {0, run[p].id}
  BY DEF NoRun
<1>6. \A i \in Ids : db.c[i] # "no" \/ (drain.op = "c" /\ drain.id = i) =>
        db.row[i] = "failed" /\ i # run[p].id /\ \A q \in Runners : run[q].id # i
  BY DEF QInv, Attended
<1>7. /\ db' \in Stores /\ Numbering(db') /\ db'.succ = db.succ /\ db'.c = db.c
      /\ \A i \in Ids : i # run[p].id => db'.row[i] = d.row[i]
      /\ RunFits(db', x)
  <2>1. CASE db' = d /\ (x = NoRun \/ (/\ x.at = "done" /\ x.id = run[p].id /\ x.id # 0
                                      /\ x.why = run[p].why))
    BY <1>1, <1>2, <2>1 DEF RunFits, Steady, NoRun
  <2>2. CASE /\ x.at = "threw" /\ x.id = run[p].id /\ x.id # 0 /\ x.why = run[p].why
             /\ db' = [d EXCEPT !.row[x.id] = "failed"]
    <3>1. d.row[x.id] = "running" /\ x.id \in Ids
      BY <1>1, <1>2, <2>2 DEF RunFits, Steady
    <3>2. RowSet(d, db', x.id, "failed") /\ Numbering(db')
      BY <1>2, <2>2, <3>1, RowSetFields
    <3> QED
      BY <1>1, <1>2, <2>2, <3>2 DEF RowSet, RunFits, Steady
  <2> QED
    BY <2>1, <2>2
<1>8. ASSUME NEW q \in Runners, q # p PROVE RunFits(db', run[q])
  <2>1. RunFits(db, run[q]) /\ (run[q].id # 0 => run[q].id \in Ids /\ run[q].id # run[p].id)
    BY <1>3, <1>8, RunType
  <2> QED
    BY <1>2, <1>7, <2>1 DEF RunFits, Steady
<1>9. \A i \in Ids : db'.c[i] # "no" =>
        db'.row[i] = "failed" /\ x.id # i /\ \A q \in Runners : q # p => run[q].id # i
  BY <1>2, <1>5, <1>6, <1>7, IdsType DEF Steady
<1>10. drain'.op = "c" => db'.row[drain'.id] = "failed" /\ x.id # drain'.id
  <2>1. drain'.op = "c" => drain'.id \in Ids
          /\ (db.c[drain'.id] # "no" \/ (drain.op = "c" /\ drain.id = drain'.id))
    BY DEF DrainFits
  <2> QED
    BY <1>2, <1>5, <1>6, <1>7, <2>1, IdsType DEF Steady
<1>11. x.id # 0 => x.id = run[p].id
  BY <1>5
<1> QED
  BY <1>4, <1>7, <1>8, <1>9, <1>10, <1>11, StepKeeps

LEMMA EndsKeeps ==
  ASSUME QInv, Histories, DrainFits, NEW p \in Runners, Working(p), Ends(p, "done"),
         Kept(db, db')
  PROVE  QInv'
<1> DEFINE x == IF run[p].id = 0 THEN NoRun ELSE [run[p] EXCEPT !.at = "done"]
<1>1. run' = [run EXCEPT ![p] = x]
  BY DEF Ends
<1>2. x \in Runs /\ (x = NoRun \/ (/\ x.at = "done" /\ x.id = run[p].id /\ x.id # 0
                                  /\ x.why = run[p].why))
  <2>1. 0 \in 0..MaxRows
    BY SiteQueueConstants
  <2> QED
    BY <2>1, RunType DEF Runs, NoRun
<1> HIDE DEF x
<1> QED
  BY <1>1, <1>2, WorkEnds

LEMMA AfterKeeps ==
  ASSUME QInv, DrainFits, NEW p \in Runners, Working(p), NEW o, After(p, o), Kept(db, o.db),
         hook' = hook, failed' \in BOOLEAN, kills' \in Nat, asks' \in Nat,
         stopped' \in BOOLEAN, exposed' \in BOOLEAN
  PROVE  QInv'
<1> DEFINE at == IF o.said = "lost" THEN "threw" ELSE "done"
           keep == run[p].keep \/ o.said = "dead"
           x == IF run[p].id = 0 THEN NoRun
                ELSE [run[p] EXCEPT !.at = at, !.keep = keep]
<1>1. run' = [run EXCEPT ![p] = x]
  BY DEF After
<1>2. x \in Runs
      /\ \/ x = NoRun /\ run[p].id = 0
         \/ x.at = at /\ x.id = run[p].id /\ x.id # 0 /\ x.why = run[p].why
  <2>1. 0 \in 0..MaxRows
    BY SiteQueueConstants
  <2>2. run[p] \in Runs /\ keep \in BOOLEAN /\ at \in {"threw", "done"}
    BY RunType DEF Runs
  <2> HIDE DEF at, keep
  <2> QED
    BY <2>1, <2>2 DEF Runs, NoRun
<1> HIDE DEF x
<1>3. run[p].id \in Nat /\ (run[p].id # 0 => run[p].id \in Ids)
  BY RunType
<1>4. Histories
  <2>1. owed' \in BOOLEAN /\ trace' \in BOOLEAN
    BY QueueTypes DEF After
  <2>2. crashed' \subseteq Ids
    BY <1>3, QueueTypes DEF After
  <2> QED
    BY <2>1, <2>2 DEF Histories
<1>5. db' = IF o.said = "lost" /\ run[p].id # 0
            THEN [o.db EXCEPT !.row[run[p].id] = "failed"] ELSE o.db
  BY <1>3 DEF After
<1>6. CASE run[p].id = 0
  BY <1>1, <1>2, <1>4, <1>5, <1>6, WorkEnds
<1>7. CASE run[p].id # 0 /\ o.said # "lost"
  BY <1>1, <1>2, <1>4, <1>5, <1>7, WorkEnds
<1>8. CASE run[p].id # 0 /\ o.said = "lost"
  BY <1>1, <1>2, <1>4, <1>5, <1>8, WorkEnds
<1> QED
  BY <1>6, <1>7, <1>8

(* A marker is written, or refused, without the queue lock.                  *)
LEMMA NoLockFields ==
  ASSUME QInv, NEW d \in NoLock(db)
  PROVE  /\ d \in Stores /\ Same(db, d) /\ Numbering(d)
         /\ \A x \in Refused(d, 1) : Kept(db, x) /\ Same(db, x)
         /\ \A m \in {NoMark} \cup Markers({"retry"}) :
              LET x == [d EXCEPT !.e = m]
              IN /\ Kept(db, x) /\ x.row = db.row /\ x.cron = db.cron /\ x.e = m
                 /\ x.r = db.r /\ x.dead = db.dead /\ x.counted = db.counted
         /\ \A m \in {NoMark} \cup Markers({"retry", "stop"}) :
              LET x == [d EXCEPT !.r = m]
              IN /\ Kept(db, x) /\ x.row = db.row /\ x.cron = db.cron /\ x.e = db.e
                 /\ x.r = m /\ x.dead = db.dead /\ x.counted = db.counted
<1>1. db \in Stores /\ Numbering(db)
  BY QueueTypes
<1>2. d \in Stores /\ Same(db, d)
  BY <1>1, RefusedFields DEF NoLock, Same
<1>3. Numbering(d)
  BY <1>1, <1>2 DEF Same, Numbering
<1>4. \A x \in Refused(d, 1) : Kept(db, x) /\ Same(db, x)
  <2> TAKE x \in Refused(d, 1)
  <2>1. x \in Stores /\ Same(d, x)
    BY <1>2, RefusedFields
  <2> QED
    BY <1>1, <1>2, <2>1, SameKept DEF Same
<1>5. ASSUME NEW m \in {NoMark} \cup Markers({"retry"}), NEW x, x = [d EXCEPT !.e = m]
      PROVE  /\ Kept(db, x) /\ x.row = db.row /\ x.cron = db.cron /\ x.e = m
             /\ x.r = db.r /\ x.dead = db.dead /\ x.counted = db.counted
  <2>1. /\ x \in Stores /\ x.row = d.row /\ x.cron = d.cron /\ x.e = m
        /\ x.r = d.r /\ x.dead = d.dead /\ x.counted = d.counted /\ x.succ = d.succ /\ x.c = d.c
    BY <1>2, <1>5 DEF Stores
  <2> QED
    BY <1>2, <1>3, <2>1 DEF Same, Kept, Steady, Numbering
<1>6. ASSUME NEW m \in {NoMark} \cup Markers({"retry", "stop"}), NEW x, x = [d EXCEPT !.r = m]
      PROVE  /\ Kept(db, x) /\ x.row = db.row /\ x.cron = db.cron /\ x.e = db.e
             /\ x.r = m /\ x.dead = db.dead /\ x.counted = db.counted
  <2>1. /\ x \in Stores /\ x.row = d.row /\ x.cron = d.cron /\ x.e = d.e
        /\ x.r = m /\ x.dead = d.dead /\ x.counted = d.counted /\ x.succ = d.succ /\ x.c = d.c
    BY <1>2, <1>6 DEF Stores
  <2> QED
    BY <1>2, <1>3, <2>1 DEF Same, Kept, Steady, Numbering
<1> QED
  BY <1>2, <1>3, <1>4, <1>5, <1>6

LEMMA Floors ==
  ASSUME QInv, NEW p \in Runners
  PROVE  /\ FloorOf(p) \in 0..MaxRows /\ FloorOf(p) \in Nat
         /\ run[p].id > 0 => FloorOf(p) = run[p].id
         /\ run[p].id = 0 => FloorOf(p) = db.succ
         /\ \A kind \in {"retry", "stop"} : Decision(p, kind) \in Markers({"retry", "stop"})
         /\ Retry(NoFloor) \in {NoMark} \cup Markers({"retry"})
<1>1. /\ db.succ \in 0..MaxRows /\ db.succ \in Nat /\ MaxRows \in Nat
      /\ run[p].id \in 0..MaxRows /\ run[p].id \in Nat
  BY QueueTypes, RunType
<1>2. FloorOf(p) \in 0..MaxRows /\ FloorOf(p) \in Nat
  BY <1>1 DEF FloorOf
<1> QED
  BY <1>1, <1>2 DEF FloorOf, Decision, Markers, Retry, NoFloor

LEMMA FinishKeeps ==
  ASSUME QInv, NEW p \in Runners, Finish(p)
  PROVE  QInv'
<1>1. Working(p) /\ Ends(p, "done") /\ db' = db /\ drain' = drain
  BY DEF Finish
<1>2. Histories /\ DrainFits
  BY <1>1, QueueTypes, DrainKept DEF Finish, Still, Histories
<1>3. Kept(db, db')
  BY <1>1, QueueTypes DEF Kept, Steady
<1> QED
  BY <1>1, <1>2, <1>3, EndsKeeps

LEMMA AgainKeeps ==
  ASSUME QInv, NEW p \in Runners, Again(p)
  PROVE  QInv'
<1>1. /\ Working(p) /\ hook' = hook /\ failed' \in BOOLEAN /\ kills' \in Nat /\ asks' \in Nat
      /\ stopped' \in BOOLEAN /\ exposed' \in BOOLEAN
      /\ UNCHANGED <<kills, asks, stopped, exposed, failed>>
  BY QueueTypes DEF Again, Still
<1>2. ASSUME NEW o \in Enqueued(db, FloorOf(p)), After(p, o), drain' = drain
      PROVE  QInv'
  <2>1. Kept(db, o.db)
    BY QueueTypes, Floors, EnqueuedFields
  <2> QED
    BY <1>1, <1>2, <2>1, DrainKept, AfterKeeps
<1>3. ASSUME NEW d \in NoLock(db), Rewritten("e"),
             After(p, [db |-> [d EXCEPT !.e = Retry(NoFloor)], said |-> "marked"])
      PROVE  QInv'
  <2>1. Kept(db, [d EXCEPT !.e = Retry(NoFloor)])
    BY NoLockFields, Floors
  <2>2. DrainFits
    BY <1>3, DrainKept
  <2> QED
    BY <1>1, <1>3, <2>1, <2>2, AfterKeeps
<1>4. ASSUME NEW d \in NoLock(db), db' \in Refused(d, 1), Ends(p, "done"), trace' = TRUE,
             UNCHANGED <<drain, owed, crashed>>
      PROVE  QInv'
  <2>1. Kept(db, db')
    BY <1>4, NoLockFields
  <2>2. Histories
    BY <1>1, <1>4, QueueTypes DEF Histories
  <2> QED
    BY <1>1, <1>4, <2>1, <2>2, DrainKept, EndsKeeps
<1> QED
  BY <1>2, <1>3, <1>4 DEF Again

LEMMA KeepKeeps ==
  ASSUME QInv, DrainFits, NEW p \in Runners, Working(p), NEW kind \in {"retry", "stop"},
         NEW o, Kept(db, o.db), Keep(p, kind, o),
         hook' = hook, failed' \in BOOLEAN, kills' \in Nat, asks' \in Nat, exposed' \in BOOLEAN
  PROVE  QInv'
<1>1. CASE kind = "retry"
  BY <1>1, AfterKeeps DEF Keep
<1>2. CASE kind # "retry"
  <2>1. Histories /\ Ends(p, "done") /\ db' = o.db
    BY <1>2, QueueTypes DEF Keep, Histories
  <2> QED
    BY <2>1, EndsKeeps
<1> QED
  BY <1>1, <1>2

LEMMA SupersedeKeeps ==
  ASSUME QInv, NEW p \in Runners, NEW kind \in {"retry", "stop"}, Supersede(p, kind)
  PROVE  QInv'
<1>1. /\ Working(p) /\ hook' = hook /\ failed' \in BOOLEAN /\ kills' \in Nat /\ asks' \in Nat
      /\ exposed' \in BOOLEAN /\ UNCHANGED <<kills, asks, exposed>>
  BY QueueTypes DEF Supersede
<1>2. Decision(p, kind) \in Markers({"retry", "stop"})
      /\ Decision(p, kind) \in {NoMark} \cup Markers({"retry", "stop"})
  BY Floors DEF Markers
<1>3. ASSUME NEW o \in Superseded(db, Decision(p, kind)), Keep(p, kind, o), drain' = drain
      PROVE  QInv'
  <2>1. Kept(db, o.db)
    BY <1>2, QueueTypes, SupersededFields
  <2> QED
    BY <1>1, <1>3, <2>1, DrainKept, KeepKeeps
<1>4. ASSUME NEW d \in NoLock(db), Rewritten("r"),
             Keep(p, kind, [db |-> [d EXCEPT !.r = Decision(p, kind)], said |-> "marked"])
      PROVE  QInv'
  <2>1. Kept(db, [d EXCEPT !.r = Decision(p, kind)])
    BY <1>2, NoLockFields
  <2>2. DrainFits
    BY <1>4, DrainKept
  <2> QED
    BY <1>1, <1>4, <2>1, <2>2, KeepKeeps
<1>5. ASSUME db' \in Refused(db, 1) \/ \E d \in NoLock(db) : db' \in Refused(d, 1),
             Ends(p, "done"), trace' = TRUE, UNCHANGED <<drain, owed, stopped, crashed>>
      PROVE  QInv'
  <2>1. Kept(db, db')
    BY <1>5, NoLockFields, RefusedFields, SameKept, QueueTypes
  <2>2. Histories
    BY <1>1, <1>5, QueueTypes DEF Histories
  <2> QED
    BY <1>1, <1>5, <2>1, <2>2, DrainKept, EndsKeeps
<1> QED
  BY <1>3, <1>4, <1>5 DEF Supersede

LEMMA ThrowKeeps ==
  ASSUME QInv, NEW p \in Runners, Throw(p)
  PROVE  QInv'
<1>1. Working(p) /\ Still /\ UNCHANGED <<drain, kills, asks, stopped, exposed>>
  BY DEF Throw
<1>2. CASE run[p].id = 0
  <2>1. db' = db /\ run' = [run EXCEPT ![p] = NoRun] /\ Histories /\ DrainFits
    BY <1>1, <1>2, QueueTypes, RunType, DrainKept DEF Throw, Still, Histories
  <2>2. Kept(db, db) /\ NoRun \in Runs
    <3>1. 0 \in 0..MaxRows
      BY SiteQueueConstants
    <3> QED
      BY <3>1, QueueTypes DEF Kept, Steady, NoRun, Runs
  <2> QED
    BY <1>1, <2>1, <2>2, WorkEnds
<1>3. CASE run[p].id # 0
  <2> DEFINE i == run[p].id
  <2>1. i \in Ids /\ db.row[i] = "running" /\ db.succ < i
    BY <1>1, <1>3, RunType DEF RunFits, Working
  <2>2. db' = [db EXCEPT !.row[i] = "failed"] /\ RowFails(p, i, "threw", "crash")
        /\ owed' = (owed \/ run[p].debt) /\ trace' = trace
    BY <1>3 DEF Throw
  <2>3. RowSet(db, db', i, "failed") /\ Numbering(db')
    BY <2>1, <2>2, RowSetFields, QueueTypes
  <2>4. \A q \in Runners : q # p => run[q].id # i
    BY <1>3 DEF QInv, Apart
  <2>5. Holds(p)
    BY <1>1 DEF Holds, Working
  <2>6. owed' \in BOOLEAN /\ trace' \in BOOLEAN
    BY <2>2, QueueTypes, RunType
  <2> HIDE DEF i
  <2> QED
    BY <1>1, <2>1, <2>2, <2>3, <2>4, <2>5, <2>6, FailedRow
<1> QED
  BY <1>2, <1>3

LEMMA CleanKeeps ==
  ASSUME QInv, NEW p \in Runners, Clean(p)
  PROVE  QInv'
<1>1. PICK i \in Ids : /\ Orphan(i) /\ db' = [db EXCEPT !.row[i] = "failed"]
                       /\ RowFails(p, i, "found", "crash")
  BY DEF Clean
<1>2. RowSet(db, db', i, "failed") /\ Numbering(db') /\ \A q \in Runners : run[q].id # i
  BY <1>1, RowSetFields, QueueTypes DEF Orphan
<1>3. drain' = drain /\ Still /\ owed' = owed /\ trace' = trace
      /\ UNCHANGED <<kills, asks, stopped, exposed>>
  BY DEF Clean
<1> QED
  BY <1>1, <1>2, <1>3, QueueTypes, FailedRow DEF Orphan

(* on_executed: the watermark comes to the row of the run, which is above it. *)
LEMMA HealthyFields ==
  ASSUME QInv, NEW p \in Runners, run[p].at = "done"
  PROVE  LET i == run[p].id
             x == Healthy(db, p)
         IN /\ i \in Ids /\ db.row[i] = "running" /\ db.succ < i
            /\ x \in Stores /\ Numbering(x)
            /\ x.row = db.row /\ x.cron = db.cron /\ x.e = db.e /\ x.r = db.r /\ x.c = db.c
            /\ x.dead = (db.dead /\ run[p].keep) /\ x.counted = {} /\ x.succ = i
<1> DEFINE i == run[p].id
           x == Healthy(db, p)
<1>1. i \in Ids /\ db.row[i] = "running" /\ db.succ < i
  BY RunType DEF RunFits
<1>2. db \in Stores /\ Numbering(db) /\ db.succ \in Nat /\ i \in Nat /\ Ids \subseteq 0..MaxRows
      /\ run[p].keep \in BOOLEAN
  BY QueueTypes, RunType, IdsType
<1>3. Max({db.succ, i}) = i
  BY <1>1, <1>2 DEF Max
<1>4. x = [db EXCEPT !.succ = i, !.counted = {}, !.dead = @ /\ run[p].keep]
  BY <1>3 DEF Healthy
<1> HIDE DEF i, x
<1>5. /\ x \in Stores
      /\ x.row = db.row /\ x.cron = db.cron /\ x.e = db.e /\ x.r = db.r /\ x.c = db.c
      /\ x.dead = (db.dead /\ run[p].keep) /\ x.counted = {} /\ x.succ = i
  BY <1>1, <1>2, <1>4 DEF Stores
<1>6. \A j \in Ids : db.row[j] = "pending" => j > i
  <2> TAKE j \in Ids
  <2> HAVE db.row[j] = "pending"
  <2>1. i <= j /\ i # j /\ i \in Nat /\ j \in Nat
    BY <1>1, <1>2, IdsType DEF Numbering
  <2> QED
    BY <2>1
<1>7. \A j \in Ids : j <= i => db.row[j] # "none"
  <2> TAKE j \in Ids
  <2>1. j \in Nat /\ i \in Nat
    BY <1>2, IdsType
  <2> QED
    BY <1>1, <1>2, <2>1 DEF Numbering
<1>8. Numbering(x)
  BY <1>2, <1>5, <1>6, <1>7 DEF Numbering
<1> QED
  BY <1>1, <1>5, <1>8 DEF i, x

(* A healthy run ends, or dies once it is recorded as one. *)
LEMMA HealthyEndKeeps ==
  ASSUME QInv, Histories, drain' = drain, NEW p \in Runners, run[p].at = "done",
         run' = [run EXCEPT ![p] = NoRun],
         db' = Healthy(db, p) \/ db' = Complete(Healthy(db, p), p)
  PROVE  QInv'
<1> DEFINE i == run[p].id
           h == Healthy(db, p)
<1>1. /\ i \in Ids /\ db.row[i] = "running" /\ db.succ < i
      /\ h \in Stores /\ Numbering(h) /\ h.row = db.row /\ h.c = db.c
  BY HealthyFields
<1>2. Complete(h, p) = [h EXCEPT !.row[i] = "complete"]
  BY DEF Complete
<1> HIDE DEF i, h
<1>3. db' \in Stores /\ Numbering(db') /\ db'.c = db.c
      /\ \A j \in Ids : j # i => db'.row[j] = db.row[j]
  <2>1. CASE db' = [h EXCEPT !.row[i] = "complete"]
    <3>1. RowSet(h, db', i, "complete") /\ Numbering(db')
      BY <1>1, <2>1, RowSetFields
    <3> QED
      BY <1>1, <3>1 DEF RowSet
  <2>2. CASE db' = h
    BY <1>1, <2>2
  <2> QED
    BY <1>2, <2>1, <2>2 DEF h
<1>4. ASSUME NEW q \in Runners, q # p PROVE RunFits(db', run[q]) /\ run[q].id # i
  <2>1. ~Holds(q) /\ run[q].id # i
    BY <1>1, <1>4, IdsType DEF i, QInv, Apart, Holds
  <2> QED
    BY <1>3, <2>1, RunType DEF RunFits, Holds
<1>5. NoRun \in Runs /\ RunFits(db', NoRun)
  <2>1. 0 \in 0..MaxRows
    BY SiteQueueConstants
  <2> QED
    BY <2>1 DEF NoRun, Runs, RunFits
<1>6. DrainFits
  BY DrainKept
<1>7. \A j \in Ids : db'.c[j] # "no" \/ (drain.op = "c" /\ drain.id = j) =>
        db'.row[j] = "failed" /\ 0 # j /\ \A q \in Runners : q # p => run[q].id # j
  BY <1>1, <1>3, IdsType DEF QInv, Attended
<1>8. drain'.op = "c" => db'.row[drain'.id] = "failed" /\ 0 # drain'.id
  BY <1>7 DEF QInv, Attended
<1>9. NoRun.id = 0 /\ NoRun.at = "idle"
  BY DEF NoRun
<1> QED
  BY <1>3, <1>4, <1>5, <1>6, <1>7, <1>8, <1>9, StepKeeps

(* A process leaves its run.  The failure it looked after may be deferred.    *)
LEMMA GoneKeeps ==
  ASSUME QInv, Histories, drain' = drain, NEW p \in Runners, run' = [run EXCEPT ![p] = NoRun],
         db' \in Stores, Numbering(db'), db'.succ = db.succ,
         \A i \in Ids : db.row[i] \in {"running", "failed"} => db'.row[i] = db.row[i],
         \A i \in Ids : db'.c[i] = db.c[i] \/ (Fails(p) /\ i = run[p].id)
  PROVE  QInv'
<1>1. ASSUME NEW q \in Runners PROVE RunFits(db', run[q])
  BY RunType DEF RunFits
<1>2. NoRun \in Runs /\ RunFits(db', NoRun) /\ NoRun.id = 0 /\ NoRun.at = "idle"
  <2>1. 0 \in 0..MaxRows
    BY SiteQueueConstants
  <2> QED
    BY <2>1 DEF NoRun, Runs, RunFits
<1>3. DrainFits
  BY DrainKept
<1>4. \A j \in Ids : db'.c[j] # "no" \/ (drain.op = "c" /\ drain.id = j) =>
        db'.row[j] = "failed" /\ 0 # j /\ \A q \in Runners : q # p => run[q].id # j
  <2> TAKE j \in Ids
  <2>1. CASE Fails(p) /\ j = run[p].id
    <3>1. db.row[j] = "failed" /\ 0 # j
      BY <2>1, RunType, IdsType DEF RunFits, Fails
    <3> QED
      BY <2>1, <3>1 DEF QInv, Apart
  <2>2. CASE db'.c[j] = db.c[j]
    BY <2>2, IdsType DEF QInv, Attended
  <2> QED
    BY <2>1, <2>2
<1>5. drain'.op = "c" => db'.row[drain'.id] = "failed" /\ 0 # drain'.id
  BY <1>4 DEF QInv, Attended
<1> QED
  BY <1>1, <1>2, <1>3, <1>4, <1>5, StepKeeps

LEMMA ExecutedKeeps ==
  ASSUME QInv, NEW p \in Runners, Executed(p)
  PROVE  QInv'
<1>1. run[p].at = "done" /\ run' = [run EXCEPT ![p] = NoRun] /\ drain' = drain
  BY DEF Executed
<1>2. Histories
  BY QueueTypes DEF Executed, Still, Histories
<1>3. CASE db' = Complete(Healthy(db, p), p)
  BY <1>1, <1>2, <1>3, HealthyEndKeeps
<1>4. ASSUME NEW d \in Refused(db, 1), db' = Complete(d, p) PROVE QInv'
  <2> DEFINE i == run[p].id
  <2>1. i \in Ids /\ db.row[i] = "running"
    BY <1>1, HealthyFields
  <2>2. d \in Stores /\ Same(db, d) /\ Numbering(d)
    BY QueueTypes, RefusedFields DEF Same, Numbering
  <2>3. db' = [d EXCEPT !.row[i] = "complete"]
    BY <1>4 DEF Complete
  <2> HIDE DEF i
  <2>4. RowSet(d, db', i, "complete") /\ Numbering(db')
    BY <2>1, <2>2, <2>3, RowSetFields DEF Same
  <2>5. RowSet(db, db', i, "complete")
    BY <2>2, <2>4 DEF RowSet, Same
  <2>6. \A q \in Runners : q # p => run[q].id # i
    BY <2>1, IdsType DEF QInv, Apart, i
  <2>7. NoRun \in Runs /\ RunFits(db', NoRun) /\ NoRun.id = 0 /\ NoRun.at = "idle"
    <3>1. 0 \in 0..MaxRows
      BY SiteQueueConstants
    <3> QED
      BY <3>1 DEF NoRun, Runs, RunFits
  <2> QED
    BY <1>1, <1>2, <2>1, <2>4, <2>5, <2>6, <2>7, RowStepKeeps
<1> QED
  BY <1>3, <1>4 DEF Executed

LEMMA SettleKeeps ==
  ASSUME QInv, NEW p \in Runners, Settle(p)
  PROVE  QInv'
<1> DEFINE i == run[p].id
           why == run[p].why
           floor == IF run[p].at = "threw" THEN i ELSE db.succ
<1>1. Fails(p) /\ run' = [run EXCEPT ![p] = NoRun] /\ drain' = drain
  BY DEF Settle, Fails
<1>2. i \in Ids /\ why \in {"busy", "crash"} /\ floor \in 0..MaxRows
  BY <1>1, RunType, QueueTypes DEF RunFits, Fails
<1>3. Histories
  <2>1. exposed' \in BOOLEAN /\ trace' \in BOOLEAN
    BY QueueTypes DEF Settle, IsExposed
  <2> QED
    BY <2>1, QueueTypes DEF Settle, Still, Histories
<1>4. /\ db \in Stores /\ Numbering(db)
  BY QueueTypes
<1>5. ASSUME NEW o \in Decided(db, i, why, floor), db' = o.db PROVE QInv'
  <2>1. Kept(db, db')
    BY <1>2, <1>4, <1>5, DecidedFields DEF DecidedAs
  <2> QED
    BY <1>1, <1>3, <2>1, GoneKeeps DEF Kept, Steady
<1>6. ASSUME NEW d, d \in NoLock(db) \/ \E o \in Decided(db, i, why, floor) :
                                            d = o.db /\ o.said = "lost",
             db' = Deferred(d, i, why) \/ db' \in Refused(d, 1)
      PROVE  QInv'
  <2>1. Kept(db, d)
    BY <1>2, <1>4, <1>6, NoLockFields, SameKept, DecidedFields DEF DecidedAs
  <2>2. CASE db' \in Refused(d, 1)
    <3>1. db' \in Stores /\ Same(d, db')
      BY <2>1, <2>2, RefusedFields DEF Kept
    <3>2. Numbering(db') /\ Steady(db, db')
      BY <2>1, <3>1 DEF Kept, Same, Numbering, Steady
    <3> QED
      BY <1>1, <1>3, <3>1, <3>2, GoneKeeps DEF Steady
  <2>3. CASE db' = Deferred(d, i, why)
    <3> DEFINE C == [d.c EXCEPT ![i] = IF @ = "no" THEN why ELSE @]
    <3>1. db' = [d EXCEPT !.c = C]
      BY <2>1, <2>3 DEF Deferred, Kept, Stores
    <3>2. C \in [Ids -> {"no", "busy", "crash"}] /\ \A j \in Ids : j # i => C[j] = d.c[j]
      BY <1>2, <2>1 DEF Kept, Stores
    <3> HIDE DEF C
    <3>3. db' \in Stores /\ db'.row = d.row /\ db'.c = C /\ db'.succ = d.succ
      BY <2>1, <3>1, <3>2 DEF Kept, Stores
    <3>4. Numbering(db') /\ db'.succ = db.succ
          /\ \A j \in Ids : db.row[j] \in {"running", "failed"} => db'.row[j] = db.row[j]
      BY <2>1, <3>3 DEF Kept, Numbering, Steady
    <3>5. \A j \in Ids : db'.c[j] = db.c[j] \/ (Fails(p) /\ j = run[p].id)
      BY <1>1, <2>1, <3>2, <3>3 DEF Kept, Steady
    <3> QED
      BY <1>1, <1>3, <3>3, <3>4, <3>5, GoneKeeps
  <2> QED
    BY <1>6, <2>2, <2>3
<1> QED
  BY <1>5, <1>6 DEF Settle

(* What a process that dies leaves: nothing, part of a new decision, the        *)
(* record of a healthy run, or the count of a failure.                      *)
LEMMA HalfFields ==
  ASSUME QInv, NEW p \in Runners, db' \in Half(p)
  PROVE  \/ /\ Kept(db, db') /\ db'.e = db.e /\ (db.dead => db'.dead)
            /\ db' = db \/ (hook = "order" /\ Working(p) /\ db'.counted = db.counted)
                 \/ (/\ Fails(p) /\ db'.counted = db.counted \cup {run[p].id}
                     /\ db'.row = db.row /\ db'.cron = db.cron /\ db'.r = db.r /\ db'.dead = db.dead)
            /\ hook = "order" /\ Working(p) =>
                 db'.r \in {db.r} \cup {Decision(p, kind) : kind \in {"retry", "stop"}}
         \/ run[p].at = "done" /\ db' = Healthy(db, p)
<1>1. db \in Stores /\ Numbering(db) /\ Kept(db, db)
  BY QueueTypes DEF Kept, Steady
<1>2. ASSUME run[p].at = "work", hook = "order", db' # db,
             db' \in UNION {LET m == Decision(p, kind)
                                b == Announced(db, m)
                            IN {b, Cancelled(b)} \cup {o.db : o \in CarriedOut(b, m)}
                            : kind \in {"retry", "stop"}}
      PROVE  /\ Kept(db, db') /\ db'.e = db.e /\ (db.dead => db'.dead)
             /\ db'.counted = db.counted
             /\ db'.r \in {db.r} \cup {Decision(p, kind) : kind \in {"retry", "stop"}}
  <2>1. PICK kind \in {"retry", "stop"} :
          LET m == Decision(p, kind)
              b == Announced(db, m)
          IN db' \in {b, Cancelled(b)} \cup {o.db : o \in CarriedOut(b, m)}
    BY <1>2
  <2> DEFINE m == Decision(p, kind)
             b == Announced(db, m)
  <2>2. m \in Markers({"retry", "stop"})
    BY Floors
  <2> HIDE DEF m
  <2>3. /\ b \in Stores /\ b.row = db.row /\ b.cron = db.cron /\ b.e = db.e /\ b.c = db.c
        /\ b.dead = db.dead /\ b.counted = db.counted /\ b.succ = db.succ
        /\ b.r \in {db.r, m}
    BY <1>1, <2>2, AnnouncedFields
  <2>4. db' \in {b, Cancelled(b)} \cup {o.db : o \in CarriedOut(b, m)}
    BY <2>1 DEF m
  <2> HIDE DEF b
  <2>5. Numbering(b) /\ \A x : Kept(b, x) <=> Kept(db, x)
    BY <1>1, <2>3 DEF Numbering, Steady, Kept
  <2>6. CASE db' = b
    BY <2>3, <2>5, <2>6 DEF Kept, Steady, m
  <2>7. CASE db' = Cancelled(b)
    <3>1. /\ db' \in Stores /\ Numbering(db') /\ Steady(b, db') /\ db'.e = b.e /\ db'.r = b.r
          /\ db'.dead = b.dead /\ db'.counted = b.counted
      BY <2>3, <2>5, <2>7, CancelledFields
    <3> QED
      BY <2>3, <2>5, <3>1 DEF Kept, m
  <2>8. ASSUME NEW o \in CarriedOut(b, m), db' = o.db
        PROVE  /\ Kept(db, db') /\ db'.e = db.e /\ (db.dead => db'.dead)
               /\ db'.counted = db.counted
               /\ db'.r \in {db.r} \cup {Decision(p, k) : k \in {"retry", "stop"}}
    <3>1. /\ Kept(b, db') /\ db'.counted = b.counted /\ db'.e = b.e
          /\ (b.dead => db'.dead) /\ db'.r \in {b.r, m}
      BY <2>2, <2>3, <2>5, <2>8, CarriedOutFields
    <3> QED
      BY <2>3, <2>5, <3>1 DEF m
  <2> QED
    BY <2>4, <2>6, <2>7, <2>8
<1>3. ASSUME run[p].at \in {"threw", "found"}, db' = [db EXCEPT !.counted = @ \cup {run[p].id}]
      PROVE  /\ Kept(db, db') /\ db'.e = db.e /\ db'.counted = db.counted \cup {run[p].id}
             /\ db'.row = db.row /\ db'.cron = db.cron /\ db'.r = db.r /\ db'.dead = db.dead
  <2>1. run[p].id \in Ids
    BY <1>3, RunType DEF RunFits
  <2> DEFINE S == db.counted \cup {run[p].id}
  <2>2. S \subseteq Ids /\ db' = [db EXCEPT !.counted = S]
    BY <1>1, <1>3, <2>1 DEF Stores
  <2> HIDE DEF S
  <2>3. /\ db' \in Stores /\ db'.row = db.row /\ db'.cron = db.cron /\ db'.e = db.e
        /\ db'.r = db.r /\ db'.c = db.c /\ db'.dead = db.dead /\ db'.counted = S
        /\ db'.succ = db.succ
    BY <1>1, <2>2 DEF Stores
  <2> QED
    BY <1>1, <2>3 DEF S, Kept, Numbering, Steady
<1>4. \/ db' = db
      \/ /\ run[p].at = "work" /\ hook = "order"
         /\ db' \in UNION {LET m == Decision(p, kind)
                               b == Announced(db, m)
                           IN {b, Cancelled(b)} \cup {o.db : o \in CarriedOut(b, m)}
                           : kind \in {"retry", "stop"}}
      \/ run[p].at = "done" /\ db' = Healthy(db, p)
      \/ /\ run[p].at \in {"threw", "found"}
         /\ db' = [db EXCEPT !.counted = @ \cup {run[p].id}]
  BY DEF Half
<1> QED
  BY <1>1, <1>2, <1>3, <1>4 DEF Working, Fails

LEMMA DieKeeps ==
  ASSUME QInv, NEW p \in Runners, Die(p)
  PROVE  QInv'
<1>1. /\ run' = [run EXCEPT ![p] = NoRun] /\ drain' = drain /\ db' \in Half(p)
      /\ hook' = hook /\ kills' = kills + 1 /\ asks' = asks
  BY DEF Die
<1>2. Histories
  <2>1. kills' \in Nat
    BY <1>1, QueueTypes
  <2>2. failed' \in BOOLEAN /\ owed' \in BOOLEAN /\ trace' \in BOOLEAN /\ stopped' \in BOOLEAN
    BY QueueTypes DEF Die, Working
  <2>3. exposed' \in BOOLEAN /\ crashed' \subseteq Ids
    BY QueueTypes DEF Die
  <2> QED
    BY <1>1, <2>1, <2>2, <2>3, QueueTypes DEF Histories
<1>3. CASE Kept(db, db')
  BY <1>1, <1>2, <1>3, GoneKeeps DEF Kept, Steady
<1>4. CASE run[p].at = "done" /\ db' = Healthy(db, p)
  BY <1>1, <1>2, <1>4, HealthyEndKeeps
<1> QED
  BY <1>1, <1>3, <1>4, HalfFields

(* A marker is acted on: what an older run made void is left alone, and what   *)
(* is queued again in vain is the marker that it was.                        *)
DrainedAs(op, o) ==
  /\ Kept(db, o.db) /\ o.db.counted = db.counted /\ (db.dead => o.db.dead)
  /\ o.db.e = db.e /\ o.db.r = db.r
  /\ o.said \in {"queued", "marked", "dead", "lost", "old"}
  /\ o.said = "old" => db.succ > db[op].floor /\ o.db = db
  /\ o.said = "dead" => o.db.dead
  /\ db[op].kind = "retry" /\ o.said = "queued" => Queued(o.db)
  /\ db[op].kind = "stop" /\ o.said # "old" => o.said = "queued" /\ ~Queued(o.db)
  /\ o.said # "old" => db.succ <= db[op].floor
  /\ op = "e" /\ o.said = "lost" => o.db.row = db.row /\ o.db.cron = db.cron
  /\ op = "r" => o.said # "lost"

LEMMA DrainMarkerFields ==
  ASSUME QInv, NEW op \in {"e", "r"}, DrainMarker(op)
  PROVE  /\ db[op] # NoMark /\ db[op].kind \in {"retry", "stop"}
         /\ op = "e" => db[op].kind = "retry"
         /\ db[op].floor \in 0..MaxRows
         /\ \E o : DrainedAs(op, o) /\ Drains(op, 0, o, db[op].floor)
<1> DEFINE m == db[op]
<1>1. /\ db \in Stores /\ Numbering(db) /\ db.succ \in Nat /\ Kept(db, db)
      /\ MaxRows \in Nat
  BY QueueTypes DEF Kept, Steady
<1>2. m # NoMark /\ m \in Markers({"retry", "stop"}) /\ (op = "e" => m \in Markers({"retry"}))
  BY <1>1 DEF DrainMarker, Stores, Markers
<1>3. /\ m.kind \in {"retry", "stop"} /\ (op = "e" => m.kind = "retry")
      /\ m.floor \in 0..MaxRows /\ m.floor \in Nat
  BY <1>1, <1>2 DEF Markers
<1> DEFINE outcomes ==
       IF db.succ > m.floor THEN {[db |-> db, said |-> "old"]}
       ELSE IF op = "r" THEN {LeftMarked(o) : o \in CarriedOut(db, m)}
       ELSE IF Queued(db) THEN {[db |-> db, said |-> "queued"]}
       ELSE Scheduled(db, "e", m)
<1>4. PICK o \in outcomes : Drains(op, 0, o, m.floor)
  BY DEF DrainMarker
<1>5. ASSUME o = [db |-> db, said |-> "old"] /\ db.succ > m.floor
      PROVE  DrainedAs(op, o)
  <2>1. o.db = db /\ o.said = "old"
    BY <1>5
  <2> HIDE DEF outcomes
  <2> QED
    BY <1>1, <1>3, <1>5, <2>1 DEF DrainedAs
<1>6. ASSUME o = [db |-> db, said |-> "queued"] /\ op = "e" /\ Queued(db), ~(db.succ > m.floor)
      PROVE  DrainedAs(op, o)
  <2>1. o.db = db /\ o.said = "queued"
    BY <1>6
  <2> HIDE DEF outcomes
  <2> QED
    BY <1>1, <1>3, <1>6, <2>1 DEF DrainedAs
<1>7. ASSUME o \in Scheduled(db, "e", m) /\ op = "e" /\ ~Queued(db), ~(db.succ > m.floor)
      PROVE  DrainedAs(op, o)
  <2>1. /\ Kept(db, o.db) /\ o.db.counted = db.counted
        /\ o.said \in {"queued", "marked", "dead", "lost"}
        /\ o.said = "queued" => Queued(o.db)
        /\ o.said # "queued" => o.db.row = db.row /\ o.db.cron = db.cron
        /\ o.db.dead = (db.dead \/ o.said = "dead")
        /\ o.db.e = IF o.said = "marked" THEN m ELSE db.e
        /\ o.db.r = db.r
    BY <1>1, <1>2, <1>7, ScheduledFields
  <2>2. o.db.e = db.e
    BY <1>7, <2>1
  <2>3. db.succ <= m.floor
    BY <1>1, <1>3, <1>7
  <2> HIDE DEF outcomes
  <2> QED
    BY <1>3, <1>7, <2>1, <2>2, <2>3 DEF DrainedAs
<1>8. ASSUME NEW x \in CarriedOut(db, m), o = LeftMarked(x), op = "r", ~(db.succ > m.floor)
      PROVE  DrainedAs(op, o)
  <2>1. /\ Kept(db, x.db) /\ x.db.counted = db.counted /\ x.db.e = db.e
        /\ x.said \in {"queued", "marked", "dead", "lost"}
        /\ m.kind = "stop" => x.said = "queued" /\ ~Queued(x.db)
        /\ m.kind = "retry" /\ x.said = "queued" => Queued(x.db)
        /\ x.db.dead = (db.dead \/ x.said = "dead")
        /\ x.db.r = IF x.said = "marked" THEN m ELSE db.r
    BY <1>1, <1>2, CarriedOutFields
  <2>2. DOMAIN x = {"db", "said"}
    <3>1. \E u, v : x = [db |-> u, said |-> v]
      BY DEF CarriedOut, Scheduled
    <3> QED
      BY <3>1
  <2>3. o.db = x.db /\ o.said = IF x.said = "lost" THEN "marked" ELSE x.said
    BY <1>8, <2>2 DEF LeftMarked
  <2>4. x.db.r = db.r
    BY <1>8, <2>1
  <2>5. db.succ <= m.floor
    BY <1>1, <1>3, <1>8
  <2> QED
    BY <1>3, <1>8, <2>1, <2>3, <2>4, <2>5 DEF DrainedAs
<1>9. DrainedAs(op, o)
  <2>1. \/ o = [db |-> db, said |-> "old"] /\ db.succ > m.floor
        \/ /\ ~(db.succ > m.floor)
           /\ \/ o = [db |-> db, said |-> "queued"] /\ op = "e" /\ Queued(db)
              \/ o \in Scheduled(db, "e", m) /\ op = "e" /\ ~Queued(db)
              \/ op = "r" /\ \E x \in CarriedOut(db, m) : o = LeftMarked(x)
    BY <1>4
  <2> QED
    BY <2>1, <1>5, <1>6, <1>7, <1>8
<1> HIDE DEF outcomes
<1> QED
  BY <1>2, <1>3, <1>4, <1>9

LEMMA DrainsFits ==
  ASSUME QInv, NEW op \in {"e", "r", "c"}, NEW i \in 0..MaxRows, NEW o, NEW floor,
         Drains(op, i, o, floor), op = "c" => i \in Ids /\ db.c[i] # "no"
  PROVE  /\ DrainFits /\ drain'.op = op /\ drain'.id = i
         /\ drain'.same = (o.said # "lost" /\ (o.said = "marked" => op = "c"))
<1> DEFINE same == o.said # "lost" /\ (o.said = "marked" => op = "c")
<1>1. drain' = [op |-> op, id |-> i, same |-> same] /\ same \in BOOLEAN
  BY DEF Drains
<1> HIDE DEF same
<1>2. /\ drain' \in [op : {"none", "e", "r", "c"}, id : 0..MaxRows, same : BOOLEAN]
      /\ drain'.op = op /\ drain'.id = i /\ drain'.same = same
  BY <1>1
<1> QED
  BY <1>2 DEF DrainFits, same

LEMMA DrainMarkerKeeps ==
  ASSUME QInv, NEW op \in {"e", "r"}, DrainMarker(op)
  PROVE  QInv'
<1>1. PICK o : DrainedAs(op, o) /\ Drains(op, 0, o, db[op].floor)
  BY DrainMarkerFields
<1>2. Kept(db, db') /\ run' = run
  BY <1>1 DEF DrainedAs, Drains, DrainMarker
<1>3. 0 \in 0..MaxRows
  BY SiteQueueConstants
<1>4. DrainFits
  BY <1>1, <1>3, DrainsFits
<1>5. Histories
  <2>1. exposed' \in BOOLEAN /\ stopped' \in BOOLEAN
    BY <1>1, QueueTypes DEF Drains, DrainMarker, IsExposed
  <2> QED
    BY <2>1, QueueTypes DEF DrainMarker, Still, Histories
<1> QED
  BY <1>2, <1>4, <1>5, KeptKeeps

LEMMA DrainFailureKeeps ==
  ASSUME QInv, NEW i \in Ids, DrainFailure(i)
  PROVE  QInv'
<1>1. PICK o \in Decided(db, i, db.c[i], db.succ) : Drains("c", i, o, db.succ)
  BY DEF DrainFailure
<1>2. db.c[i] \in {"busy", "crash"}
  BY QueueTypes DEF DrainFailure
<1>3. Kept(db, db') /\ run' = run
  BY <1>1, <1>2, QueueTypes, DecidedFields DEF DecidedAs, Drains, DrainFailure
<1>4. DrainFits
  BY <1>1, <1>2, DrainsFits, IdsType
<1>5. Histories
  <2>1. exposed' \in BOOLEAN
    BY <1>1, QueueTypes DEF Drains, IsExposed
  <2> QED
    BY <2>1, QueueTypes DEF DrainFailure, Still, Histories
<1> QED
  BY <1>3, <1>4, <1>5, KeptKeeps

(* A marker is deleted.                                                     *)
LEMMA WithoutFields ==
  ASSUME NEW d \in Stores, Numbering(d), NEW op \in {"e", "r", "c"}, NEW i, op = "c" => i \in Ids
  PROVE  LET x == Without(d, op, i)
         IN /\ x \in Stores /\ x.row = d.row /\ x.cron = d.cron /\ x.dead = d.dead
            /\ x.counted = d.counted /\ x.succ = d.succ /\ Numbering(x)
            /\ x.e = IF op = "e" THEN NoMark ELSE d.e
            /\ x.r = IF op = "r" THEN NoMark ELSE d.r
            /\ \A j \in Ids : x.c[j] = IF op = "c" /\ j = i THEN "no" ELSE d.c[j]
<1> DEFINE x == Without(d, op, i)
<1>1. /\ x \in Stores /\ x.row = d.row /\ x.cron = d.cron /\ x.dead = d.dead
      /\ x.counted = d.counted /\ x.succ = d.succ
      /\ x.e = IF op = "e" THEN NoMark ELSE d.e
      /\ x.r = IF op = "r" THEN NoMark ELSE d.r
      /\ \A j \in Ids : x.c[j] = IF op = "c" /\ j = i THEN "no" ELSE d.c[j]
  <2>1. CASE op = "c"
    <3> DEFINE C == [d.c EXCEPT ![i] = "no"]
    <3>1. x = [d EXCEPT !.c = C]
      BY <2>1 DEF Without, Stores
    <3>2. C \in [Ids -> {"no", "busy", "crash"}]
          /\ \A j \in Ids : C[j] = IF j = i THEN "no" ELSE d.c[j]
      BY <2>1 DEF Stores
    <3> HIDE DEF C, x
    <3> QED
      BY <2>1, <3>1, <3>2 DEF Stores
  <2>2. CASE op = "e"
    BY <2>2 DEF Without, Stores
  <2>3. CASE op = "r"
    BY <2>3 DEF Without, Stores
  <2> QED
    BY <2>1, <2>2, <2>3
<1> HIDE DEF x
<1>2. Numbering(x)
  BY <1>1 DEF Numbering
<1> QED
  BY <1>1, <1>2 DEF x

LEMMA DrainForgetsKeeps ==
  ASSUME QInv, DrainForgets
  PROVE  QInv'
<1>1. /\ drain # NoDrain /\ drain' = NoDrain /\ run' = run
      /\ \/ db' = IF drain.same THEN Without(db, drain.op, drain.id) ELSE db
         \/ drain.same /\ db' \in Refused(db, 1)
  BY DEF DrainForgets
<1>2. Histories /\ DrainFits
  BY <1>1, QueueTypes, DrainKept DEF DrainForgets, Still, Histories
<1>3. drain.op \in {"none", "e", "r", "c"} /\ (drain.op = "c" => drain.id \in Ids)
  BY QueueTypes DEF QInv, Attended
<1>4. CASE Kept(db, db')
  BY <1>1, <1>2, <1>4, KeptKeeps
<1>5. CASE drain.op # "none" /\ db' = Without(db, drain.op, drain.id)
  <2>1. db \in Stores /\ Numbering(db) /\ drain.op \in {"e", "r", "c"}
    BY <1>3, <1>5, QueueTypes
  <2> DEFINE x == Without(db, drain.op, drain.id)
  <2>2. /\ x \in Stores /\ Numbering(x)
        /\ x.row = db.row /\ x.succ = db.succ
        /\ \A j \in Ids : x.c[j] \in {"no", db.c[j]}
    <3>1. CASE drain.op = "c"
      BY <1>3, <2>1, <3>1, WithoutFields
    <3>2. CASE drain.op # "c"
      BY <2>1, <3>2, WithoutFields
    <3> QED
      BY <3>1, <3>2
  <2> HIDE DEF x
  <2> QED
    BY <1>1, <1>2, <1>5, <2>1, <2>2, QuietKeeps DEF x
<1>6. Kept(db, db)
  BY QueueTypes DEF Kept, Steady
<1>7. db' \in Refused(db, 1) => Kept(db, db')
  BY QueueTypes, RefusedFields, SameKept
<1>8. drain.op = "none" => ~drain.same
  BY DEF QInv, Attended, NoDrain
<1> QED
  BY <1>1, <1>3, <1>4, <1>5, <1>6, <1>7, <1>8

LEMMA DrainDiesKeeps ==
  ASSUME QInv, DrainDies
  PROVE  QInv'
<1>1. drain' = NoDrain /\ run' = run /\ db' = db /\ kills' = kills + 1
  BY DEF DrainDies
<1>2. Histories
  <2>1. kills' \in Nat
    BY <1>1, QueueTypes
  <2> QED
    BY <2>1, QueueTypes DEF DrainDies, Still, Histories
<1>3. Kept(db, db')
  BY <1>1, QueueTypes DEF Kept, Steady
<1> QED
  BY <1>1, <1>2, <1>3, DrainKept, KeptKeeps

(* A marker gives way to the record of a dead job. *)
LEMMA GivenUp ==
  ASSUME QInv, NEW op \in {"e", "r"}, DrainGivesUp(op)
  PROVE  /\ db' \in Stores /\ Numbering(db') /\ db'.row = db.row /\ db'.cron = db.cron
         /\ db'.dead /\ db'.counted = db.counted /\ db'.succ = db.succ
         /\ db'.e = (IF op = "e" THEN NoMark ELSE db.e)
         /\ db'.r = (IF op = "r" THEN NoMark ELSE db.r)
         /\ \A j \in Ids : db'.c[j] = db.c[j]
<1>1. PICK d \in NoLock(db) : db' = Without([d EXCEPT !.dead = TRUE], op, 0)
  BY DEF DrainGivesUp
<1>2. d \in Stores /\ Same(db, d)
  BY NoLockFields
<1> DEFINE x == [d EXCEPT !.dead = TRUE]
<1>3. /\ x \in Stores /\ x.row = d.row /\ x.cron = d.cron /\ x.e = d.e /\ x.r = d.r
      /\ x.c = d.c /\ x.dead /\ x.counted = d.counted /\ x.succ = d.succ
  BY <1>2 DEF Stores
<1>4. db' = Without(x, op, 0)
  BY <1>1
<1> HIDE DEF x
<1>5. Numbering(x)
  BY <1>2, <1>3, QueueTypes DEF Same, Numbering
<1> QED
  BY <1>2, <1>3, <1>4, <1>5, WithoutFields DEF Same

LEMMA DrainGivesUpKeeps ==
  ASSUME QInv, NEW op \in {"e", "r"}, DrainGivesUp(op)
  PROVE  QInv'
<1>1. Rewritten(op) /\ run' = run
  BY DEF DrainGivesUp
<1>2. Histories
  BY QueueTypes DEF DrainGivesUp, Still, Histories
<1> QED
  BY <1>1, <1>2, GivenUp, DrainKept, QuietKeeps

LEMMA SiteQueueInitQInv ==
  ASSUME SiteQueueInit
  PROVE  QInv
<1>1. 0 \in 0..MaxRows /\ MaxRows \in Nat /\ \A i \in Ids : i \in Nat /\ ~(i <= 0)
  BY SiteQueueConstants, IdsType
<1> DEFINE R == [i \in Ids |-> "none"]
           C == [i \in Ids |-> "no"]
<1>2. R \in [Ids -> RowStates] /\ C \in [Ids -> {"no", "busy", "crash"}]
      /\ \A i \in Ids : R[i] = "none" /\ C[i] = "no"
  BY DEF RowStates
<1> HIDE DEF R, C
<1>3. db = [row |-> R, cron |-> FALSE, e |-> NoMark, r |-> NoMark, c |-> C, dead |-> FALSE,
            counted |-> {}, succ |-> 0, faults |-> 0]
  BY DEF SiteQueueInit, R, C
<1>4. db \in Stores /\ db.row = R /\ db.c = C /\ db.succ = 0
  BY <1>1, <1>2, <1>3 DEF Stores
<1>5. Numbering(db)
  BY <1>1, <1>2, <1>4 DEF Numbering
<1>6. NoRun \in Runs /\ RunFits(db, NoRun) /\ NoRun.id = 0 /\ NoRun.at = "idle"
  BY <1>1 DEF NoRun, Runs, RunFits
<1>7. run \in [Runners -> Runs] /\ \A p \in Runners : run[p] = NoRun
  BY <1>6 DEF SiteQueueInit
<1>8. NoDrain \in [op : {"none", "e", "r", "c"}, id : 0..MaxRows, same : BOOLEAN]
  BY <1>1 DEF NoDrain
<1>9. SiteQueueTypeOK
  BY <1>4, <1>7, <1>8 DEF SiteQueueInit, SiteQueueTypeOK
<1>10. Apart
  BY <1>6, <1>7 DEF Apart, Holds
<1>11. Attended
  BY <1>2, <1>4 DEF SiteQueueInit, Attended, NoDrain
<1> QED
  BY <1>5, <1>6, <1>7, <1>9, <1>10, <1>11 DEF QInv

LEMMA NextQInv ==
  ASSUME QInv, [SiteQueueNext]_qvars
  PROVE  QInv'
<1>1. CASE Ask
  BY <1>1, AskKeeps
<1>2. ASSUME NEW p \in Runners, RunSteps(p) PROVE QInv'
  <2>1. CASE TakeRow(p) \/ StartFails(p) \/ CronRun(p) \/ Resend(p)
    BY <2>1, TakeRowKeeps, StartFailsKeeps, CronRunKeeps, ResendKeeps
  <2>2. CASE Finish(p) \/ Again(p) \/ Throw(p)
    BY <2>2, FinishKeeps, AgainKeeps, ThrowKeeps
  <2>3. CASE Supersede(p, "retry") \/ Supersede(p, "stop")
    BY <2>3, SupersedeKeeps
  <2>4. CASE Executed(p) \/ Settle(p) \/ Clean(p) \/ Die(p)
    BY <2>4, ExecutedKeeps, SettleKeeps, CleanKeeps, DieKeeps
  <2> QED
    BY <1>2, <2>1, <2>2, <2>3, <2>4 DEF RunSteps
<1>3. CASE DrainSteps
  BY <1>3, DrainMarkerKeeps, DrainGivesUpKeeps, DrainFailureKeeps, DrainForgetsKeeps,
     DrainDiesKeeps DEF DrainSteps
<1>4. CASE UNCHANGED qvars
  BY <1>4 DEF qvars, QInv, SiteQueueTypeOK, Apart, Attended, Holds
<1> QED
  BY <1>1, <1>2, <1>3, <1>4 DEF SiteQueueNext

(* Whatever is refused and whatever dies, the queue's rows stay numbered as     *)
(* they were made, at most one process holds the run lock, and no two look    *)
(* after the same row.                                                      *)
LEMMA QueueInvariant == SiteQueueSpec => []QInv
<1> QED
  BY SiteQueueInitQInv, NextQInv, PTL DEF SiteQueueSpec

(* The rows, the event, the markers, the failures counted and the processes     *)
(* are what class-lmc-queue.php can make of them.                            *)
THEOREM QueueTypeCorrect == SiteQueueSpec => []SiteQueueTypeOK
<1>1. QInv => SiteQueueTypeOK
  BY DEF QInv
<1> QED
  BY <1>1, QueueInvariant, PTL

-----------------------------------------------------------------------------
(* A stop.  Only an order's handler decides one.  While the newest decision is *)
(* a stop that was kept, nothing runs that could queue the job again; what is *)
(* queued yet is cancelled by the stop's marker, which no run in progress     *)
(* makes void and no drain deletes before it has cancelled.                  *)
StopInv ==
  /\ hook = "reservation" => db.r.kind # "stop" /\ ~stopped
  /\ stopped => db.r.kind # "retry" /\ \A p \in Runners : ~Working(p)
  /\ stopped /\ Queued(db) =>
       /\ db.r.kind = "stop" /\ db.succ <= db.r.floor
       /\ \A p \in Runners : Active(p) => run[p].id <= db.r.floor
       /\ ~Leaves("r")

LEMMA StopEnds ==
  ASSUME StopInv, hook' = hook, ~stopped', hook = "order" \/ db'.r \in {db.r, NoMark}
  PROVE  StopInv'
BY DEF StopInv, NoMark

LEMMA StopKept ==
  ASSUME StopInv, hook' = hook, stopped' => stopped, db'.r = db.r, db'.succ = db.succ,
         Queued(db') => Queued(db), Leaves("r")' => Leaves("r"),
         \A p \in Runners : Active(p)' => Active(p) /\ run'[p] = run[p]
  PROVE  StopInv'
BY DEF StopInv, Active, Working

(* The shop, a human or the WP-Cron event: the decision that is marked stays. *)
LEMMA DirectAs ==
  ASSUME QInv, NEW p \in Runners, NEW d \in Stores, Numbering(d), d.succ = db.succ,
         Direct(p, d)
  PROVE  \/ RunLockFree /\ Begin(p, 0) /\ db' = d /\ UNCHANGED <<drain, exposed, trace>>
         \/ run' = run /\ \E x \in Stores : Same(d, x) /\ Numbering(x) /\ AcceptAs(x)
<1>1. ASSUME NEW x, x = d \/ x \in Refused(d, 1), Accept(x), run' = run
      PROVE  x \in Stores /\ Same(d, x) /\ Numbering(x) /\ AcceptAs(x)
  <2>1. x \in Stores /\ Same(d, x)
    BY <1>1, RefusedFields DEF Same
  <2>2. Numbering(x) /\ x.succ = db.succ
    BY <2>1 DEF Same, Numbering
  <2> QED
    BY <1>1, <2>1, <2>2, AcceptFields
<1> QED
  BY <1>1 DEF Direct

LEMMA CronRunAs ==
  ASSUME QInv, NEW p \in Runners, CronRun(p)
  PROVE  \E d \in Stores :
           /\ Numbering(d) /\ d.row = db.row /\ d.e = db.e /\ d.r = db.r /\ d.c = db.c
           /\ d.dead = db.dead /\ d.counted = db.counted /\ d.succ = db.succ
           /\ \/ RunLockFree /\ Begin(p, 0) /\ db' = d /\ UNCHANGED <<drain, exposed, trace>>
              \/ run' = run /\ AcceptAs(d)
<1> DEFINE d == [db EXCEPT !.cron = FALSE]
<1>1. /\ d \in Stores /\ d.row = db.row /\ d.e = db.e /\ d.r = db.r /\ d.c = db.c
      /\ d.dead = db.dead /\ d.counted = db.counted /\ d.succ = db.succ
  BY QueueTypes DEF Stores
<1>2. Direct(p, d)
  BY DEF CronRun
<1> HIDE DEF d
<1>3. Numbering(d)
  BY <1>1, QueueTypes DEF Numbering
<1>4. CASE RunLockFree /\ Begin(p, 0) /\ db' = d /\ UNCHANGED <<drain, exposed, trace>>
  BY <1>1, <1>3, <1>4
<1>5. ASSUME NEW x \in Stores, Same(d, x), Numbering(x), AcceptAs(x), run' = run
      PROVE  \E y \in Stores :
               /\ Numbering(y) /\ y.row = db.row /\ y.e = db.e /\ y.r = db.r /\ y.c = db.c
               /\ y.dead = db.dead /\ y.counted = db.counted /\ y.succ = db.succ
               /\ run' = run /\ AcceptAs(y)
  <2>1. /\ x.row = db.row /\ x.e = db.e /\ x.r = db.r /\ x.c = db.c
        /\ x.dead = db.dead /\ x.counted = db.counted /\ x.succ = db.succ
    BY <1>1, <1>5 DEF Same
  <2> QED
    BY <1>5, <2>1
<1> QED
  BY <1>1, <1>2, <1>3, <1>4, <1>5, DirectAs

LEMMA ResendAs ==
  ASSUME QInv, NEW p \in Runners, Resend(p)
  PROVE  \E d \in Stores :
           /\ Numbering(d) /\ d.row = db.row /\ d.e = db.e /\ d.r = db.r /\ d.succ = db.succ
           /\ \/ /\ d.counted = {} /\ ~d.dead /\ (\A i \in Ids : d.c[i] = "no")
                 /\ crashed' = {}
              \/ /\ d.counted = db.counted /\ d.dead = db.dead /\ d.c = db.c
                 /\ crashed' = crashed
           /\ \/ /\ RunLockFree /\ Begin(p, 0) /\ db' = d /\ UNCHANGED <<drain, exposed, trace>>
                 /\ d.cron = db.cron
              \/ run' = run /\ AcceptAs(d)
<1>1. PICK d \in Forgotten(db) :
        /\ IF hook = "order" THEN Direct(p, d) ELSE run' = run /\ Accept(d)
        /\ crashed' = IF d.faults = db.faults THEN {} ELSE crashed
  BY DEF Resend
<1>2. /\ d \in Stores /\ d.row = db.row /\ d.cron = db.cron /\ d.e = db.e /\ d.r = db.r
      /\ d.succ = db.succ
      /\ \/ /\ d.counted = {} /\ ~d.dead /\ (\A i \in Ids : d.c[i] = "no") /\ crashed' = {}
         \/ d.counted = db.counted /\ d.dead = db.dead /\ d.c = db.c /\ crashed' = crashed
  BY <1>1, QueueTypes, ForgottenFields DEF Same
<1>3. Numbering(d)
  BY <1>2, QueueTypes DEF Numbering
<1>4. CASE RunLockFree /\ Begin(p, 0) /\ db' = d /\ UNCHANGED <<drain, exposed, trace>>
  BY <1>2, <1>3, <1>4
<1>5. ASSUME NEW x \in Stores, Same(d, x), Numbering(x), AcceptAs(x), run' = run
      PROVE  \E y \in Stores :
               /\ Numbering(y) /\ y.row = db.row /\ y.e = db.e /\ y.r = db.r /\ y.succ = db.succ
               /\ \/ /\ y.counted = {} /\ ~y.dead /\ (\A i \in Ids : y.c[i] = "no")
                     /\ crashed' = {}
                  \/ /\ y.counted = db.counted /\ y.dead = db.dead /\ y.c = db.c
                     /\ crashed' = crashed
               /\ run' = run /\ AcceptAs(y)
  <2>1. /\ x.row = db.row /\ x.e = db.e /\ x.r = db.r /\ x.succ = db.succ
        /\ \/ /\ x.counted = {} /\ ~x.dead /\ (\A i \in Ids : x.c[i] = "no") /\ crashed' = {}
           \/ x.counted = db.counted /\ x.dead = db.dead /\ x.c = db.c /\ crashed' = crashed
    BY <1>2, <1>5 DEF Same
  <2> QED
    BY <1>5, <2>1
<1>6. Same(d, d)
  BY DEF Same
<1>7. Accept(d) /\ run' = run => AcceptAs(d)
  BY <1>2, <1>3, AcceptFields
<1> QED
  BY <1>1, <1>2, <1>3, <1>4, <1>5, <1>6, <1>7, DirectAs

\* A request leaves the decision that is marked.
LEMMA AskAs ==
  ASSUME QInv, Ask
  PROVE  AcceptAs(db) /\ run' = run
BY QueueTypes, AcceptFields DEF Ask

\* What the processes do but for one.
Moves(p, x) ==
  /\ run'[p] = x /\ \A q \in Runners : q # p => run'[q] = run[q]

LEMMA EndsAs ==
  ASSUME QInv, NEW p \in Runners, Working(p), Ends(p, "done")
  PROVE  \E x \in Runs :
           /\ Moves(p, x) /\ x.at \in {"idle", "done"} /\ x.id = run[p].id
           /\ x.at = "done" => x.id # 0 /\ x.keep = run[p].keep
<1> DEFINE x == IF run[p].id = 0 THEN NoRun ELSE [run[p] EXCEPT !.at = "done"]
<1>1. run' = [run EXCEPT ![p] = x]
  BY DEF Ends
<1>2. /\ x \in Runs /\ x.at \in {"idle", "done"} /\ x.id = run[p].id
      /\ x.at = "done" => x.id # 0 /\ x.keep = run[p].keep
  <2>1. 0 \in 0..MaxRows
    BY SiteQueueConstants
  <2> QED
    BY <2>1, RunType DEF Runs, NoRun
<1> HIDE DEF x
<1>3. Moves(p, x)
  BY <1>1, QueueTypes DEF Moves
<1> QED
  BY <1>2, <1>3

(* A run whose decision is lost throws if it is a row's.                     *)
LEMMA AfterAs ==
  ASSUME QInv, NEW p \in Runners, Working(p), NEW o, After(p, o), Kept(db, o.db)
  PROVE  /\ db'.cron = o.db.cron /\ db'.e = o.db.e /\ db'.r = o.db.r /\ db'.c = o.db.c
         /\ db'.dead = o.db.dead /\ db'.counted = o.db.counted /\ db'.succ = db.succ
         /\ \A j \in Ids : j # run[p].id => db'.row[j] = o.db.row[j]
         /\ Queued(db') <=> Queued(o.db)
         /\ \E x \in Runs :
              /\ Moves(p, x) /\ x.id = run[p].id
              /\ \/ x.at = "idle" /\ x.id = 0 /\ crashed' = crashed /\ db' = o.db
                 \/ /\ x.at = "done" /\ x.id # 0 /\ o.said # "lost" /\ db' = o.db
                    /\ x.keep = (run[p].keep \/ o.said = "dead") /\ crashed' = crashed
                 \/ /\ x.at = "threw" /\ x.id # 0 /\ o.said = "lost" /\ x.why = "crash"
                    /\ db.succ < x.id /\ db'.row[x.id] = "failed"
                    /\ crashed' = crashed \cup {x.id}
         /\ owed => owed'
         /\ trace => trace'
         /\ o.said = "lost" /\ run[p].id = 0 => trace'
<1> DEFINE at == IF o.said = "lost" THEN "threw" ELSE "done"
           keep == run[p].keep \/ o.said = "dead"
           x == IF run[p].id = 0 THEN NoRun
                ELSE [run[p] EXCEPT !.at = at, !.keep = keep]
           i == run[p].id
<1>1. run' = [run EXCEPT ![p] = x]
  BY DEF After
<1>2. /\ i \in Nat /\ (i # 0 => i \in Ids /\ db.row[i] = "running" /\ db.succ < i)
      /\ run[p].why = "crash" /\ run[p] \in Runs
  BY RunType DEF RunFits, Working
<1>3. x \in Runs /\ x.id = i
      /\ (i = 0 => x.at = "idle")
      /\ (i # 0 => x.at = at /\ x.keep = keep /\ x.why = "crash")
  <2>1. 0 \in 0..MaxRows
    BY SiteQueueConstants
  <2>2. keep \in BOOLEAN /\ at \in {"threw", "done"}
    BY <1>2 DEF Runs
  <2> HIDE DEF at, keep
  <2> QED
    BY <1>2, <2>1, <2>2 DEF Runs, NoRun
<1> HIDE DEF x
<1>4. Moves(p, x)
  BY <1>1, QueueTypes DEF Moves
<1>5. db.succ \in Nat /\ o.db \in Stores /\ o.db.succ = db.succ
      /\ (i # 0 => o.db.row[i] = "running")
  BY <1>2, QueueTypes DEF Kept, Steady
<1>6. CASE o.said = "lost" /\ i # 0
  <2>1. db' = [o.db EXCEPT !.row[i] = "failed"] /\ crashed' = crashed \cup {i}
        /\ owed' = TRUE /\ trace' = trace
    <3>1. i > 0 /\ i > db.succ /\ run[p].id = i
      BY <1>2, <1>5, <1>6
    <3> HIDE DEF i
    <3>2. db' = [o.db EXCEPT !.row[i] = "failed"] /\ crashed' = crashed \cup {i}
      BY <1>6, <3>1 DEF After
    <3>3. owed' = TRUE /\ trace' = trace
      <4>1. trace \in BOOLEAN /\ owed \in BOOLEAN
        BY QueueTypes
      <4> QED
        BY <1>6, <3>1, <4>1 DEF After
    <3> QED
      BY <3>2, <3>3
  <2>2. RowSet(o.db, db', i, "failed")
    BY <1>2, <1>5, <1>6, <2>1, RowSetFields
  <2>3. Queued(db') <=> Queued(o.db)
    BY <1>2, <1>5, <1>6, <2>2 DEF RowSet, Queued
  <2>4. x.at = "threw" /\ x.id = i /\ x.why = "crash"
    BY <1>3, <1>6
  <2> HIDE DEF i
  <2> QED
    BY <1>2, <1>3, <1>4, <1>5, <1>6, <2>1, <2>2, <2>3, <2>4 DEF RowSet, i
<1>7. CASE ~(o.said = "lost" /\ i # 0)
  <2>1. db' = o.db /\ crashed' = crashed /\ (owed => owed') /\ (trace => trace')
        /\ (o.said = "lost" /\ i = 0 => trace')
    <3>1. ~(o.said = "lost" /\ i > 0) /\ run[p].id = i /\ (i = 0 => ~(i > 0))
      BY <1>2, <1>7
    <3> HIDE DEF i
    <3> QED
      BY <3>1 DEF After
  <2> QED
    BY <1>2, <1>3, <1>4, <1>5, <1>7, <2>1
<1> QED
  BY <1>6, <1>7

LEMMA ThrowAs ==
  ASSUME QInv, NEW p \in Runners, Throw(p)
  PROVE  \/ /\ run[p].id = 0 /\ db' = db /\ Moves(p, NoRun) /\ crashed' = crashed /\ owed' = owed
            /\ trace' = (trace \/ run[p].debt)
         \/ /\ run[p].id \in Ids /\ db.row[run[p].id] = "running" /\ db.succ < run[p].id
            /\ RowSet(db, db', run[p].id, "failed")
            /\ Moves(p, [NoRun EXCEPT !.at = "threw", !.id = run[p].id, !.why = "crash"])
            /\ crashed' = crashed \cup {run[p].id} /\ owed' = (owed \/ run[p].debt)
            /\ trace' = trace
<1>1. Working(p) /\ run \in [Runners -> Runs] /\ db \in Stores /\ db.succ \in Nat
  BY QueueTypes DEF Throw
<1>2. CASE run[p].id = 0
  BY <1>1, <1>2 DEF Throw, Moves
<1>3. CASE run[p].id # 0
  <2>1. run[p].id \in Ids /\ db.row[run[p].id] = "running" /\ db.succ < run[p].id
    BY <1>1, <1>3, RunType DEF RunFits, Working
  <2>2. /\ db' = [db EXCEPT !.row[run[p].id] = "failed"]
        /\ RowFails(p, run[p].id, "threw", "crash")
        /\ owed' = (owed \/ run[p].debt) /\ trace' = trace
    BY <1>3 DEF Throw
  <2>3. RowSet(db, db', run[p].id, "failed")
    BY <1>1, <2>1, <2>2, RowSetFields
  <2>4. crashed' = crashed \cup {run[p].id}
    BY <1>1, <2>1, <2>2, RunType DEF RowFails
  <2>5. Moves(p, [NoRun EXCEPT !.at = "threw", !.id = run[p].id, !.why = "crash"])
    BY <1>1, <2>2 DEF RowFails, Moves
  <2> QED
    BY <2>1, <2>2, <2>3, <2>4, <2>5
<1> QED
  BY <1>2, <1>3

LEMMA StartFailsAs ==
  ASSUME QInv, NEW p \in Runners, StartFails(p)
  PROVE  \E i \in Ids, why \in {"busy", "crash"} :
           /\ db.row[i] = "pending" /\ RowSet(db, db', i, "failed")
           /\ run[p] = NoRun
           /\ Moves(p, [NoRun EXCEPT !.at = "found", !.id = i, !.why = why])
           /\ crashed' = IF why = "crash" THEN crashed \cup {i} ELSE crashed
<1>1. PICK i \in Ids : /\ db.row[i] = "pending"
                       /\ \/ /\ db' = [db EXCEPT !.row[i] = "failed"]
                             /\ RowFails(p, i, "found", "busy")
                          \/ \E d \in Refused(db, 1) :
                               /\ db' = [d EXCEPT !.row[i] = "failed"]
                               /\ RowFails(p, i, "found", "crash")
  BY DEF StartFails
<1>2. RowSet(db, db', i, "failed")
  <2>1. db \in Stores
    BY QueueTypes
  <2>2. PICK d \in Stores : Same(db, d) /\ db' = [d EXCEPT !.row[i] = "failed"]
    BY <1>1, <2>1, RefusedFields DEF Same
  <2>3. RowSet(d, db', i, "failed")
    BY <1>1, <2>2, RowSetFields DEF Same
  <2> QED
    BY <2>2, <2>3 DEF Same, RowSet
<1>3. i > db.succ
  BY <1>1, QueueTypes DEF Numbering
<1>4. run \in [Runners -> Runs]
  BY QueueTypes
<1>5. CASE RowFails(p, i, "found", "busy")
  BY <1>1, <1>2, <1>4, <1>5 DEF StartFails, RowFails, Moves
<1>6. CASE RowFails(p, i, "found", "crash")
  BY <1>1, <1>2, <1>3, <1>4, <1>6 DEF StartFails, RowFails, Moves
<1> QED
  BY <1>1, <1>5, <1>6

LEMMA CleanAs ==
  ASSUME QInv, NEW p \in Runners, Clean(p)
  PROVE  \E i \in Ids :
           /\ Orphan(i) /\ RowSet(db, db', i, "failed") /\ run[p] = NoRun
           /\ Moves(p, [NoRun EXCEPT !.at = "found", !.id = i, !.why = "crash"])
           /\ crashed' = IF i > db.succ THEN crashed \cup {i} ELSE crashed
<1>1. PICK i \in Ids : /\ Orphan(i) /\ db' = [db EXCEPT !.row[i] = "failed"]
                       /\ RowFails(p, i, "found", "crash")
  BY DEF Clean
<1>2. RowSet(db, db', i, "failed")
  BY <1>1, RowSetFields, QueueTypes DEF Orphan
<1>3. run \in [Runners -> Runs] /\ run[p] = NoRun
  BY QueueTypes DEF Clean
<1> QED
  BY <1>1, <1>2, <1>3 DEF RowFails, Moves

(* A run that ends well lifts the watermark to its row, or is refused that.   *)
LEMMA ExecutedAs ==
  ASSUME QInv, NEW p \in Runners, Executed(p)
  PROVE  LET i == run[p].id
         IN /\ i \in Ids /\ db.row[i] = "running" /\ db.succ < i /\ Moves(p, NoRun)
            /\ run[p].at = "done" /\ db' \in Stores
            /\ \A j \in Ids : db'.row[j] = IF j = i THEN "complete" ELSE db.row[j]
            /\ db'.cron = db.cron /\ db'.e = db.e /\ db'.r = db.r /\ db'.c = db.c
            /\ \/ /\ db'.dead = (db.dead /\ run[p].keep) /\ db'.counted = {}
                  /\ db'.succ = i /\ crashed' = {}
               \/ /\ db'.dead = db.dead /\ db'.counted = db.counted /\ db'.succ = db.succ
                  /\ crashed' = crashed
<1> DEFINE i == run[p].id
           h == Healthy(db, p)
<1>1. run[p].at = "done" /\ run' = [run EXCEPT ![p] = NoRun] /\ run \in [Runners -> Runs]
  BY QueueTypes DEF Executed
<1>2. /\ i \in Ids /\ db.row[i] = "running" /\ db.succ < i /\ h \in Stores
      /\ h.row = db.row /\ h.cron = db.cron /\ h.e = db.e /\ h.r = db.r /\ h.c = db.c
      /\ h.dead = (db.dead /\ run[p].keep) /\ h.counted = {} /\ h.succ = i
  BY <1>1, HealthyFields
<1>3. \/ db' = Complete(h, p) /\ crashed' = {}
      \/ \E d \in Refused(db, 1) : db' = Complete(d, p) /\ crashed' = crashed
  BY DEF Executed
<1>4. \A d : Complete(d, p) = [d EXCEPT !.row[i] = "complete"]
  BY DEF Complete
<1>5. Moves(p, NoRun)
  BY <1>1 DEF Moves
<1> HIDE DEF i, h
<1>6. PICK d \in Stores :
        /\ db' = [d EXCEPT !.row[i] = "complete"]
        /\ d.row = db.row /\ d.cron = db.cron /\ d.e = db.e /\ d.r = db.r /\ d.c = db.c
        /\ \/ d.dead = (db.dead /\ run[p].keep) /\ d.counted = {} /\ d.succ = i /\ crashed' = {}
           \/ /\ d.dead = db.dead /\ d.counted = db.counted /\ d.succ = db.succ
              /\ crashed' = crashed
  <2>1. CASE db' = Complete(h, p) /\ crashed' = {}
    BY <1>2, <1>4, <2>1
  <2>2. ASSUME NEW d \in Refused(db, 1), db' = Complete(d, p), crashed' = crashed
        PROVE  /\ db' = [d EXCEPT !.row[i] = "complete"] /\ d \in Stores
               /\ d.row = db.row /\ d.cron = db.cron /\ d.e = db.e /\ d.r = db.r /\ d.c = db.c
               /\ d.dead = db.dead /\ d.counted = db.counted /\ d.succ = db.succ
               /\ crashed' = crashed
    <3>1. d \in Stores /\ Same(db, d)
      BY QueueTypes, RefusedFields
    <3> QED
      BY <1>4, <2>2, <3>1 DEF Same
  <2> QED
    BY <1>3, <2>1, <2>2
<1>7. RowSet(d, db', i, "complete")
  BY <1>2, <1>6, RowSetFields
<1>8. /\ db' \in Stores
      /\ \A j \in Ids : db'.row[j] = IF j = i THEN "complete" ELSE db.row[j]
      /\ db'.cron = db.cron /\ db'.e = db.e /\ db'.r = db.r /\ db'.c = db.c
      /\ db'.dead = d.dead /\ db'.counted = d.counted /\ db'.succ = d.succ
  BY <1>6, <1>7 DEF RowSet
<1> QED
  BY <1>1, <1>2, <1>5, <1>6, <1>8 DEF i

LEMMA SupersedeStopInv ==
  ASSUME QInv, StopInv, NEW p \in Runners, NEW kind \in {"retry", "stop"}, Supersede(p, kind)
  PROVE  StopInv'
<1>1. /\ hook = "order" /\ hook' = hook /\ Working(p) /\ ~stopped
  BY DEF Supersede, StopInv
<1> DEFINE m == Decision(p, kind)
<1>2. /\ m \in Markers({"retry", "stop"}) /\ m \in {NoMark} \cup Markers({"retry", "stop"})
      /\ m.kind = kind /\ m.floor = FloorOf(p)
  BY Floors DEF Decision
<1>3. CASE ~stopped'
  BY <1>1, <1>3, StopEnds
<1>4. CASE stopped'
  <2>1. \/ \E o \in Superseded(db, m) : Keep(p, kind, o) /\ drain' = drain
        \/ \E d \in NoLock(db) :
             /\ Keep(p, kind, [db |-> [d EXCEPT !.r = m], said |-> "marked"])
             /\ Rewritten("r")
    BY <1>1, <1>4 DEF Supersede
  <2> HIDE DEF m
  <2>2. kind = "stop"
    BY <1>4, <2>1 DEF Keep
  <2>3. Ends(p, "done")
    BY <2>1, <2>2 DEF Keep
  <2>4. /\ run[p].id \in Nat /\ db.succ \in Nat /\ FloorOf(p) \in Nat
        /\ db.succ <= FloorOf(p) /\ run[p].id <= FloorOf(p)
    <3>1. run[p].id # 0 => db.succ < run[p].id
      BY <1>1, RunType DEF RunFits, Working
    <3> QED
      BY <3>1, QueueTypes, RunType, Floors
  <2>5. \A q \in Runners : ~Working(q)' /\ (Active(q)' => run'[q].id = run[p].id)
    <3>1. PICK x \in Runs : /\ Moves(p, x) /\ x.at \in {"idle", "done"} /\ x.id = run[p].id
      BY <1>1, <2>3, EndsAs
    <3>2. \A q \in Runners : q # p => ~Holds(q)
      BY <1>1 DEF QInv, Apart, Holds, Working
    <3> QED
      BY <3>1, <3>2 DEF Moves, Holds, Active, Working
  <2>6. ASSUME NEW o \in Superseded(db, m), Keep(p, kind, o) PROVE StopInv'
    <3>1. db' = o.db /\ ~Queued(o.db) /\ o.db.r \in {NoMark, m}
      BY <1>2, <2>2, <2>6, QueueTypes, SupersededFields DEF Keep
    <3>2. db'.r.kind # "retry"
      BY <1>2, <2>2, <3>1 DEF NoMark
    <3> QED
      BY <1>1, <2>5, <3>1, <3>2 DEF StopInv
  <2>7. ASSUME NEW d \in NoLock(db), Rewritten("r"),
               Keep(p, kind, [db |-> [d EXCEPT !.r = m], said |-> "marked"])
        PROVE  StopInv'
    <3>1. db' = [d EXCEPT !.r = m]
      BY <2>2, <2>7 DEF Keep
    <3>2. db'.r = m /\ db'.succ = db.succ
      BY <1>2, <3>1, NoLockFields DEF Kept, Steady
    <3>3. ~Leaves("r")'
      BY <2>7, QueueTypes DEF Rewritten, Leaves
    <3>4. \A q \in Runners : Active(q)' => run'[q].id <= FloorOf(p)
      BY <2>4, <2>5
    <3> QED
      BY <1>1, <1>2, <2>2, <2>4, <2>5, <3>2, <3>3, <3>4 DEF StopInv
  <2> QED
    BY <2>1, <2>6, <2>7
<1> QED
  BY <1>3, <1>4

LEMMA RunStopInv ==
  ASSUME QInv, StopInv, NEW p \in Runners, RunSteps(p)
  PROVE  StopInv'
<1>1. CASE TakeRow(p)
  <2>1. db'.r = db.r
    BY <1>1, QueueTypes DEF TakeRow, Stores
  <2> QED
    BY <1>1, <2>1, StopEnds DEF TakeRow, Still
<1>2. CASE StartFails(p) \/ Clean(p)
  <2>1. PICK i \in Ids, why \in {"busy", "crash"} :
          /\ RowSet(db, db', i, "failed")
          /\ Moves(p, [NoRun EXCEPT !.at = "found", !.id = i, !.why = why])
    BY <1>2, StartFailsAs, CleanAs
  <2>2. \A q \in Runners : Active(q)' => Active(q) /\ run'[q] = run[q]
    BY <2>1 DEF Moves, Active, NoRun
  <2>3. Queued(db') => Queued(db)
    BY <2>1 DEF RowSet, Queued
  <2>4. hook' = hook /\ stopped' = stopped /\ (Leaves("r")' => Leaves("r"))
    BY <1>2 DEF StartFails, Clean, Still, Leaves
  <2> QED
    BY <2>1, <2>2, <2>3, <2>4, StopKept DEF RowSet
<1>3. CASE CronRun(p) \/ Resend(p)
  <2>1. db'.r = db.r
    BY <1>3, CronRunAs, ResendAs DEF AcceptAs
  <2> QED
    BY <1>3, <2>1, StopEnds DEF CronRun, Resend, Still
<1>4. CASE Finish(p)
  <2>1. db' = db /\ hook' = hook /\ stopped' = stopped /\ Working(p)
    BY <1>4 DEF Finish, Still
  <2> QED
    BY <2>1, StopEnds DEF StopInv
<1>5. CASE Throw(p)
  <2>1. hook' = hook /\ stopped' = stopped /\ Working(p) /\ db'.r = db.r
    BY <1>5, ThrowAs DEF Throw, Still, RowSet
  <2> QED
    BY <2>1, StopEnds DEF StopInv
<1>6. CASE Again(p)
  <2>1. hook' = hook /\ stopped' = stopped /\ Working(p)
    BY <1>6 DEF Again, Still
  <2>2. ASSUME NEW o, After(p, o), Kept(db, o.db), o.db.r = db.r PROVE db'.r = db.r
    BY <2>1, <2>2, AfterAs
  <2>3. ASSUME NEW o \in Enqueued(db, FloorOf(p)), After(p, o) PROVE db'.r = db.r
    <3>1. Kept(db, o.db) /\ o.db.r = db.r
      BY QueueTypes, Floors, EnqueuedFields
    <3> QED
      BY <2>2, <2>3, <3>1
  <2>4. ASSUME NEW d \in NoLock(db),
               After(p, [db |-> [d EXCEPT !.e = Retry(NoFloor)], said |-> "marked"])
        PROVE  db'.r = db.r
    <3> DEFINE o == [db |-> [d EXCEPT !.e = Retry(NoFloor)], said |-> "marked"]
    <3>1. Kept(db, o.db) /\ o.db.r = db.r
      BY NoLockFields, Floors
    <3>2. After(p, o)
      BY <2>4
    <3> HIDE DEF o
    <3> QED
      BY <2>2, <3>1, <3>2
  <2>5. ASSUME NEW d \in NoLock(db), db' \in Refused(d, 1) PROVE db'.r = db.r
    BY <2>5, NoLockFields DEF Same
  <2>6. db'.r = db.r
    BY <1>6, <2>3, <2>4, <2>5 DEF Again
  <2> QED
    BY <2>1, <2>6, StopEnds DEF StopInv
<1>7. CASE Supersede(p, "retry") \/ Supersede(p, "stop")
  BY <1>7, SupersedeStopInv
<1>8. CASE Executed(p)
  <2> DEFINE i == run[p].id
  <2>1. /\ i \in Ids /\ db.row[i] = "running" /\ db.succ < i /\ Moves(p, NoRun)
        /\ run[p].at = "done" /\ db' \in Stores
        /\ \A j \in Ids : db'.row[j] = IF j = i THEN "complete" ELSE db.row[j]
        /\ db'.cron = db.cron /\ db'.r = db.r /\ (db'.succ = i \/ db'.succ = db.succ)
    BY <1>8, ExecutedAs
  <2>2. hook' = hook /\ stopped' = stopped /\ drain' = drain /\ Active(p)
    BY <1>8, <2>1 DEF Executed, Still, Active
  <2> HIDE DEF i
  <2>3. Queued(db') => Queued(db)
    BY <2>1 DEF Queued
  <2>4. \A q \in Runners : Active(q)' => Active(q) /\ run'[q] = run[q]
    BY <2>1 DEF Moves, Active, NoRun
  <2>5. db.succ <= db.r.floor /\ i <= db.r.floor => db'.succ <= db'.r.floor
    BY <2>1
  <2>6. Active(p) => run[p].id = i
    BY DEF i
  <2> QED
    BY <2>1, <2>2, <2>3, <2>4, <2>5, <2>6 DEF StopInv, Active, Working, Leaves
<1>9. CASE Settle(p)
  <2>1. Fails(p) /\ run[p].id \in Ids /\ run[p].why \in {"busy", "crash"}
        /\ hook' = hook /\ ~stopped'
    BY <1>9, RunType DEF Settle, Fails, RunFits, Still
  <2> DEFINE i == run[p].id
             floor == IF run[p].at = "threw" THEN i ELSE db.succ
  <2>2. floor \in 0..MaxRows
    BY QueueTypes, RunType
  <2>3. \A o \in Decided(db, i, run[p].why, floor) : o.db.r = db.r /\ o.db \in Stores
    BY <2>1, <2>2, QueueTypes, DecidedFields DEF DecidedAs, Kept
  <2>4. \A d : d \in NoLock(db) => d.r = db.r /\ d \in Stores
    BY NoLockFields DEF Same
  <2>5. ASSUME NEW d \in Stores, d.r = db.r,
               db' = Deferred(d, i, run[p].why) \/ db' \in Refused(d, 1)
        PROVE  db'.r = db.r
    BY <2>5, RefusedFields DEF Deferred, Stores, Same
  <2>6. db'.r = db.r
    BY <1>9, <2>3, <2>4, <2>5 DEF Settle
  <2> QED
    BY <2>1, <2>6, StopEnds
<1>10. CASE Die(p)
  <2>1. hook' = hook /\ ~stopped' /\ db' \in Half(p)
    BY <1>10 DEF Die
  <2>2. hook = "order" \/ db'.r = db.r
    BY <2>1, HalfFields, HealthyFields, QueueTypes
  <2> QED
    BY <2>1, <2>2, StopEnds
<1> QED
  BY <1>1, <1>2, <1>3, <1>4, <1>5, <1>6, <1>7, <1>8, <1>9, <1>10 DEF RunSteps

LEMMA DrainStopInv ==
  ASSUME QInv, StopInv, DrainSteps
  PROVE  StopInv'
<1>1. ASSUME NEW op \in {"e", "r"}, DrainMarker(op) PROVE StopInv'
  <2>1. PICK o : DrainedAs(op, o) /\ Drains(op, 0, o, db[op].floor)
    BY <1>1, DrainMarkerFields
  <2>2. /\ db' = o.db /\ db'.r = db.r /\ db'.succ = db.succ /\ run' = run /\ hook' = hook
        /\ stopped' = (stopped /\ op = "r")
    BY <1>1, <2>1 DEF DrainedAs, Drains, Kept, Steady, DrainMarker, Still
  <2>3. CASE ~stopped'
    BY <2>2, <2>3, StopEnds
  <2>4. CASE stopped'
    <3>1. stopped /\ op = "r" /\ db.r.kind = "stop"
      BY <1>1, <2>2, <2>4, DrainMarkerFields DEF StopInv
    <3>2. db.succ \in Nat /\ db.r.floor \in Nat
      BY <1>1, <3>1, QueueTypes, DrainMarkerFields
    <3>3. ~Queued(db')
      <4>1. CASE o.said = "old"
        <5>1. db' = db /\ db.succ > db.r.floor
          BY <2>1, <2>2, <3>1, <4>1 DEF DrainedAs
        <5> QED
          BY <3>1, <3>2, <5>1 DEF StopInv
      <4>2. CASE o.said # "old"
        BY <2>1, <2>2, <3>1, <4>2 DEF DrainedAs
      <4> QED
        BY <4>1, <4>2
    <3> QED
      BY <2>2, <3>1, <3>3 DEF StopInv, Working
  <2> QED
    BY <2>3, <2>4
<1>2. ASSUME NEW op \in {"e", "r"}, DrainGivesUp(op) PROVE StopInv'
  <2>1. /\ db'.row = db.row /\ db'.cron = db.cron /\ db'.succ = db.succ
        /\ db'.r = IF op = "r" THEN NoMark ELSE db.r
    BY <1>2, GivenUp
  <2>2. run' = run /\ hook' = hook /\ stopped' = (stopped /\ op # "r") /\ Rewritten(op)
    BY <1>2 DEF DrainGivesUp, Still
  <2>3. CASE ~stopped'
    BY <2>1, <2>2, <2>3, StopEnds
  <2>4. CASE stopped'
    <3>1. db'.r = db.r /\ stopped
      BY <2>1, <2>2, <2>4
    <3>2. Leaves("r")' => Leaves("r")
      BY <2>2, DrainKept DEF Leaves
    <3>3. Queued(db') => Queued(db)
      BY <2>1 DEF Queued
    <3> QED
      BY <2>1, <2>2, <3>1, <3>2, <3>3, StopKept DEF Active
  <2> QED
    BY <2>3, <2>4
<1>3. ASSUME NEW i \in Ids, DrainFailure(i) PROVE StopInv'
  <2>1. PICK o \in Decided(db, i, db.c[i], db.succ) : Drains("c", i, o, db.succ)
    BY <1>3 DEF DrainFailure
  <2>2. db.c[i] \in {"busy", "crash"}
    BY <1>3, QueueTypes DEF DrainFailure
  <2>3. db'.r = db.r
    BY <2>1, <2>2, QueueTypes, DecidedFields DEF DecidedAs, Drains
  <2> QED
    BY <1>3, <2>3, StopEnds DEF DrainFailure, Still
<1>4. CASE DrainForgets
  <2>1. /\ drain' = NoDrain /\ run' = run /\ hook' = hook /\ stopped' = stopped
        /\ \/ db' = IF drain.same THEN Without(db, drain.op, drain.id) ELSE db
           \/ drain.same /\ db' \in Refused(db, 1)
    BY <1>4 DEF DrainForgets, Still
  <2>2. ~Leaves("r")'
    BY <2>1 DEF Leaves, NoDrain
  <2>3. CASE db' = db \/ db' \in Refused(db, 1)
    <3>1. db'.r = db.r /\ db'.succ = db.succ /\ (Queued(db') => Queued(db))
      BY <2>3, QueueTypes, RefusedFields DEF Same, Queued
    <3> QED
      BY <2>1, <2>2, <3>1, StopKept DEF Active
  <2>4. CASE drain.same /\ db' = Without(db, drain.op, drain.id)
    <3>1. drain.op \in {"e", "r", "c"} /\ (drain.op = "c" => drain.id \in Ids)
      BY <2>4, QueueTypes DEF QInv, Attended, NoDrain
    <3>2. /\ db'.row = db.row /\ db'.cron = db.cron /\ db'.succ = db.succ
          /\ db'.r = IF drain.op = "r" THEN NoMark ELSE db.r
      BY <2>4, <3>1, QueueTypes, WithoutFields
    <3>3. Queued(db') => Queued(db)
      BY <3>2 DEF Queued
    <3>4. CASE drain.op = "r"
      BY <2>1, <2>4, <3>2, <3>3, <3>4 DEF StopInv, Leaves, Working, NoMark
    <3>5. CASE drain.op # "r"
      BY <2>1, <2>2, <3>2, <3>3, <3>5, StopKept DEF Active
    <3> QED
      BY <3>4, <3>5
  <2> QED
    BY <2>1, <2>3, <2>4
<1>5. CASE DrainDies
  <2>1. drain' = NoDrain /\ run' = run /\ hook' = hook /\ stopped' = stopped /\ db' = db
    BY <1>5 DEF DrainDies, Still
  <2>2. ~Leaves("r")'
    BY <2>1 DEF Leaves, NoDrain
  <2> QED
    BY <2>1, <2>2, StopKept DEF Active
<1> QED
  BY <1>1, <1>2, <1>3, <1>4, <1>5 DEF DrainSteps

LEMMA NextStopInv ==
  ASSUME QInv, StopInv, [SiteQueueNext]_qvars
  PROVE  StopInv'
<1>1. CASE Ask
  <2>1. db'.r = db.r /\ hook' = hook /\ ~stopped'
    BY <1>1, AskAs DEF AcceptAs, Ask, Still
  <2> QED
    BY <2>1, StopEnds
<1>2. ASSUME NEW p \in Runners, RunSteps(p) PROVE StopInv'
  BY <1>2, RunStopInv
<1>3. CASE DrainSteps
  BY <1>3, DrainStopInv
<1>4. CASE UNCHANGED qvars
  BY <1>4 DEF qvars, StopInv, Active, Working, Leaves
<1> QED
  BY <1>1, <1>2, <1>3, <1>4 DEF SiteQueueNext

(* A stop that was kept stands (StopStands, class-lmc-queue.php:201-217): no   *)
(* older decision, whichever marker, row or event keeps it, brings the job    *)
(* back, and what is still queued is cancelled by the stop's own marker.      *)
THEOREM StopHolds == SiteQueueSpec => []StopStands
<1>1. SiteQueueInit => StopInv
  BY DEF SiteQueueInit, StopInv, NoMark
<1>2. QInv /\ StopInv /\ [SiteQueueNext]_qvars => StopInv'
  BY NextStopInv
<1>3. StopInv => StopStands
  BY DEF StopInv, StopStands
<1> QED
  BY <1>1, <1>2, <1>3, QueueInvariant, PTL DEF SiteQueueSpec

-----------------------------------------------------------------------------
(* A job that failed again and again.  Every failure since the last healthy    *)
(* run is counted or still open: deferred and not about to be forgotten, or   *)
(* being looked after.  Once MaxCrashes are counted without a record of a     *)
(* dead job, an open one newer than every healthy run will make the record.   *)
Open(i) ==
  \/ db.c[i] = "crash" /\ ~LeavesFailure(i)
  \/ \E p \in Runners : Fails(p) /\ run[p].why = "crash" /\ run[p].id = i

DeadInv ==
  /\ \A i \in crashed : i > db.succ
  /\ ~trace /\ ~db.dead =>
       /\ \A i \in crashed : i \in db.counted \/ Open(i)
       /\ Cardinality(db.counted) >= MaxCrashes => \E i \in Ids : i > db.succ /\ Open(i)

LEMMA DeadKept ==
  ASSUME DeadInv, db'.succ = db.succ, db'.counted = db.counted,
         ~trace' /\ ~db'.dead => ~trace /\ ~db.dead /\ \A i \in Ids : Open(i) => Open(i)',
         crashed \subseteq Ids,
         \A i \in crashed' : i \in crashed \/ (i > db.succ /\ Open(i)')
  PROVE  DeadInv'
<1>1. \A i \in crashed' : i > db'.succ
  BY DEF DeadInv
<1>2. ASSUME ~trace', ~db'.dead
      PROVE  /\ \A i \in crashed' : i \in db'.counted \/ Open(i)'
             /\ Cardinality(db'.counted) >= MaxCrashes =>
                  \E i \in Ids : i > db'.succ /\ Open(i)'
  BY <1>2 DEF DeadInv
<1> QED
  BY <1>1, <1>2 DEF DeadInv

LEMMA DeadReset ==
  ASSUME crashed' = {}, db'.counted = {}
  PROVE  DeadInv'
<1>1. ~(Cardinality(db'.counted) >= MaxCrashes)
  BY FS_EmptySet, SiteQueueConstants
<1> QED
  BY <1>1 DEF DeadInv

LEMMA OpenKept ==
  ASSUME \A i \in Ids : db'.c[i] = db.c[i], \A i : LeavesFailure(i)' => LeavesFailure(i),
         \A p \in Runners : Fails(p) => run'[p] = run[p]
  PROVE  \A i \in Ids : Open(i) => Open(i)'
BY DEF Open, Fails

\* What a drain acts on is left alone by every process.
LEMMA LeavesKept ==
  ASSUME drain'.same => drain' = drain
  PROVE  /\ \A i : LeavesFailure(i)' => LeavesFailure(i)
         /\ \A op : Leaves(op)' => Leaves(op)
BY DEF LeavesFailure, Leaves

(* A failure is decided about: it is counted, or stays open, or is too old, or  *)
(* the job is recorded as dead.                                             *)
LEMMA DecidedDead ==
  ASSUME QInv, DeadInv, NEW i \in Ids, NEW why \in {"busy", "crash"}, NEW floor, NEW o,
         DecidedAs(db, i, why, floor, o), db'.succ = db.succ, db'.dead = o.db.dead,
         db'.counted = o.db.counted, crashed' = crashed, trace => trace',
         \A j \in Ids : j # i \/ why = "busy" => (Open(j) => Open(j)'),
         o.said = "lost" /\ why = "crash" /\ ~trace' => Open(i)'
  PROVE  DeadInv'
<1>1. db.succ \in Nat /\ i \in Nat /\ crashed \subseteq Ids
  BY QueueTypes, IdsType
<1>2. \A j \in crashed' : j > db'.succ
  BY DEF DeadInv
<1>3. ASSUME ~trace', ~db'.dead
      PROVE  /\ \A j \in crashed' : j \in db'.counted \/ Open(j)'
             /\ Cardinality(db'.counted) >= MaxCrashes =>
                  \E j \in Ids : j > db'.succ /\ Open(j)'
  <2>1. /\ ~trace /\ ~db.dead /\ o.said # "dead"
        /\ \A j \in crashed : j \in db.counted \/ Open(j)
        /\ Cardinality(db.counted) >= MaxCrashes => \E j \in Ids : j > db.succ /\ Open(j)
    BY <1>3 DEF DeadInv, DecidedAs
  <2>2. CASE why = "busy"
    <3>1. db'.counted = db.counted
      BY <2>2 DEF DecidedAs
    <3> QED
      BY <1>1, <2>1, <2>2, <3>1
  <2>3. CASE why = "crash" /\ o.said = "old"
    <3>1. db'.counted = db.counted /\ i <= db.succ
      BY <2>3 DEF DecidedAs
    <3>2. \A j \in Ids : j > db.succ => j # i
      BY <1>1, <3>1, IdsType
    <3>3. \A j \in crashed : j # i
      BY <1>1, <3>2 DEF DeadInv
    <3> QED
      BY <1>1, <2>1, <3>1, <3>2, <3>3
  <2>4. CASE why = "crash" /\ o.said \in {"queued", "marked"}
    <3>1. i \in db'.counted /\ ~(Cardinality(db'.counted) >= MaxCrashes)
          /\ db.counted \subseteq db'.counted
      BY <2>4 DEF DecidedAs
    <3> QED
      BY <1>1, <2>1, <3>1
  <2>5. CASE why = "crash" /\ o.said = "lost"
    <3>1. Open(i)' /\ db.counted \subseteq db'.counted
          /\ (db'.counted = db.counted \/ i > db.succ)
      BY <1>3, <2>5 DEF DecidedAs
    <3>2. CASE i > db.succ
      BY <1>1, <2>1, <3>1, <3>2
    <3>3. CASE db'.counted = db.counted
      <4>1. \A j \in Ids : Open(j) => Open(j)'
        BY <3>1
      <4> QED
        BY <1>1, <2>1, <3>3, <4>1
    <3> QED
      BY <3>1, <3>2, <3>3
  <2> QED
    BY <2>1, <2>2, <2>3, <2>4, <2>5 DEF DecidedAs
<1> QED
  BY <1>2, <1>3 DEF DeadInv

(* A request, by the shop or a human, leaves the failures as they are.        *)
LEMMA AcceptDead ==
  ASSUME QInv, DeadInv, NEW d \in Stores, d.counted = db.counted, d.succ = db.succ,
         d.dead = db.dead, d.c = db.c, AcceptAs(d), run' = run, crashed' = crashed
  PROVE  DeadInv'
<1>1. /\ db'.succ = db.succ /\ db'.c = db.c /\ db'.counted = db.counted
      /\ (db.dead => db'.dead) /\ (trace => trace')
  BY DEF AcceptAs, Kept, Steady
<1>2. \A i : LeavesFailure(i)' => LeavesFailure(i)
  BY DEF AcceptAs, LeavesFailure, Leaves
<1> QED
  BY <1>1, <1>2, OpenKept, DeadKept, QueueTypes

LEMMA BeginDead ==
  ASSUME QInv, DeadInv, NEW p \in Runners, NEW i, run[p] = NoRun, Begin(p, i),
         db'.counted = db.counted, db'.succ = db.succ, db'.dead = db.dead, db'.c = db.c,
         UNCHANGED <<drain, trace, crashed>>
  PROVE  DeadInv'
<1>1. \A q \in Runners : Fails(q) => run'[q] = run[q]
  BY QueueTypes DEF Begin, Fails, NoRun
<1> QED
  BY <1>1, OpenKept, LeavesKept, DeadKept, QueueTypes

(* The handler has ended: a decision that left nothing is a failure of its row. *)
LEMMA EndsDead ==
  ASSUME QInv, DeadInv, NEW p \in Runners, Working(p), Ends(p, "done"), Kept(db, db'),
         db'.counted = db.counted, db.dead => db'.dead, crashed' = crashed, trace => trace',
         drain'.same => drain' = drain
  PROVE  DeadInv'
<1>1. \A q \in Runners : Fails(q) => run'[q] = run[q]
  BY EndsAs DEF Moves, Fails, Working
<1>2. db'.succ = db.succ /\ db'.c = db.c
  BY DEF Kept, Steady
<1> QED
  BY <1>1, <1>2, OpenKept, LeavesKept, DeadKept, QueueTypes

LEMMA AfterDead ==
  ASSUME QInv, DeadInv, NEW p \in Runners, Working(p), NEW o, After(p, o), Kept(db, o.db),
         o.db.counted = db.counted, db.dead => o.db.dead, drain'.same => drain' = drain
  PROVE  DeadInv'
<1>1. PICK x \in Runs :
        /\ Moves(p, x) /\ x.id = run[p].id
        /\ \/ crashed' = crashed
           \/ /\ x.at = "threw" /\ x.id # 0 /\ x.why = "crash" /\ db.succ < x.id
              /\ crashed' = crashed \cup {x.id}
  BY AfterAs
<1>2. /\ db'.succ = db.succ /\ db'.c = db.c /\ db'.counted = db.counted
      /\ (db.dead => db'.dead) /\ (trace => trace')
  BY AfterAs DEF Kept, Steady
<1>3. \A q \in Runners : Fails(q) => run'[q] = run[q]
  BY <1>1 DEF Moves, Fails, Working
<1>4. \A i \in crashed' : i \in crashed \/ (i > db.succ /\ Open(i)')
  <2>1. run[p].id \in Nat /\ db.succ \in Nat
    BY QueueTypes, RunType
  <2>2. CASE x.at = "threw" /\ x.why = "crash" /\ db.succ < x.id /\ crashed' = crashed \cup {x.id}
    BY <1>1, <2>1, <2>2 DEF Open, Fails, Moves
  <2> QED
    BY <1>1, <2>2
<1> QED
  BY <1>2, <1>3, <1>4, OpenKept, LeavesKept, DeadKept, QueueTypes

LEMMA AgainDead ==
  ASSUME QInv, DeadInv, NEW p \in Runners, Again(p)
  PROVE  DeadInv'
<1>1. Working(p)
  BY DEF Again
<1>2. ASSUME NEW o \in Enqueued(db, FloorOf(p)), After(p, o), drain' = drain
      PROVE  DeadInv'
  <2>1. Kept(db, o.db) /\ o.db.counted = db.counted /\ (db.dead => o.db.dead)
    BY QueueTypes, Floors, EnqueuedFields
  <2> QED
    BY <1>1, <1>2, <2>1, AfterDead
<1>3. ASSUME NEW d \in NoLock(db), Rewritten("e"),
             After(p, [db |-> [d EXCEPT !.e = Retry(NoFloor)], said |-> "marked"])
      PROVE  DeadInv'
  <2> DEFINE o == [db |-> [d EXCEPT !.e = Retry(NoFloor)], said |-> "marked"]
  <2>1. Kept(db, o.db) /\ o.db.counted = db.counted /\ o.db.dead = db.dead
    BY NoLockFields, Floors
  <2>2. After(p, o) /\ (drain'.same => drain' = drain)
    BY <1>3, DrainKept
  <2> HIDE DEF o
  <2> QED
    BY <1>1, <2>1, <2>2, AfterDead
<1>4. ASSUME NEW d \in NoLock(db), db' \in Refused(d, 1), Ends(p, "done"), trace' = TRUE,
             UNCHANGED <<drain, owed, crashed>>
      PROVE  DeadInv'
  <2>1. Kept(db, db') /\ Same(db, db')
    BY <1>4, NoLockFields
  <2> QED
    BY <1>1, <1>4, <2>1, EndsDead DEF Same
<1> QED
  BY <1>2, <1>3, <1>4 DEF Again

LEMMA SupersedeDead ==
  ASSUME QInv, DeadInv, NEW p \in Runners, NEW kind \in {"retry", "stop"}, Supersede(p, kind)
  PROVE  DeadInv'
<1>1. Working(p)
  BY DEF Supersede
<1> DEFINE m == Decision(p, kind)
<1>2. m \in Markers({"retry", "stop"}) /\ m \in {NoMark} \cup Markers({"retry", "stop"})
  BY Floors
<1>3. ASSUME NEW o, Keep(p, kind, o), Kept(db, o.db), o.db.counted = db.counted,
             db.dead => o.db.dead, drain'.same => drain' = drain
      PROVE  DeadInv'
  <2>1. CASE kind = "retry"
    BY <1>1, <1>3, <2>1, AfterDead DEF Keep
  <2>2. CASE kind # "retry"
    BY <1>1, <1>3, <2>2, EndsDead DEF Keep
  <2> QED
    BY <2>1, <2>2
<1>4. ASSUME NEW o \in Superseded(db, m), Keep(p, kind, o), drain' = drain
      PROVE  DeadInv'
  <2> HIDE DEF m
  <2>1. Kept(db, o.db) /\ o.db.counted = db.counted /\ (db.dead => o.db.dead)
    BY <1>2, QueueTypes, SupersededFields
  <2> QED
    BY <1>3, <1>4, <2>1
<1>5. ASSUME NEW d \in NoLock(db), Rewritten("r"),
             Keep(p, kind, [db |-> [d EXCEPT !.r = m], said |-> "marked"])
      PROVE  DeadInv'
  <2> DEFINE o == [db |-> [d EXCEPT !.r = m], said |-> "marked"]
  <2>1. Kept(db, o.db) /\ o.db.counted = db.counted /\ o.db.dead = db.dead
    BY <1>2, NoLockFields
  <2>2. Keep(p, kind, o) /\ (drain'.same => drain' = drain)
    BY <1>5, DrainKept
  <2> HIDE DEF o
  <2> QED
    BY <1>3, <2>1, <2>2
<1>6. ASSUME db' \in Refused(db, 1) \/ \E d \in NoLock(db) : db' \in Refused(d, 1),
             Ends(p, "done"), trace' = TRUE, UNCHANGED <<drain, owed, stopped, crashed>>
      PROVE  DeadInv'
  <2>1. Kept(db, db') /\ Same(db, db')
    BY <1>6, NoLockFields, RefusedFields, SameKept, QueueTypes
  <2> QED
    BY <1>1, <1>6, <2>1, EndsDead DEF Same
<1> QED
  BY <1>4, <1>5, <1>6 DEF Supersede

LEMMA SettleDead ==
  ASSUME QInv, DeadInv, NEW p \in Runners, Settle(p)
  PROVE  DeadInv'
<1>0. PICK i, why, floor : /\ i = run[p].id /\ why = run[p].why
                           /\ floor = IF run[p].at = "threw" THEN i ELSE db.succ
  OBVIOUS
<1>1. /\ Fails(p) /\ run' = [run EXCEPT ![p] = NoRun] /\ drain' = drain /\ crashed' = crashed
      /\ run \in [Runners -> Runs] /\ db \in Stores /\ Numbering(db)
  BY QueueTypes DEF Settle, Fails
<1>2. i \in Ids /\ why \in {"busy", "crash"} /\ floor \in 0..MaxRows
  BY <1>0, <1>1, RunType, QueueTypes DEF RunFits, Fails
<1>3. \A q \in Runners : q # p => run'[q] = run[q] /\ run[q].id # i
  BY <1>0, <1>1, <1>2, IdsType DEF QInv, Apart
<1>4. db.c[i] = "no" /\ ~LeavesFailure(i)
  BY <1>0, <1>2 DEF QInv, Attended, LeavesFailure, Leaves
<1>5. \A o \in Decided(db, i, why, floor) : DecidedAs(db, i, why, floor, o)
  BY <1>1, <1>2, DecidedFields
<1>6. ASSUME NEW j \in Ids, \/ db'.c[j] = db.c[j] \/ (j = i /\ db'.c[j] = why),
             j # i \/ why = "busy", Open(j)
      PROVE  Open(j)'
  BY <1>0, <1>1, <1>3, <1>4, <1>6 DEF Open, LeavesFailure, Leaves, Fails
<1>7. ASSUME NEW o \in Decided(db, i, why, floor), o.said # "lost", db' = o.db
      PROVE  DeadInv'
  <2>2. db'.succ = db.succ /\ db'.c = db.c
    BY <1>5, <1>7 DEF DecidedAs, Kept, Steady
  <2>3. trace => trace'
    BY DEF Settle
  <2> QED
    BY <1>1, <1>2, <1>5, <1>6, <1>7, <2>2, <2>3, DecidedDead
<1>8. ASSUME NEW o, DecidedAs(db, i, why, floor, o), o.said = "lost",
             \/ db' = Deferred(o.db, i, why) /\ trace' = trace
             \/ db' \in Refused(o.db, 1) /\ trace' = TRUE
      PROVE  DeadInv'
  <2>1. o.db \in Stores /\ o.db.succ = db.succ /\ o.db.c = db.c
    BY <1>8 DEF DecidedAs, Kept, Steady
  <2>2. /\ db'.succ = db.succ /\ db'.dead = o.db.dead /\ db'.counted = o.db.counted
        /\ \A j \in Ids : db'.c[j] = db.c[j] \/ (j = i /\ db'.c[j] = why)
        /\ ~trace' => db'.c[i] = why
    <3>1. CASE db' = Deferred(o.db, i, why)
      BY <1>2, <1>4, <2>1, <3>1 DEF Deferred, Stores
    <3>2. CASE db' \in Refused(o.db, 1) /\ trace'
      BY <2>1, <3>2, RefusedFields DEF Same
    <3> QED
      BY <1>8, <3>1, <3>2
  <2>3. why = "crash" /\ ~trace' => Open(i)'
    BY <1>1, <1>4, <2>2 DEF Open, LeavesFailure, Leaves
  <2>4. trace => trace'
    BY <1>8
  <2> QED
    BY <1>1, <1>2, <1>6, <1>8, <2>2, <2>3, <2>4, DecidedDead
<1>9. ASSUME NEW d \in NoLock(db),
             \/ db' = Deferred(d, i, why) /\ trace' = trace
             \/ db' \in Refused(d, 1) /\ trace' = TRUE
      PROVE  DeadInv'
  <2> DEFINE o == [db |-> d, said |-> "lost"]
  <2>1. d \in Stores /\ Same(db, d) /\ Kept(db, d)
    BY <1>1, <1>9, NoLockFields, SameKept
  <2>2. DecidedAs(db, i, why, floor, o)
    BY <2>1 DEF DecidedAs, Same
  <2>3. o.db = d /\ o.said = "lost"
    OBVIOUS
  <2> HIDE DEF o
  <2> QED
    BY <1>8, <1>9, <2>2, <2>3
<1> QED
  BY <1>0, <1>5, <1>7, <1>8, <1>9 DEF Settle

LEMMA DieDead ==
  ASSUME QInv, DeadInv, NEW p \in Runners, Die(p)
  PROVE  DeadInv'
<1>1. /\ run' = [run EXCEPT ![p] = NoRun] /\ drain' = drain /\ db' \in Half(p)
      /\ run \in [Runners -> Runs] /\ db.succ \in Nat
  BY QueueTypes DEF Die
<1>2. CASE run[p].at = "done" /\ db' = Healthy(db, p)
  <2>1. run[p].id \in Ids /\ db.succ < run[p].id /\ db'.counted = {} /\ db'.succ = run[p].id
    BY <1>2, HealthyFields
  <2>2. db' # db
    BY <1>1, <2>1, IdsType
  <2>3. crashed' = {}
    BY <1>2, <2>2 DEF Die
  <2> QED
    BY <2>1, <2>3, DeadReset
<1>3. CASE Kept(db, db') /\ (db.dead => db'.dead) /\ ~(run[p].at = "done" /\ db' # db)
           /\ (Fails(p) \/ db'.counted = db.counted)
  <2>1. /\ db'.succ = db.succ /\ db'.c = db.c /\ crashed' = crashed
        /\ (trace => trace') /\ (Fails(p) => trace')
    BY <1>3 DEF Kept, Steady, Die, Fails
  <2>2. CASE Fails(p)
    BY <2>1, <2>2 DEF DeadInv
  <2>3. CASE ~Fails(p)
    <3>1. \A q \in Runners : Fails(q) => run'[q] = run[q]
      BY <1>1, <2>3 DEF Fails
    <3> QED
      BY <1>1, <1>3, <2>1, <2>3, <3>1, OpenKept, LeavesKept, DeadKept, QueueTypes
  <2> QED
    BY <2>2, <2>3
<1>4. run[p].at = "done" => ~Fails(p) /\ ~Working(p)
  BY DEF Fails, Working
<1> QED
  BY <1>1, <1>2, <1>3, <1>4, HalfFields

LEMMA RunDeadInv ==
  ASSUME QInv, DeadInv, NEW p \in Runners, RunSteps(p)
  PROVE  DeadInv'
<1>1. CASE TakeRow(p)
  <2>1. PICK i \in Ids : db' = [db EXCEPT !.row[i] = "running"] /\ Begin(p, i)
                         /\ run[p] = NoRun /\ UNCHANGED <<drain, trace, crashed>>
    BY <1>1 DEF TakeRow
  <2>2. db'.counted = db.counted /\ db'.succ = db.succ /\ db'.dead = db.dead /\ db'.c = db.c
    BY <2>1, QueueTypes DEF Stores
  <2> QED
    BY <2>1, <2>2, BeginDead
<1>2. CASE StartFails(p) \/ Clean(p)
  <2>1. PICK i \in Ids, why \in {"busy", "crash"} :
          /\ RowSet(db, db', i, "failed") /\ run[p] = NoRun
          /\ Moves(p, [NoRun EXCEPT !.at = "found", !.id = i, !.why = why])
          /\ crashed' = crashed \/ (why = "crash" /\ i > db.succ /\ crashed' = crashed \cup {i})
    <3>1. \A i \in Ids : db.row[i] = "pending" => i > db.succ
      BY QueueTypes DEF Numbering
    <3> QED
      BY <1>2, <3>1, StartFailsAs, CleanAs
  <2>2. \A q \in Runners : Fails(q) => run'[q] = run[q]
    BY <2>1 DEF Moves, Fails, NoRun
  <2>3. \A j \in crashed' : j \in crashed \/ (j > db.succ /\ Open(j)')
    <3>1. CASE why = "crash" /\ i > db.succ /\ crashed' = crashed \cup {i}
      <4>1. Fails(p)' /\ run'[p].why = "crash" /\ run'[p].id = i
        BY <2>1, <3>1 DEF Moves, Fails, NoRun
      <4> QED
        BY <3>1, <4>1 DEF Open
    <3> QED
      BY <2>1, <3>1
  <2>4. drain' = drain /\ trace' = trace
    BY <1>2 DEF StartFails, Clean
  <2> QED
    BY <2>1, <2>2, <2>3, <2>4, OpenKept, LeavesKept, DeadKept, QueueTypes DEF RowSet
<1>3. CASE CronRun(p)
  <2>1. PICK d \in Stores :
           /\ d.c = db.c /\ d.dead = db.dead /\ d.counted = db.counted /\ d.succ = db.succ
           /\ \/ Begin(p, 0) /\ db' = d /\ UNCHANGED <<drain, trace>>
              \/ run' = run /\ AcceptAs(d)
    BY <1>3, CronRunAs
  <2>2. crashed' = crashed /\ run[p] = NoRun
    BY <1>3 DEF CronRun
  <2> QED
    BY <2>1, <2>2, BeginDead, AcceptDead
<1>4. CASE Resend(p)
  <2>1. PICK d \in Stores :
           /\ d.succ = db.succ
           /\ \/ d.counted = {} /\ crashed' = {}
              \/ /\ d.counted = db.counted /\ d.dead = db.dead /\ d.c = db.c
                 /\ crashed' = crashed
           /\ \/ Begin(p, 0) /\ db' = d /\ UNCHANGED <<drain, trace>>
              \/ run' = run /\ AcceptAs(d)
    BY <1>4, ResendAs
  <2>2. run[p] = NoRun /\ db'.counted = d.counted
    BY <1>4, <2>1 DEF Resend, AcceptAs
  <2>3. CASE d.counted = {} /\ crashed' = {}
    BY <2>2, <2>3, DeadReset
  <2>4. CASE d.counted = db.counted /\ d.dead = db.dead /\ d.c = db.c /\ crashed' = crashed
    BY <2>1, <2>2, <2>4, BeginDead, AcceptDead
  <2> QED
    BY <2>1, <2>3, <2>4
<1>5. CASE Finish(p)
  <2>1. Kept(db, db)
    BY QueueTypes DEF Kept, Steady
  <2> QED
    BY <1>5, <2>1, EndsDead DEF Finish
<1>6. CASE Throw(p)
  <2>1. Working(p) /\ drain' = drain
    BY <1>6 DEF Throw
  <2>2. PICK x :
          /\ Moves(p, x) /\ db'.succ = db.succ /\ db'.c = db.c /\ db'.counted = db.counted
          /\ db'.dead = db.dead /\ (trace => trace')
          /\ \/ crashed' = crashed
             \/ /\ x.at = "threw" /\ x.why = "crash" /\ db.succ < x.id
                /\ crashed' = crashed \cup {x.id}
    <3> DEFINE x == [NoRun EXCEPT !.at = "threw", !.id = run[p].id, !.why = "crash"]
    <3>1. x.at = "threw" /\ x.why = "crash" /\ x.id = run[p].id
      BY DEF NoRun
    <3>2. CASE db' = db /\ Moves(p, NoRun) /\ crashed' = crashed /\ trace' = (trace \/ run[p].debt)
      BY <3>2
    <3>3. CASE /\ db.succ < run[p].id /\ RowSet(db, db', run[p].id, "failed") /\ Moves(p, x)
               /\ crashed' = crashed \cup {run[p].id} /\ trace' = trace
      <4> HIDE DEF x
      <4> QED
        BY <3>1, <3>3 DEF RowSet
    <3> QED
      BY <1>6, <3>2, <3>3, ThrowAs
  <2>3. \A q \in Runners : Fails(q) => run'[q] = run[q]
    BY <2>1, <2>2 DEF Moves, Fails, Working
  <2>4. \A i \in crashed' : i \in crashed \/ (i > db.succ /\ Open(i)')
    <3>1. CASE /\ x.at = "threw" /\ x.why = "crash" /\ db.succ < x.id
               /\ crashed' = crashed \cup {x.id}
      <4>1. Fails(p)' /\ run'[p].why = "crash" /\ run'[p].id = x.id
        BY <2>2, <3>1 DEF Moves, Fails
      <4>2. x.id > db.succ
        BY <3>1
      <4> QED
        BY <3>1, <4>1, <4>2 DEF Open
    <3> QED
      BY <2>2, <3>1
  <2> QED
    BY <2>1, <2>2, <2>3, <2>4, OpenKept, LeavesKept, DeadKept, QueueTypes
<1>7. CASE Executed(p)
  <2>1. /\ Moves(p, NoRun) /\ run[p].at = "done" /\ db'.c = db.c
        /\ \/ db'.counted = {} /\ crashed' = {}
           \/ /\ db'.dead = db.dead /\ db'.counted = db.counted /\ db'.succ = db.succ
              /\ crashed' = crashed
    BY <1>7, ExecutedAs
  <2>2. \A q \in Runners : Fails(q) => run'[q] = run[q]
    BY <2>1 DEF Moves, Fails
  <2>3. drain' = drain /\ trace' = trace
    BY <1>7 DEF Executed
  <2> QED
    BY <2>1, <2>2, <2>3, OpenKept, LeavesKept, DeadKept, DeadReset, QueueTypes
<1> QED
  BY <1>1, <1>2, <1>3, <1>4, <1>5, <1>6, <1>7, AgainDead, SupersedeDead, SettleDead,
     DieDead DEF RunSteps

LEMMA DrainDeadInv ==
  ASSUME QInv, DeadInv, DrainSteps
  PROVE  DeadInv'
<1>1. ASSUME NEW op \in {"e", "r"}, DrainMarker(op) PROVE DeadInv'
  <2>1. PICK o : DrainedAs(op, o) /\ Drains(op, 0, o, db[op].floor)
    BY <1>1, DrainMarkerFields
  <2>2. /\ db'.counted = db.counted /\ db'.succ = db.succ /\ db'.c = db.c
        /\ (db.dead => db'.dead) /\ drain'.op = op
    BY <2>1 DEF DrainedAs, Drains, Kept, Steady
  <2>3. run' = run /\ trace' = trace /\ crashed' = crashed
    BY <1>1 DEF DrainMarker
  <2>4. \A i : ~LeavesFailure(i)'
    BY <2>2 DEF LeavesFailure, Leaves
  <2> QED
    BY <2>2, <2>3, <2>4, OpenKept, DeadKept, QueueTypes
<1>2. ASSUME NEW op \in {"e", "r"}, DrainGivesUp(op) PROVE DeadInv'
  <2>1. db'.dead /\ db'.counted = db.counted /\ db'.succ = db.succ
    BY <1>2, GivenUp
  <2>2. crashed' = crashed
    BY <1>2 DEF DrainGivesUp
  <2> QED
    BY <2>1, <2>2 DEF DeadInv
<1>3. ASSUME NEW i \in Ids, DrainFailure(i) PROVE DeadInv'
  <2>0. PICK why \in {"busy", "crash"} : why = db.c[i]
    BY <1>3, QueueTypes DEF DrainFailure
  <2>1. PICK o \in Decided(db, i, why, db.succ) : Drains("c", i, o, db.succ)
    BY <1>3, <2>0 DEF DrainFailure
  <2>2. DecidedAs(db, i, why, db.succ, o)
    BY QueueTypes, DecidedFields
  <2>3. db'.succ = db.succ /\ db'.c = db.c /\ db' = o.db
    BY <2>1, <2>2 DEF DecidedAs, Drains, Kept, Steady
  <2>4. run' = run /\ trace' = trace /\ crashed' = crashed /\ drain = NoDrain
    BY <1>3 DEF DrainFailure
  <2>5. drain'.op = "c" /\ drain'.id = i /\ (drain'.same <=> o.said # "lost")
    BY <2>1 DEF Drains
  <2>6. \A j \in Ids : j # i \/ why = "busy" => (Open(j) => Open(j)')
    BY <2>0, <2>3, <2>4, <2>5 DEF Open, LeavesFailure, Leaves, Fails
  <2>7. o.said = "lost" /\ why = "crash" => Open(i)'
    BY <2>0, <2>3, <2>5 DEF Open, LeavesFailure, Leaves
  <2> QED
    BY <2>2, <2>3, <2>4, <2>6, <2>7, DecidedDead
<1>4. CASE DrainForgets
  <2>1. /\ drain' = NoDrain /\ run' = run /\ trace' = trace /\ crashed' = crashed
        /\ \/ db' = IF drain.same THEN Without(db, drain.op, drain.id) ELSE db
           \/ drain.same /\ db' \in Refused(db, 1)
    BY <1>4 DEF DrainForgets
  <2>2. \A i : ~LeavesFailure(i)'
    BY <2>1 DEF LeavesFailure, Leaves, NoDrain
  <2>3. CASE db' = db \/ db' \in Refused(db, 1)
    <3>1. db'.counted = db.counted /\ db'.succ = db.succ /\ db'.c = db.c /\ db'.dead = db.dead
      BY <2>3, QueueTypes, RefusedFields DEF Same
    <3> QED
      BY <2>1, <2>2, <3>1, OpenKept, DeadKept, QueueTypes
  <2>4. CASE drain.same /\ db' = Without(db, drain.op, drain.id)
    <3>1. drain.op \in {"e", "r", "c"} /\ (drain.op = "c" => drain.id \in Ids)
      BY <2>4, QueueTypes DEF QInv, Attended, NoDrain
    <3>2. /\ db'.dead = db.dead /\ db'.counted = db.counted /\ db'.succ = db.succ
          /\ \A j \in Ids : db'.c[j] = IF drain.op = "c" /\ j = drain.id THEN "no" ELSE db.c[j]
      BY <2>4, <3>1, QueueTypes, WithoutFields
    <3>3. \A j \in Ids : Open(j) => Open(j)'
      BY <2>1, <2>2, <2>4, <3>2 DEF Open, LeavesFailure, Leaves, Fails
    <3> QED
      BY <2>1, <3>2, <3>3, DeadKept, QueueTypes
  <2> QED
    BY <2>1, <2>3, <2>4
<1>5. CASE DrainDies
  <2>1. drain' = NoDrain /\ run' = run /\ trace' = trace /\ crashed' = crashed /\ db' = db
    BY <1>5 DEF DrainDies
  <2>2. \A i : ~LeavesFailure(i)'
    BY <2>1 DEF LeavesFailure, Leaves, NoDrain
  <2> QED
    BY <2>1, <2>2, OpenKept, DeadKept, QueueTypes
<1> QED
  BY <1>1, <1>2, <1>3, <1>4, <1>5 DEF DrainSteps

LEMMA NextDeadInv ==
  ASSUME QInv, DeadInv, [SiteQueueNext]_qvars
  PROVE  DeadInv'
<1>1. CASE Ask
  BY <1>1, AskAs, AcceptDead, QueueTypes DEF Ask
<1>2. ASSUME NEW p \in Runners, RunSteps(p) PROVE DeadInv'
  BY <1>2, RunDeadInv
<1>3. CASE DrainSteps
  BY <1>3, DrainDeadInv
<1>4. CASE UNCHANGED qvars
  BY <1>4 DEF qvars, DeadInv, Open, LeavesFailure, Leaves, Fails
<1> QED
  BY <1>1, <1>2, <1>3, <1>4 DEF SiteQueueNext

LEMMA OpenIsSeen ==
  ASSUME QInv, DeadInv
  PROVE  DeadIsSeen
<1> SUFFICES ASSUME Cardinality(crashed) >= MaxCrashes, ~db.dead, ~trace,
                    \A i \in Ids : db.c[i] = "no", \A p \in Runners : ~Fails(p)
             PROVE  FALSE
  BY DEF DeadIsSeen, Fails
<1>1. \A i \in Ids : ~Open(i)
  BY DEF Open
<1>2. crashed \subseteq db.counted /\ crashed \subseteq Ids /\ db.counted \subseteq Ids
  BY <1>1, QueueTypes DEF DeadInv
<1>3. IsFiniteSet(db.counted)
  BY <1>2, IdsType, FS_Subset
<1>4. IsFiniteSet(crashed) /\ Cardinality(crashed) <= Cardinality(db.counted)
  BY <1>2, <1>3, FS_Subset
<1>5. Cardinality(db.counted) \in Nat /\ Cardinality(crashed) \in Nat /\ MaxCrashes \in Nat
  BY <1>3, <1>4, FS_CardinalityType, SiteQueueConstants
<1>6. Cardinality(db.counted) >= MaxCrashes
  BY <1>4, <1>5
<1> QED
  BY <1>1, <1>6 DEF DeadInv

(* A job that failed MaxCrashes times since its last healthy run is never      *)
(* tried again in silence (DeadIsSeen, class-lmc-queue.php:633): whatever      *)
(* recovers it, whatever is refused and whoever dies, the record of a dead    *)
(* job, a failure still to be dealt with, or a trace of its loss stays.       *)
THEOREM DeathIsSeen == SiteQueueSpec => []DeadIsSeen
<1>1. SiteQueueInit => DeadInv
  <2> SUFFICES ASSUME SiteQueueInit PROVE DeadInv
    OBVIOUS
  <2>1. crashed = {} /\ db.counted = {}
    BY DEF SiteQueueInit
  <2>2. ~(Cardinality(db.counted) >= MaxCrashes)
    BY <2>1, FS_EmptySet, SiteQueueConstants
  <2> QED
    BY <2>1, <2>2 DEF DeadInv
<1>2. QInv /\ DeadInv /\ [SiteQueueNext]_qvars => DeadInv'
  BY NextDeadInv
<1>3. QInv /\ DeadInv => DeadIsSeen
  BY OpenIsSeen
<1> QED
  BY <1>1, <1>2, <1>3, QueueInvariant, PTL DEF SiteQueueSpec

-----------------------------------------------------------------------------
(* A request that was accepted.  While no run has begun for it, it stands; and *)
(* no stop is marked that would cancel it, or would cancel what the run that  *)
(* began for it may have to be tried again as.                              *)
LostInv ==
  ~trace /\ ~exposed =>
    /\ owed => Stands
    /\ owed \/ (\E p \in Runners : Working(p) /\ run[p].debt) => db.r.kind # "stop"

(* What stands goes on standing when the watermark comes at most to a run in   *)
(* progress, no run begins, and what is deferred, left or seen finds another. *)
LEMMA StandsKept ==
  ASSUME Stands,
         db'.succ = db.succ \/ \E p \in Runners : Active(p) /\ db'.succ = run[p].id,
         \A q \in Runners : Active(q)' => Active(q) /\ run'[q].id = run[q].id,
         Queued(db) => Queued(db'), DeadStands => DeadStands',
         db'.e = db.e \/ Leaves("e"), db'.r = db.r \/ Leaves("r"),
         Leaves("e")' => Leaves("e") \/ ~Safe(db.e),
         Leaves("r")' => Leaves("r") \/ ~Safe(db.r),
         \A i \in Ids : StillDeferred(i) \/ (Orphan(i) /\ Ahead(i)) => Stands',
         \A q \in Runners : Seen(q) => Stands'
  PROVE  Stands'
<1>1. CASE Queued(db) \/ DeadStands
  BY <1>1 DEF Stands
<1>2. CASE Safe(db.e) /\ ~Leaves("e")
  BY <1>2 DEF Stands, Safe
<1>3. CASE Safe(db.r) /\ ~Leaves("r")
  BY <1>3 DEF Stands, Safe
<1> QED
  BY <1>1, <1>2, <1>3 DEF Stands

LEMMA AheadKept ==
  ASSUME db'.succ = db.succ \/ \E p \in Runners : Active(p) /\ db'.succ = run[p].id,
         \A q \in Runners : Active(q)' => Active(q) /\ run'[q].id = run[q].id
  PROVE  \A i \in Ids : Ahead(i) => Ahead(i)'
BY DEF Ahead

(* A process moves on, none begins: what is deferred, orphaned or seen by      *)
(* another stays so.                                                        *)
LEMMA OthersStand ==
  ASSUME QInv, NEW p \in Runners, NEW x, Moves(p, x), x.id \in {0, run[p].id},
         \A i \in Ids : Ahead(i) => Ahead(i)',
         \A i \in Ids : db.c[i] = "no" \/ db'.c[i] = db.c[i],
         \A i \in Ids : LeavesFailure(i)' => LeavesFailure(i),
         \A i \in Ids : Orphan(i) => db'.row[i] = "running"
  PROVE  /\ \A i \in Ids : StillDeferred(i) \/ (Orphan(i) /\ Ahead(i)) => Stands'
         /\ \A q \in Runners : q # p /\ Seen(q) => Stands'
<1>1. ASSUME NEW i \in Ids, StillDeferred(i) PROVE Stands'
  BY <1>1 DEF StillDeferred, Stands
<1>2. ASSUME NEW i \in Ids, Orphan(i), Ahead(i) PROVE Stands'
  <2>1. i # 0 /\ \A q \in Runners : run'[q].id \in {0, run[q].id}
    BY IdsType DEF Moves
  <2>2. Orphan(i)'
    BY <1>2, <2>1 DEF Orphan
  <2> QED
    BY <1>2, <2>2 DEF Stands
<1>3. ASSUME NEW q \in Runners, q # p, Seen(q) PROVE Stands'
  <2>1. run'[q] = run[q] /\ run[q].id \in Ids
    BY <1>3, RunType DEF Moves, RunFits, Seen, Fails
  <2> QED
    BY <1>3, <2>1 DEF Seen, Fails, Stands
<1> QED
  BY <1>1, <1>2, <1>3

(* The only run in progress fails: its failure is newer than all that are.    *)
LEMMA FailureStands ==
  ASSUME QInv, NEW p \in Runners, Holds(p), NEW x, Moves(p, x), x.at = "threw",
         x.id = run[p].id, x.id # 0, db'.succ = db.succ
  PROVE  Stands'
<1>1. db.succ < run[p].id /\ run[p].id \in Ids
  BY RunType DEF Holds, RunFits
<1>2. \A q \in Runners : ~Active(q)'
  BY DEF Moves, QInv, Apart, Holds, Active
<1>3. Ahead(run[p].id)'
  BY <1>1, <1>2 DEF Ahead, Moves
<1>4. Seen(p)'
  <2>1. db'.succ < run'[p].id
    BY <1>1 DEF Moves
  <2>2. Ahead(run[p].id)' /\ Fails(p)'
    BY <1>2, <2>1 DEF Ahead, Moves, Fails
  <2> QED
    BY <2>2 DEF Seen
<1> QED
  BY <1>4 DEF Stands

(* Working(p) ends, and what it decided was kept.                            *)
LEMMA DecisionStands ==
  ASSUME QInv, NEW p \in Runners, Working(p), NEW x, Moves(p, x), x.id = run[p].id,
         x.at \in {"idle", "done"}, db'.succ = db.succ,
         \/ Queued(db')
         \/ db'.dead /\ (x.at = "done" => x.keep)
         \/ db'.e = Retry(FloorOf(p)) /\ ~Leaves("e")'
         \/ db'.e = Retry(NoFloor) /\ ~Leaves("e")'
         \/ db'.r = Retry(FloorOf(p)) /\ ~Leaves("r")'
  PROVE  Stands'
<1>1. \A q \in Runners : Active(q)' => q = p /\ x.at = "done"
  BY DEF Moves, QInv, Apart, Holds, Active, Working
<1>2. /\ run[p].id \in Nat /\ db.succ \in Nat /\ FloorOf(p) \in Nat /\ MaxRows \in Nat
      /\ db.succ <= FloorOf(p) /\ run[p].id <= FloorOf(p) /\ FloorOf(p) <= MaxRows
  <2>1. run[p].id # 0 => db.succ < run[p].id
    BY RunType DEF RunFits, Working
  <2> QED
    BY <2>1, QueueTypes, RunType, Floors
<1>3. ASSUME NEW floor, floor = FloorOf(p) \/ floor = NoFloor
      PROVE  db'.succ <= floor /\ \A q \in Runners : Active(q)' => run'[q].id <= floor
  BY <1>1, <1>2, <1>3 DEF NoFloor, Moves
<1>4. CASE Queued(db')
  BY <1>4 DEF Stands
<1>5. CASE db'.dead /\ (x.at = "done" => x.keep)
  BY <1>1, <1>5 DEF Stands, DeadStands, Moves
<1>7. CASE db'.e = Retry(FloorOf(p)) /\ ~Leaves("e")'
  BY <1>3, <1>7 DEF Stands, Safe, Retry
<1>8. CASE db'.e = Retry(NoFloor) /\ ~Leaves("e")'
  BY <1>3, <1>8 DEF Stands, Safe, Retry
<1>9. CASE db'.r = Retry(FloorOf(p)) /\ ~Leaves("r")'
  BY <1>3, <1>9 DEF Stands, Safe, Retry
<1> QED
  BY <1>4, <1>5, <1>7, <1>8, <1>9

\* A request waits for a run, or for the one that began for it to end.
Wants == owed \/ \E p \in Runners : Working(p) /\ run[p].debt

LEMMA LostMoves ==
  ASSUME LostInv, trace => trace', exposed => exposed', Wants' => Wants,
         db'.r.kind = "stop" => db.r.kind = "stop",
         owed' /\ ~trace' /\ ~exposed' => Stands'
  PROVE  LostInv'
<1> USE DEF Wants
<1>1. ASSUME ~trace', ~exposed' PROVE Wants' => db'.r.kind # "stop"
  BY <1>1 DEF LostInv
<1> QED
  BY <1>1 DEF LostInv

LEMMA WantsKept ==
  ASSUME owed' => Wants,
         \A q \in Runners : Working(q)' => Working(q) /\ run'[q] = run[q]
  PROVE  Wants' => Wants
BY DEF Wants

(* A request is made, or the run that it waited for begins. *)
LEMMA AcceptLost ==
  ASSUME LostInv, NEW d, d.r = db.r, AcceptAs(d)
  PROVE  LostInv'
BY DEF AcceptAs, LostInv

LEMMA BeginLost ==
  ASSUME QInv, LostInv, NEW p \in Runners, NEW i, run[p] = NoRun, Begin(p, i), db'.r = db.r,
         UNCHANGED <<exposed, trace>>
  PROVE  LostInv'
<1>1. run \in [Runners -> Runs] /\ ~owed'
  BY QueueTypes DEF Begin
<1>2. \A q \in Runners : q # p => run'[q] = run[q]
  BY <1>1 DEF Begin
<1>3. run'[p].debt = owed
  BY <1>1 DEF Begin, NoRun
<1>4. Wants' => Wants
  BY <1>1, <1>2, <1>3 DEF Wants, Working
<1> QED
  BY <1>1, <1>4, LostMoves

(* A pending row fails before its handler: nothing that runs is of a newer one. *)
LEMMA StartFailsLost ==
  ASSUME QInv, LostInv, NEW p \in Runners, StartFails(p)
  PROVE  LostInv'
<1>1. PICK i \in Ids, why \in {"busy", "crash"} :
         /\ db.row[i] = "pending" /\ RowSet(db, db', i, "failed") /\ run[p] = NoRun
         /\ Moves(p, [NoRun EXCEPT !.at = "found", !.id = i, !.why = why])
  BY StartFailsAs
<1> DEFINE x == [NoRun EXCEPT !.at = "found", !.id = i, !.why = why]
<1>2. x.at = "found" /\ x.id = i /\ x.why = why
  BY DEF NoRun
<1>3. Moves(p, x)
  BY <1>1
<1> HIDE DEF x
<1>4. owed' = owed /\ exposed' = exposed /\ trace' = trace /\ drain' = drain
  BY DEF StartFails
<1>5. \A q \in Runners : Active(q)' => Active(q) /\ run'[q] = run[q]
  BY <1>2, <1>3 DEF Moves, Active
<1>6. \A q \in Runners : Active(q) => run[q].id < i
  <2> TAKE q \in Runners
  <2> HAVE Active(q)
  <2>1. CASE run[q].id = 0
    BY <2>1, IdsType
  <2>2. CASE run[q].id # 0
    <3>1. run[q].id \in Ids /\ db.row[run[q].id] = "running"
      BY <2>2, RunType DEF RunFits, Active
    <3>2. run[q].id <= i /\ run[q].id # i
      BY <1>1, <3>1, QueueTypes DEF Numbering
    <3>3. run[q].id \in Nat /\ i \in Nat
      BY <3>1, IdsType
    <3> QED
      BY <3>2, <3>3
  <2> QED
    BY <2>1, <2>2
<1>7. i > db.succ
  BY <1>1, QueueTypes DEF Numbering
<1>8. Stands'
  <2>1. db'.succ < run'[p].id /\ \A q \in Runners : Active(q)' => run'[q].id < run'[p].id
    BY <1>1, <1>2, <1>3, <1>5, <1>6, <1>7, QueueTypes, IdsType DEF Moves, RowSet
  <2>2. Fails(p)'
    BY <1>2, <1>3 DEF Moves, Fails
  <2>3. Seen(p)'
    BY <2>1, <2>2 DEF Seen, Ahead
  <2> QED
    BY <2>3 DEF Stands
<1>9. Wants' => Wants
  BY <1>4, <1>5, WantsKept DEF Wants, Active, Working
<1> QED
  BY <1>1, <1>4, <1>8, <1>9, LostMoves DEF RowSet

LEMMA CleanLost ==
  ASSUME QInv, LostInv, NEW p \in Runners, Clean(p)
  PROVE  LostInv'
<1>1. PICK i \in Ids :
         /\ Orphan(i) /\ RowSet(db, db', i, "failed") /\ run[p] = NoRun
         /\ Moves(p, [NoRun EXCEPT !.at = "found", !.id = i, !.why = "crash"])
  BY CleanAs
<1> DEFINE x == [NoRun EXCEPT !.at = "found", !.id = i, !.why = "crash"]
<1>2. x.at = "found" /\ x.id = i
  BY DEF NoRun
<1>3. Moves(p, x)
  BY <1>1
<1> HIDE DEF x
<1>4. owed' = owed /\ exposed' = exposed /\ trace' = trace /\ drain' = drain
  BY DEF Clean
<1>5. \A q \in Runners : Active(q)' => Active(q) /\ run'[q] = run[q]
  BY <1>2, <1>3 DEF Moves, Active
<1>6. \A j \in Ids : Ahead(j) => Ahead(j)'
  BY <1>1, <1>5, AheadKept DEF RowSet
<1>7. ASSUME NEW j \in Ids, Orphan(j), Ahead(j) PROVE Stands'
  <2>1. CASE j = i
    <3>1. db'.succ < run'[p].id /\ \A q \in Runners : Active(q)' => run'[q].id < run'[p].id
      BY <1>1, <1>2, <1>3, <1>5, <1>7, <2>1 DEF Moves, RowSet, Ahead
    <3>2. Seen(p)'
      BY <1>2, <1>3, <3>1 DEF Seen, Ahead, Fails, Moves
    <3> QED
      BY <3>2 DEF Stands
  <2>2. CASE j # i
    <3>1. Orphan(j)'
      BY <1>1, <1>2, <1>3, <1>7, <2>2 DEF Orphan, RowSet, Moves
    <3> QED
      BY <1>6, <1>7, <3>1 DEF Stands
  <2> QED
    BY <2>1, <2>2
<1>8. ASSUME NEW j \in Ids, StillDeferred(j) PROVE Stands'
  <2>1. StillDeferred(j)'
    BY <1>1, <1>4, <1>6, <1>8 DEF StillDeferred, LeavesFailure, Leaves, RowSet
  <2> QED
    BY <2>1 DEF Stands
<1>9. ASSUME NEW q \in Runners, Seen(q) PROVE Stands'
  <2>1. q # p /\ run[q].id \in Ids
    BY <1>1, <1>9, RunType DEF Seen, Fails, NoRun, RunFits
  <2>2. run'[q] = run[q]
    BY <1>3, <2>1 DEF Moves
  <2>3. Seen(q)'
    BY <1>6, <1>9, <2>1, <2>2 DEF Seen, Fails
  <2> QED
    BY <2>3 DEF Stands
<1>10. Stands => Stands'
  <2>1. Queued(db) => Queued(db')
    BY <1>1 DEF RowSet, Queued, Orphan
  <2>2. DeadStands => DeadStands'
    BY <1>1, <1>5 DEF RowSet, DeadStands
  <2> QED
    BY <1>1, <1>4, <1>5, <1>7, <1>8, <1>9, <2>1, <2>2, StandsKept DEF RowSet, Leaves
<1>11. Wants' => Wants
  BY <1>4, <1>5, WantsKept DEF Wants, Active, Working
<1> QED
  BY <1>1, <1>4, <1>10, <1>11, LostMoves DEF RowSet, LostInv

LEMMA FinishLost ==
  ASSUME QInv, LostInv, NEW p \in Runners, Finish(p)
  PROVE  LostInv'
<1>1. /\ Working(p) /\ Ends(p, "done") /\ db' = db /\ drain' = drain
      /\ owed' = owed /\ exposed' = exposed /\ trace' = trace
  BY DEF Finish
<1>2. PICK x \in Runs :
        /\ Moves(p, x) /\ x.at \in {"idle", "done"} /\ x.id = run[p].id
        /\ x.at = "done" => x.keep = run[p].keep
  BY <1>1, EndsAs
<1>3. \A q \in Runners : /\ Active(q)' => Active(q) /\ run'[q].id = run[q].id
                                          /\ run'[q].keep = run[q].keep
                         /\ Working(q)' => Working(q) /\ run'[q] = run[q]
  BY <1>1, <1>2 DEF Moves, Active, Working
<1>4. \A j \in Ids : Ahead(j) => Ahead(j)'
  BY <1>1, <1>3, AheadKept
<1>5. Stands => Stands'
  <2>1. /\ \A i \in Ids : StillDeferred(i) \/ (Orphan(i) /\ Ahead(i)) => Stands'
        /\ \A q \in Runners : q # p /\ Seen(q) => Stands'
    BY <1>1, <1>2, <1>4, OthersStand DEF LeavesFailure, Leaves, Orphan
  <2>2. ~Seen(p)
    BY <1>1 DEF Seen, Fails, Working
  <2>3. (Queued(db) => Queued(db')) /\ (DeadStands => DeadStands')
    BY <1>1, <1>3 DEF DeadStands
  <2> QED
    BY <1>1, <1>3, <2>1, <2>2, <2>3, StandsKept DEF Leaves
<1>6. Wants' => Wants
  BY <1>1, <1>3, WantsKept DEF Wants
<1> QED
  BY <1>1, <1>5, <1>6, LostMoves DEF LostInv

(* What a handler decides is queued, marked, recorded, or its row has failed.  *)
LEMMA AfterStands ==
  ASSUME QInv, NEW p \in Runners, Working(p), NEW o, After(p, o), Kept(db, o.db),
         o.said = "queued" => Queued(o.db),
         o.said = "dead" => o.db.dead,
         o.said = "marked" =>
           \/ o.db.e = Retry(FloorOf(p)) /\ ~Leaves("e")'
           \/ o.db.e = Retry(NoFloor) /\ ~Leaves("e")'
           \/ o.db.r = Retry(FloorOf(p)) /\ ~Leaves("r")',
         o.said \in {"queued", "marked", "dead", "lost"}
  PROVE  trace' \/ Stands'
<1>1. PICK x \in Runs :
        /\ Moves(p, x) /\ x.id = run[p].id
        /\ \/ x.at = "idle" /\ x.id = 0
           \/ x.at = "done" /\ o.said # "lost" /\ x.keep = (run[p].keep \/ o.said = "dead")
           \/ x.at = "threw" /\ x.id # 0 /\ o.said = "lost"
  BY AfterAs
<1>2. /\ db'.succ = db.succ /\ db'.e = o.db.e /\ db'.r = o.db.r /\ db'.dead = o.db.dead
      /\ Queued(db') <=> Queued(o.db)
      /\ o.said = "lost" /\ run[p].id = 0 => trace'
  BY AfterAs
<1>3. CASE x.at = "threw" /\ x.id # 0
  BY <1>1, <1>2, <1>3, FailureStands DEF Holds, Working
<1>4. CASE x.at \in {"idle", "done"} /\ o.said = "queued"
  BY <1>2, <1>4 DEF Stands
<1>5. CASE x.at \in {"idle", "done"} /\ o.said = "dead"
  <2>1. db'.dead /\ (x.at = "done" => x.keep)
    BY <1>1, <1>2, <1>5
  <2> QED
    BY <1>1, <1>2, <1>5, <2>1, DecisionStands
<1>6. CASE x.at \in {"idle", "done"} /\ o.said = "marked"
  <2>1. \/ db'.e = Retry(FloorOf(p)) /\ ~Leaves("e")'
        \/ db'.e = Retry(NoFloor) /\ ~Leaves("e")'
        \/ db'.r = Retry(FloorOf(p)) /\ ~Leaves("r")'
    BY <1>2, <1>6
  <2> QED
    BY <1>1, <1>2, <1>6, <2>1, DecisionStands
<1>7. CASE x.at \in {"idle", "done"} /\ o.said = "lost"
  BY <1>1, <1>2, <1>7
<1> QED
  BY <1>1, <1>3, <1>4, <1>5, <1>6, <1>7

LEMMA AgainLost ==
  ASSUME QInv, StopInv, LostInv, NEW p \in Runners, Again(p)
  PROVE  LostInv'
<1>1. Working(p) /\ hook = "reservation" /\ exposed' = exposed /\ db.r.kind # "stop"
  BY DEF Again, StopInv
<1>2. ASSUME NEW o, After(p, o), Kept(db, o.db), o.db.r = db.r, trace' \/ Stands'
      PROVE  LostInv'
  <2>1. db'.r = db.r /\ (trace => trace')
    BY <1>1, <1>2, AfterAs
  <2> QED
    BY <1>1, <1>2, <2>1 DEF LostInv
<1>3. ASSUME NEW o \in Enqueued(db, FloorOf(p)), After(p, o), drain' = drain, QueueLock
      PROVE  LostInv'
  <2>1. /\ Kept(db, o.db) /\ o.db.r = db.r
        /\ o.said \in {"queued", "marked", "dead", "lost"}
        /\ o.said = "queued" => Queued(o.db)
        /\ o.said = "dead" => o.db.dead
        /\ o.said = "marked" => o.db.e = Retry(FloorOf(p))
    <3>1. db \in Stores /\ Numbering(db) /\ FloorOf(p) \in 0..MaxRows
      BY QueueTypes, Floors
    <3>2. /\ Kept(db, o.db) /\ o.db.r = db.r
          /\ o.said \in {"queued", "marked", "dead", "lost"}
          /\ o.said = "queued" => Queued(o.db)
          /\ o.db.dead = (db.dead \/ o.said = "dead")
          /\ o.db.e = IF o.said = "marked" THEN Retry(FloorOf(p)) ELSE db.e
      BY <3>1, EnqueuedFields
    <3> QED
      BY <3>2
  <2>2. ~Leaves("e")'
    BY <1>3 DEF QueueLock, NoDrain, Leaves
  <2> QED
    BY <1>1, <1>2, <1>3, <2>1, <2>2, AfterStands
<1>4. ASSUME NEW d \in NoLock(db), Rewritten("e"),
             After(p, [db |-> [d EXCEPT !.e = Retry(NoFloor)], said |-> "marked"])
      PROVE  LostInv'
  <2> DEFINE o == [db |-> [d EXCEPT !.e = Retry(NoFloor)], said |-> "marked"]
  <2>1. Kept(db, o.db) /\ o.db.r = db.r /\ o.db.e = Retry(NoFloor) /\ o.said = "marked"
    BY NoLockFields, Floors
  <2>2. After(p, o) /\ ~Leaves("e")'
    BY <1>4, QueueTypes DEF Rewritten, Leaves
  <2> HIDE DEF o
  <2> QED
    BY <1>1, <1>2, <2>1, <2>2, AfterStands
<1>5. CASE trace' /\ \E d \in NoLock(db) : db' \in Refused(d, 1)
  BY <1>5 DEF LostInv
<1> QED
  BY <1>3, <1>4, <1>5 DEF Again

LEMMA SupersedeLost ==
  ASSUME QInv, LostInv, NEW p \in Runners, NEW kind \in {"retry", "stop"}, Supersede(p, kind)
  PROVE  LostInv'
<1>1. Working(p) /\ exposed' = exposed
  BY DEF Supersede
<1> DEFINE m == Decision(p, kind)
<1>2. /\ m \in Markers({"retry", "stop"}) /\ m \in {NoMark} \cup Markers({"retry", "stop"})
      /\ m.kind = kind /\ (kind = "retry" => m = Retry(FloorOf(p)))
  BY Floors DEF Decision, Retry
<1>3. ASSUME NEW o, Keep(p, kind, o), kind = "stop" PROVE LostInv'
  <2>1. Ends(p, "done") /\ ~owed'
    BY <1>3 DEF Keep
  <2>2. PICK x \in Runs : Moves(p, x) /\ x.at \in {"idle", "done"}
    BY <1>1, <2>1, EndsAs
  <2>3. \A q \in Runners : ~Working(q)'
    BY <1>1, <2>2 DEF Moves, QInv, Apart, Holds, Working
  <2> QED
    BY <2>1, <2>3 DEF LostInv
<1>4. ASSUME NEW o, After(p, o), Kept(db, o.db), o.db.r \in {NoMark, m}, kind = "retry",
             trace' \/ Stands'
      PROVE  LostInv'
  <2>1. db'.r = o.db.r
    BY <1>1, <1>4, AfterAs
  <2>2. db'.r.kind # "stop"
    BY <1>2, <1>4, <2>1 DEF NoMark
  <2> QED
    BY <1>4, <2>2 DEF LostInv
<1>5. ASSUME NEW o \in Superseded(db, m), Keep(p, kind, o), drain' = drain, QueueLock,
             kind = "retry"
      PROVE  LostInv'
  <2> HIDE DEF m
  <2>1. /\ Kept(db, o.db) /\ o.said \in {"queued", "marked", "dead", "lost"}
        /\ o.said = "queued" => Queued(o.db)
        /\ o.db.dead = (db.dead \/ o.said = "dead")
        /\ o.db.r \in {NoMark, m} /\ (o.said = "marked" => o.db.r = m)
    BY <1>2, <1>5, QueueTypes, SupersededFields
  <2>2. ~Leaves("r")' /\ After(p, o)
    BY <1>5 DEF QueueLock, NoDrain, Leaves, Keep
  <2>3. o.said = "marked" => o.db.r = Retry(FloorOf(p))
    BY <1>2, <1>5, <2>1
  <2> QED
    BY <1>1, <1>4, <1>5, <2>1, <2>2, <2>3, AfterStands
<1>6. ASSUME NEW d \in NoLock(db), Rewritten("r"), kind = "retry",
             Keep(p, kind, [db |-> [d EXCEPT !.r = m], said |-> "marked"])
      PROVE  LostInv'
  <2> DEFINE o == [db |-> [d EXCEPT !.r = m], said |-> "marked"]
  <2>1. Kept(db, o.db) /\ o.db.r = m /\ o.said = "marked"
    BY <1>2, NoLockFields
  <2>2. After(p, o) /\ ~Leaves("r")'
    BY <1>6, QueueTypes DEF Rewritten, Leaves, Keep
  <2> HIDE DEF o, m
  <2>3. trace' \/ Stands'
    BY <1>1, <1>2, <1>6, <2>1, <2>2, AfterStands
  <2> QED
    BY <1>4, <1>6, <2>1, <2>2, <2>3
<1>7. CASE trace'
  BY <1>7 DEF LostInv
<1> QED
  BY <1>3, <1>5, <1>6, <1>7 DEF Supersede

LEMMA ThrowLost ==
  ASSUME QInv, LostInv, NEW p \in Runners, Throw(p)
  PROVE  LostInv'
<1>1. Working(p) /\ drain' = drain /\ exposed' = exposed
  BY DEF Throw
<1>2. CASE /\ run[p].id = 0 /\ db' = db /\ Moves(p, NoRun) /\ owed' = owed
           /\ trace' = (trace \/ run[p].debt)
  <2>1. NoRun.at = "idle" /\ NoRun.id = 0
    BY DEF NoRun
  <2>2. \A q \in Runners : /\ Active(q)' => Active(q) /\ run'[q] = run[q]
                           /\ Working(q)' => Working(q) /\ run'[q] = run[q]
    BY <1>2, <2>1 DEF Moves, Active, Working
  <2>3. \A j \in Ids : Ahead(j) => Ahead(j)'
    BY <1>2, <2>2, AheadKept
  <2>4. Stands => Stands'
    <3>1. /\ \A i \in Ids : StillDeferred(i) \/ (Orphan(i) /\ Ahead(i)) => Stands'
          /\ \A q \in Runners : q # p /\ Seen(q) => Stands'
      BY <1>1, <1>2, <2>1, <2>3, OthersStand DEF LeavesFailure, Leaves, Orphan
    <3>2. ~Seen(p)
      BY <1>1 DEF Seen, Fails, Working
    <3>3. (Queued(db) => Queued(db')) /\ (DeadStands => DeadStands')
      BY <1>2, <2>2 DEF DeadStands
    <3> QED
      BY <1>1, <1>2, <2>2, <3>1, <3>2, <3>3, StandsKept DEF Leaves
  <2>5. Wants' => Wants
    BY <1>2, <2>2, WantsKept DEF Wants
  <2> QED
    BY <1>1, <1>2, <2>4, <2>5, LostMoves DEF LostInv
<1>3. CASE /\ run[p].id \in Ids /\ RowSet(db, db', run[p].id, "failed")
           /\ Moves(p, [NoRun EXCEPT !.at = "threw", !.id = run[p].id, !.why = "crash"])
           /\ owed' = (owed \/ run[p].debt) /\ trace' = trace
  <2> DEFINE x == [NoRun EXCEPT !.at = "threw", !.id = run[p].id, !.why = "crash"]
  <2>1. Moves(p, x) /\ x.at = "threw" /\ x.id = run[p].id /\ x.id # 0
    BY <1>3, IdsType DEF NoRun
  <2> HIDE DEF x
  <2>2. Stands'
    BY <1>1, <1>3, <2>1, FailureStands DEF RowSet, Holds, Working
  <2>3. \A q \in Runners : Working(q)' => Working(q) /\ run'[q] = run[q]
    BY <2>1 DEF Moves, Working
  <2>4. Wants' => Wants
    BY <1>1, <1>3, <2>3, WantsKept DEF Wants
  <2> QED
    BY <1>1, <1>3, <2>2, <2>4, LostMoves DEF RowSet
<1> QED
  BY <1>2, <1>3, ThrowAs

(* A run that ends well, and one that dies after it is recorded: what stands   *)
(* is above it.                                                             *)
LEMMA HealthyStands ==
  ASSUME QInv, NEW p \in Runners, run[p].at = "done", Moves(p, NoRun), drain' = drain,
         db'.cron = db.cron, db'.e = db.e, db'.r = db.r, db'.c = db.c,
         \A j \in Ids : j # run[p].id => db'.row[j] = db.row[j],
         db.row[run[p].id] = "running", db.dead /\ run[p].keep => db'.dead,
         db'.succ = db.succ \/ db'.succ = run[p].id, Stands
  PROVE  Stands'
<1>1. NoRun.at = "idle" /\ NoRun.id = 0 /\ Active(p)
  BY DEF NoRun, Active
<1>2. \A q \in Runners : Active(q)' => Active(q) /\ run'[q] = run[q]
  BY <1>1 DEF Moves, Active
<1>3. \A j \in Ids : Ahead(j) => Ahead(j)'
  BY <1>1, <1>2, AheadKept
<1>4. /\ \A i \in Ids : StillDeferred(i) \/ (Orphan(i) /\ Ahead(i)) => Stands'
      /\ \A q \in Runners : q # p /\ Seen(q) => Stands'
  <2>1. \A i \in Ids : Orphan(i) => db'.row[i] = "running"
    BY DEF Orphan
  <2> QED
    BY <1>1, <1>3, <2>1, OthersStand DEF LeavesFailure, Leaves
<1>5. ~Seen(p)
  BY DEF Seen, Fails
<1>6. Queued(db) => Queued(db')
  BY DEF Queued
<1>7. DeadStands => DeadStands'
  BY <1>1, <1>2 DEF DeadStands
<1> QED
  BY <1>1, <1>2, <1>4, <1>5, <1>6, <1>7, StandsKept DEF Leaves

LEMMA ExecutedLost ==
  ASSUME QInv, LostInv, NEW p \in Runners, Executed(p)
  PROVE  LostInv'
<1>1. drain' = drain /\ owed' = owed /\ exposed' = exposed /\ trace' = trace
  BY DEF Executed
<1> DEFINE i == run[p].id
<1>2. /\ db.row[i] = "running" /\ Moves(p, NoRun)
      /\ run[p].at = "done" /\ i \in Ids
      /\ \A j \in Ids : db'.row[j] = IF j = i THEN "complete" ELSE db.row[j]
      /\ db'.cron = db.cron /\ db'.e = db.e /\ db'.r = db.r /\ db'.c = db.c
      /\ \/ db'.dead = (db.dead /\ run[p].keep) /\ db'.succ = i
         \/ db'.dead = db.dead /\ db'.succ = db.succ
  BY ExecutedAs
<1>3. Stands => Stands'
  BY <1>1, <1>2, HealthyStands
<1>4. \A q \in Runners : Working(q)' => Working(q) /\ run'[q] = run[q]
  BY <1>2 DEF Moves, Working, NoRun
<1>5. Wants' => Wants
  BY <1>1, <1>4, WantsKept DEF Wants
<1> QED
  BY <1>1, <1>2, <1>3, <1>5, LostMoves DEF LostInv

LEMMA DieLost ==
  ASSUME QInv, LostInv, NEW p \in Runners, Die(p)
  PROVE  LostInv'
<1>1. /\ Moves(p, NoRun) /\ drain' = drain /\ exposed' = exposed /\ (trace => trace')
      /\ db' \in Half(p) /\ run[p] # NoRun /\ run[p] \in Runs
      /\ owed' = (db'.r.kind # "stop" /\ (owed \/ (Working(p) /\ run[p].debt /\ run[p].id > 0)))
      /\ trace' = (trace \/ (Working(p) /\ run[p].id = 0 /\ (run[p].debt \/ db' # db))
                         \/ run[p].at \in {"threw", "found"})
  BY QueueTypes, RunType DEF Die, Moves
<1>2. NoRun.at = "idle" /\ NoRun.id = 0
  BY DEF NoRun
<1>3. \A q \in Runners : /\ Active(q)' => Active(q) /\ run'[q] = run[q]
                         /\ Working(q)' => Working(q) /\ run'[q] = run[q] /\ q # p
  BY <1>1, <1>2 DEF Moves, Active, Working
<1>4. Wants' => Wants
  <2>1. owed' => Wants
    BY <1>1 DEF Wants
  <2> QED
    BY <1>3, <2>1, WantsKept
<1>5. CASE trace'
  BY <1>5 DEF LostInv
<1>6. CASE Working(p) /\ ~trace'
  <2>1. Kept(db, db')
    <3>1. ~(run[p].at = "done")
      BY <1>6 DEF Working
    <3> QED
      BY <1>1, <3>1, HalfFields
  <2>2. \A q \in Runners : ~Active(q)'
    BY <1>1, <1>2, <1>6 DEF Moves, QInv, Apart, Holds, Active, Working
  <2>3. ~Wants' \/ db'.r.kind # "stop"
    BY <1>1, <2>2 DEF Wants, Active, Working
  <2>4. ASSUME owed', ~exposed' PROVE Stands'
    <3>1. CASE run[p].id = 0
      <4>1. db' = db /\ ~run[p].debt /\ (owed' => owed)
        BY <1>1, <1>6, <3>1
      <4>2. \A j \in Ids : Ahead(j) => Ahead(j)'
        BY <1>3, <4>1, AheadKept
      <4>3. /\ \A i \in Ids : StillDeferred(i) \/ (Orphan(i) /\ Ahead(i)) => Stands'
            /\ \A q \in Runners : q # p /\ Seen(q) => Stands'
        BY <1>1, <1>2, <4>1, <4>2, OthersStand DEF LeavesFailure, Leaves, Orphan
      <4>4. ~Seen(p)
        BY <1>6 DEF Seen, Fails, Working
      <4>5. (Queued(db) => Queued(db')) /\ (DeadStands => DeadStands')
        BY <1>3, <4>1 DEF DeadStands
      <4>6. Stands => Stands'
        BY <1>1, <1>3, <4>1, <4>3, <4>4, <4>5, StandsKept DEF Leaves
      <4>7. ~trace
        BY <1>1, <1>6
      <4> QED
        BY <1>1, <2>4, <4>1, <4>6, <4>7 DEF LostInv
    <3>2. CASE run[p].id # 0
      <4>1. run[p].id \in Ids /\ db.row[run[p].id] = "running" /\ db.succ < run[p].id
        BY <1>6, <3>2, RunType DEF RunFits, Working
      <4>2. db'.row[run[p].id] = "running" /\ db'.succ < run[p].id
        BY <2>1, <4>1 DEF Kept, Steady
      <4>3. \A q \in Runners : run'[q].id # run[p].id
        BY <1>1, <1>2, <3>2 DEF Moves, QInv, Apart
      <4>4. PICK i \in Ids : i = run[p].id
        BY <4>1
      <4>5. Orphan(i)' /\ Ahead(i)'
        BY <2>2, <4>2, <4>3, <4>4 DEF Orphan, Ahead
      <4> QED
        BY <4>5 DEF Stands
    <3> QED
      BY <3>1, <3>2
  <2> QED
    BY <2>3, <2>4 DEF LostInv, Wants
<1>7. CASE run[p].at = "done" /\ ~trace'
  <2>1. /\ db.row[run[p].id] = "running"
        /\ \/ db' = db
           \/ /\ db'.row = db.row /\ db'.cron = db.cron /\ db'.e = db.e /\ db'.r = db.r
              /\ db'.c = db.c /\ db'.dead = (db.dead /\ run[p].keep) /\ db'.succ = run[p].id
    <3>1. ~Working(p) /\ ~Fails(p)
      BY <1>7 DEF Working, Fails
    <3> QED
      BY <1>1, <1>7, <3>1, HalfFields, HealthyFields
  <2>2. Stands => Stands'
    BY <1>1, <1>7, <2>1, HealthyStands
  <2>3. (owed' => owed) /\ db'.r = db.r
    BY <1>1, <1>7, <2>1 DEF Working
  <2> QED
    BY <1>1, <1>4, <2>2, <2>3, LostMoves DEF LostInv
<1> QED
  BY <1>1, <1>5, <1>6, <1>7, RunType DEF RunFits, Runs, Working

(* A failure is decided about, by the process that saw it or by a drain: what   *)
(* was kept stands, unless the failure was of a run older than a healthy one. *)
LEMMA DecidedStands ==
  ASSUME QInv, NEW i \in Ids, NEW why, NEW floor \in 0..MaxRows, db.succ <= floor, NEW o,
         DecidedAs(db, i, why, floor, o), o.said \notin {"lost", "old"}, db' = o.db,
         ~IsExposed(o, floor), ~Leaves("e")',
         \A q \in Runners : Active(q)' => Active(q) /\ run'[q] = run[q]
  PROVE  Stands'
<1>1. \A q \in Runners : Active(q) => o.said # "dead" /\ (o.said = "marked" => run[q].id <= floor)
  <2>1. floor \in Nat /\ \A q \in Runners : run[q].id \in Nat
    BY RunType, SiteQueueConstants
  <2> QED
    BY <2>1 DEF IsExposed, Active
<1>2. CASE o.said = "queued"
  BY <1>2 DEF DecidedAs, Stands
<1>3. CASE o.said = "marked"
  <2>1. db'.e = Retry(floor) /\ db'.succ = db.succ
    BY <1>3 DEF DecidedAs, Kept, Steady
  <2>2. Safe(db.e)'
    BY <1>1, <1>3, <2>1 DEF Safe, Retry
  <2> QED
    BY <2>2 DEF Stands
<1>4. CASE o.said = "dead"
  BY <1>1, <1>4 DEF DecidedAs, Stands, DeadStands
<1> QED
  BY <1>2, <1>3, <1>4 DEF DecidedAs

LEMMA SettleLost ==
  ASSUME QInv, LostInv, NEW p \in Runners, Settle(p)
  PROVE  LostInv'
<1>0. PICK i, why, floor : /\ i = run[p].id /\ why = run[p].why
                           /\ floor = IF run[p].at = "threw" THEN i ELSE db.succ
  OBVIOUS
<1>1. /\ Fails(p) /\ Moves(p, NoRun) /\ drain' = drain /\ owed' = owed
      /\ db \in Stores /\ Numbering(db)
      /\ NoRun.at = "idle" /\ NoRun.id = 0
  BY QueueTypes DEF Settle, Fails, Moves, NoRun
<1>2. i \in Ids /\ why \in {"busy", "crash"} /\ floor \in 0..MaxRows /\ db.succ <= floor
  <2>1. i \in Ids /\ why \in {"busy", "crash"} /\ i \in 0..MaxRows
    BY <1>0, <1>1, RunType DEF RunFits, Fails
  <2>2. db.succ \in Nat /\ db.succ \in 0..MaxRows /\ i \in Nat
    BY <2>1, QueueTypes, IdsType
  <2>3. run[p].at = "threw" => db.succ < i
    BY <1>0, <2>1, RunType, IdsType DEF RunFits
  <2> QED
    BY <1>0, <2>1, <2>2, <2>3
<1>3. \A q \in Runners : /\ Active(q)' => Active(q) /\ run'[q] = run[q]
                         /\ Working(q)' => Working(q) /\ run'[q] = run[q]
  BY <1>1 DEF Moves, Active, Working
<1>4. db.c[i] = "no" /\ ~LeavesFailure(i)
  BY <1>0, <1>2 DEF QInv, Attended, LeavesFailure, Leaves
<1>5. Wants' => Wants
  BY <1>1, <1>3, WantsKept DEF Wants
<1>6. ASSUME NEW x, x.db \in Stores, x.db.row = db.row, x.db.cron = db.cron, x.db.e = db.e,
             x.db.r = db.r, x.db.dead = db.dead, x.db.succ = db.succ, x.db.c = db.c, Stands,
             \/ db' = x.db /\ ~Seen(p)
             \/ db' = Deferred(x.db, i, why)
      PROVE  Stands' /\ db'.r = db.r
  <2>1. /\ db'.row = db.row /\ db'.cron = db.cron /\ db'.e = db.e /\ db'.r = db.r
        /\ db'.dead = db.dead /\ db'.succ = db.succ
        /\ \A j \in Ids : j # i => db'.c[j] = db.c[j]
        /\ db'.c[i] = IF db' = x.db THEN "no" ELSE why
    BY <1>2, <1>4, <1>6 DEF Deferred, Stores
  <2>2. \A j \in Ids : Ahead(j) => Ahead(j)'
    BY <1>3, <2>1, AheadKept
  <2>3. /\ \A j \in Ids : StillDeferred(j) \/ (Orphan(j) /\ Ahead(j)) => Stands'
        /\ \A q \in Runners : q # p /\ Seen(q) => Stands'
    <3>1. \A j \in Ids : LeavesFailure(j)' => LeavesFailure(j)
      BY <1>1 DEF LeavesFailure, Leaves
    <3>2. \A j \in Ids : db.c[j] = "no" \/ db'.c[j] = db.c[j]
      BY <1>4, <2>1
    <3>3. \A j \in Ids : Orphan(j) => db'.row[j] = "running"
      BY <2>1 DEF Orphan
    <3> QED
      BY <1>1, <2>2, <3>1, <3>2, <3>3, OthersStand
  <2>4. Seen(p) => Stands'
    <3> SUFFICES ASSUME Seen(p) PROVE Stands'
      OBVIOUS
    <3>1. db'.c[i] = why /\ why # "no" /\ (why = "busy" \/ Ahead(i))
      BY <1>0, <1>2, <1>4, <1>6, <2>1 DEF Seen, Deferred, Stores
    <3>2. StillDeferred(i)'
      BY <1>1, <1>2, <1>4, <2>2, <3>1 DEF StillDeferred, LeavesFailure, Leaves
    <3> QED
      BY <1>2, <3>2 DEF Stands
  <2>5. (Queued(db) => Queued(db')) /\ (DeadStands => DeadStands')
    BY <1>3, <2>1 DEF Queued, DeadStands
  <2> QED
    BY <1>1, <1>3, <1>6, <2>1, <2>3, <2>4, <2>5, StandsKept DEF Leaves
<1>7. ASSUME NEW o \in Decided(db, i, why, floor), QueueLock, o.said # "lost", db' = o.db,
             exposed' = IsExposed(o, floor), trace' = trace
      PROVE  LostInv'
  <2>1. DecidedAs(db, i, why, floor, o)
    BY <1>1, <1>2, DecidedFields
  <2>2. db'.r = db.r
    BY <1>7, <2>1 DEF DecidedAs
  <2>3. ~Leaves("e")'
    BY <1>1, <1>7 DEF QueueLock, NoDrain, Leaves
  <2>4. exposed => exposed'
    BY <1>7 DEF IsExposed
  <2>5. ASSUME owed', ~trace', ~exposed' PROVE Stands'
    <3>1. CASE o.said # "old"
      BY <1>2, <1>3, <1>7, <2>1, <2>3, <2>5, <3>1, DecidedStands
    <3>2. CASE o.said = "old"
      <4>1. o.db = db /\ why = "crash" /\ i <= db.succ
        BY <2>1, <3>2 DEF DecidedAs
      <4>2. ~Seen(p)
        <5>1. i \in Nat /\ db.succ \in Nat
          BY <1>2, QueueTypes, IdsType
        <5> QED
          BY <1>0, <4>1, <5>1 DEF Seen, Ahead
      <4>3. Stands
        BY <1>1, <1>7, <2>4, <2>5 DEF LostInv
      <4> QED
        BY <1>1, <1>6, <1>7, <4>1, <4>2, <4>3
    <3> QED
      BY <3>1, <3>2
  <2> QED
    BY <1>5, <1>7, <2>2, <2>4, <2>5, LostMoves
<1>8. ASSUME NEW x, x.db \in Stores, x.db.row = db.row, x.db.cron = db.cron, x.db.e = db.e,
             x.db.r = db.r, x.db.dead = db.dead, x.db.succ = db.succ, x.db.c = db.c,
             exposed' = exposed,
             \/ db' = Deferred(x.db, i, why) /\ trace' = trace
             \/ db' \in Refused(x.db, 1) /\ trace' = TRUE
      PROVE  LostInv'
  <2>1. CASE trace'
    BY <2>1 DEF LostInv
  <2>2. CASE ~trace'
    <3>1. db' = Deferred(x.db, i, why) /\ trace' = trace
      BY <1>8, <2>2
    <3>2. db'.r = db.r
      BY <1>8, <3>1 DEF Deferred, Stores
    <3>3. Stands => Stands'
      BY <1>6, <1>8, <3>1
    <3> QED
      BY <1>1, <1>5, <1>8, <3>1, <3>2, <3>3, LostMoves DEF LostInv
  <2> QED
    BY <2>1, <2>2
<1>9. ASSUME NEW d, \/ d \in NoLock(db)
                    \/ \E o \in Decided(db, i, why, floor) : o.said = "lost" /\ d = o.db,
             exposed' = exposed,
             \/ db' = Deferred(d, i, why) /\ trace' = trace
             \/ db' \in Refused(d, 1) /\ trace' = TRUE
      PROVE  LostInv'
  <2> DEFINE x == [db |-> d]
  <2>1. /\ d \in Stores /\ d.row = db.row /\ d.cron = db.cron /\ d.e = db.e
        /\ d.r = db.r /\ d.dead = db.dead /\ d.succ = db.succ /\ d.c = db.c
    <3>1. CASE d \in NoLock(db)
      BY <3>1, NoLockFields DEF Same
    <3>2. ASSUME NEW o \in Decided(db, i, why, floor), o.said = "lost", d = o.db
          PROVE  /\ d \in Stores /\ d.row = db.row /\ d.cron = db.cron /\ d.e = db.e
                 /\ d.r = db.r /\ d.dead = db.dead /\ d.succ = db.succ /\ d.c = db.c
      BY <1>1, <1>2, <3>2, DecidedFields DEF DecidedAs, Kept, Steady
    <3> QED
      BY <1>9, <3>1, <3>2
  <2>2. x.db = d
    OBVIOUS
  <2> HIDE DEF x
  <2> QED
    BY <1>8, <1>9, <2>1, <2>2
<1> QED
  BY <1>0, <1>7, <1>8, <1>9 DEF Settle

(* A drain acts on one marker and deletes it; no process moves.               *)
LEMMA DrainStands ==
  ASSUME QInv, Stands, run' = run, db'.row = db.row, db'.cron = db.cron, db'.succ = db.succ,
         db.dead => db'.dead, db'.e = db.e \/ Leaves("e"), db'.r = db.r \/ Leaves("r"),
         \A j \in Ids : StillDeferred(j) => db'.c[j] = db.c[j] /\ ~LeavesFailure(j)',
         Leaves("e")' => ~Safe(db.e), Leaves("r")' => ~Safe(db.r)
  PROVE  Stands'
<1>1. \A q \in Runners : Active(q)' <=> Active(q)
  BY DEF Active
<1>2. \A j \in Ids : Ahead(j) => Ahead(j)'
  BY <1>1 DEF Ahead
<1>3. ASSUME NEW j \in Ids, StillDeferred(j) PROVE Stands'
  <2>1. StillDeferred(j)'
    BY <1>2, <1>3 DEF StillDeferred
  <2> QED
    BY <2>1 DEF Stands
<1>4. ASSUME NEW j \in Ids, Orphan(j), Ahead(j) PROVE Stands'
  BY <1>2, <1>4 DEF Orphan, Stands
<1>5. ASSUME NEW q \in Runners, Seen(q) PROVE Stands'
  <2>1. run[q].id \in Ids
    BY <1>5, RunType DEF Seen, Fails, RunFits
  <2>2. Seen(q)'
    BY <1>2, <1>5, <2>1 DEF Seen, Fails
  <2> QED
    BY <2>2 DEF Stands
<1>6. (Queued(db) => Queued(db')) /\ (DeadStands => DeadStands')
  BY <1>1 DEF Queued, DeadStands
<1> QED
  BY <1>1, <1>3, <1>4, <1>5, <1>6, StandsKept

LEMMA DrainLost ==
  ASSUME QInv, LostInv, DrainSteps
  PROVE  LostInv'
<1>1. run' = run /\ owed' = owed /\ trace' = trace
  BY DEF DrainSteps, DrainMarker, DrainGivesUp, DrainFailure, DrainForgets, DrainDies
<1>2. Wants' => Wants
  BY <1>1 DEF Wants, Working
<1>3. \A q \in Runners : Active(q)' <=> Active(q)
  BY <1>1 DEF Active
<1>4. ASSUME NEW op \in {"e", "r"}, DrainMarker(op) PROVE LostInv'
  <2> DEFINE floor == db[op].floor
  <2>1. PICK o : DrainedAs(op, o) /\ Drains(op, 0, o, floor)
    BY <1>4, DrainMarkerFields
  <2>2. /\ db[op].kind \in {"retry", "stop"} /\ (op = "e" => db[op].kind = "retry")
        /\ floor \in Nat /\ db.succ \in Nat
    BY <1>4, DrainMarkerFields, QueueTypes, SiteQueueConstants
  <2>3. /\ db' = o.db /\ db'.e = db.e /\ db'.r = db.r /\ db'.succ = db.succ /\ db'.c = db.c
        /\ db'[op] = db[op] /\ exposed' = IsExposed(o, floor)
        /\ drain'.op = op /\ (drain'.same <=> o.said # "lost" /\ o.said # "marked")
    BY <2>1 DEF DrainedAs, Drains, Kept, Steady
  <2>4. (exposed => exposed') /\ \A j : ~LeavesFailure(j)'
    BY <2>3 DEF IsExposed, LeavesFailure, Leaves
  <2>5. ASSUME owed', ~trace', ~exposed' PROVE Stands'
    <3>1. Stands /\ db.r.kind # "stop"
      BY <1>1, <2>4, <2>5 DEF LostInv
    <3>2. db[op].kind = "retry"
      BY <2>2, <3>1
    <3>3. CASE o.said = "queued"
      BY <2>1, <2>3, <3>2, <3>3 DEF DrainedAs, Stands
    <3>4. CASE o.said = "marked"
      <4>1. \A q \in Runners : Active(q) => run[q].id <= floor
        <5>1. \A q \in Runners : run[q].id \in Nat
          BY RunType
        <5> QED
          BY <2>2, <2>3, <2>5, <3>4, <5>1 DEF IsExposed, Active
      <4>2. db.succ <= floor
        BY <2>1, <3>4 DEF DrainedAs
      <4>3. Safe(db[op])' /\ ~Leaves(op)'
        BY <1>1, <1>3, <2>3, <3>2, <3>4, <4>1, <4>2 DEF Safe, Leaves
      <4> QED
        BY <4>3 DEF Stands
    <3>5. CASE o.said = "dead"
      BY <1>3, <2>1, <2>3, <2>5, <3>5 DEF DrainedAs, IsExposed, Active, Stands, DeadStands
    <3>6. CASE o.said = "old" \/ o.said = "lost"
      <4>1. db'.row = db.row /\ db'.cron = db.cron /\ (db.dead => db'.dead)
        BY <2>1, <2>3, <3>6 DEF DrainedAs
      <4>2. Leaves(op)' => ~Safe(db[op])
        BY <2>1, <2>2, <2>3, <3>6 DEF DrainedAs, Leaves, Safe
      <4>3. (Leaves("e")' => ~Safe(db.e)) /\ (Leaves("r")' => ~Safe(db.r))
        BY <2>3, <4>2 DEF Leaves
      <4> QED
        BY <1>1, <2>3, <2>4, <3>1, <4>1, <4>3, DrainStands
    <3> QED
      BY <2>1, <3>3, <3>4, <3>5, <3>6 DEF DrainedAs
  <2> QED
    BY <1>1, <1>2, <2>3, <2>4, <2>5, LostMoves
<1>5. ASSUME NEW op \in {"e", "r"}, DrainGivesUp(op) PROVE LostInv'
  <2>1. /\ db'.dead /\ (db'.r.kind = "stop" => db.r.kind = "stop")
    BY <1>5, GivenUp DEF NoMark
  <2>2. (\A q \in Runners : ~Active(q)) /\ exposed' = exposed
    BY <1>5 DEF DrainGivesUp, TooLong, Active
  <2>3. Stands'
    BY <1>3, <2>1, <2>2 DEF Stands, DeadStands
  <2> QED
    BY <1>1, <1>2, <2>1, <2>2, <2>3, LostMoves
<1>6. ASSUME NEW i \in Ids, DrainFailure(i) PROVE LostInv'
  <2>0. PICK why \in {"busy", "crash"} : why = db.c[i]
    BY <1>6, QueueTypes DEF DrainFailure
  <2>1. PICK o \in Decided(db, i, why, db.succ) : Drains("c", i, o, db.succ)
    BY <1>6, <2>0 DEF DrainFailure
  <2>2. DecidedAs(db, i, why, db.succ, o) /\ db.succ \in 0..MaxRows /\ db.succ \in Nat /\ i \in Nat
    BY QueueTypes, DecidedFields, IdsType
  <2>3. /\ db' = o.db /\ db'.r = db.r /\ db'.succ = db.succ /\ db'.c = db.c
        /\ exposed' = IsExposed(o, db.succ)
        /\ drain'.op = "c" /\ drain'.id = i /\ (drain'.same <=> o.said # "lost")
    BY <2>1, <2>2 DEF DecidedAs, Drains, Kept, Steady
  <2>4. (exposed => exposed') /\ ~Leaves("e")' /\ ~Leaves("r")'
    BY <2>3 DEF IsExposed, Leaves
  <2>5. ASSUME owed', ~trace', ~exposed' PROVE Stands'
    <3>1. Stands
      BY <1>1, <2>4, <2>5 DEF LostInv
    <3>2. CASE o.said \notin {"old", "lost"}
      <4>1. \A q \in Runners : Active(q)' => Active(q) /\ run'[q] = run[q]
        BY <1>1, <1>3
      <4> QED
        BY <2>2, <2>3, <2>4, <2>5, <3>2, <4>1, DecidedStands
    <3>3. CASE o.said \in {"old", "lost"}
      <4>1. /\ db'.row = db.row /\ db'.cron = db.cron /\ db'.e = db.e /\ db'.dead = db.dead
        BY <2>2, <2>3, <3>3 DEF DecidedAs
      <4>2. \A j \in Ids : StillDeferred(j) => ~LeavesFailure(j)'
        <5>1. CASE o.said = "lost"
          BY <2>3, <5>1 DEF LeavesFailure, Leaves
        <5>2. CASE o.said = "old"
          <6>1. ~StillDeferred(i)
            BY <2>0, <2>2, <5>2 DEF DecidedAs, StillDeferred, Ahead
          <6> QED
            BY <2>3, <6>1 DEF LeavesFailure, Leaves
        <5> QED
          BY <3>3, <5>1, <5>2
      <4> QED
        BY <1>1, <2>3, <2>4, <3>1, <4>1, <4>2, DrainStands
    <3> QED
      BY <3>2, <3>3
  <2> QED
    BY <1>1, <1>2, <2>3, <2>4, <2>5, LostMoves
<1>7. CASE DrainForgets \/ DrainDies
  <2>1. /\ drain' = NoDrain /\ exposed' = exposed
        /\ \/ drain.same /\ db' = Without(db, drain.op, drain.id)
           \/ db' = db \/ db' \in Refused(db, 1)
    BY <1>7 DEF DrainForgets, DrainDies
  <2>2. /\ db'.row = db.row /\ db'.cron = db.cron /\ db'.succ = db.succ /\ db'.dead = db.dead
        /\ db'.e = db.e \/ Leaves("e")
        /\ db'.r = db.r \/ (Leaves("r") /\ db'.r = NoMark)
        /\ \A j \in Ids : db'.c[j] = db.c[j] \/ LeavesFailure(j)
    <3>1. CASE drain.same /\ db' = Without(db, drain.op, drain.id)
      <4>1. drain.op \in {"e", "r", "c"} /\ (drain.op = "c" => drain.id \in Ids)
        BY <3>1, QueueTypes DEF QInv, Attended, NoDrain
      <4> QED
        BY <3>1, <4>1, QueueTypes, WithoutFields DEF Leaves, LeavesFailure
    <3>2. CASE db' = db \/ db' \in Refused(db, 1)
      BY <3>2, QueueTypes, RefusedFields DEF Same
    <3> QED
      BY <2>1, <3>1, <3>2
  <2>3. ~Leaves("e")' /\ ~Leaves("r")' /\ \A j : ~LeavesFailure(j)'
    BY <2>1 DEF Leaves, LeavesFailure, NoDrain
  <2>4. \A j \in Ids : StillDeferred(j) => db'.c[j] = db.c[j]
    BY <2>2 DEF StillDeferred
  <2>5. Stands => Stands'
    BY <1>1, <2>2, <2>3, <2>4, DrainStands
  <2>6. db'.r.kind = "stop" => db.r.kind = "stop"
    BY <2>2 DEF NoMark
  <2> QED
    BY <1>1, <1>2, <2>1, <2>5, <2>6, LostMoves DEF LostInv
<1> QED
  BY <1>4, <1>5, <1>6, <1>7 DEF DrainSteps

LEMMA RunLostInv ==
  ASSUME QInv, StopInv, LostInv, NEW p \in Runners, RunSteps(p)
  PROVE  LostInv'
<1>1. CASE TakeRow(p)
  <2>1. db'.r = db.r
    BY <1>1, QueueTypes DEF TakeRow, Stores
  <2> QED
    BY <1>1, <2>1, BeginLost DEF TakeRow
<1>2. CASE CronRun(p) \/ Resend(p)
  <2>1. PICK d \in Stores : /\ d.r = db.r
                            /\ \/ Begin(p, 0) /\ db' = d /\ UNCHANGED <<drain, exposed, trace>>
                               \/ run' = run /\ AcceptAs(d)
    BY <1>2, CronRunAs, ResendAs
  <2>2. run[p] = NoRun
    BY <1>2 DEF CronRun, Resend
  <2> QED
    BY <2>1, <2>2, BeginLost, AcceptLost
<1> QED
  BY <1>1, <1>2, StartFailsLost, CleanLost, FinishLost, AgainLost, SupersedeLost, ThrowLost,
     ExecutedLost, SettleLost, DieLost DEF RunSteps

LEMMA NextLostInv ==
  ASSUME QInv, StopInv, LostInv, [SiteQueueNext]_qvars
  PROVE  LostInv'
<1>1. CASE Ask
  BY <1>1, AskAs, AcceptLost
<1>2. ASSUME NEW p \in Runners, RunSteps(p) PROVE LostInv'
  BY <1>2, RunLostInv
<1>3. CASE DrainSteps
  BY <1>3, DrainLost
<1>4. CASE UNCHANGED qvars
  BY <1>4 DEF qvars, LostInv, Stands, Queued, DeadStands, Active, Safe, Leaves, StillDeferred,
              LeavesFailure, Ahead, Orphan, Seen, Fails, Working
<1> QED
  BY <1>1, <1>2, <1>3, <1>4 DEF SiteQueueNext

LEMMA StandsIsFound ==
  ASSUME QInv, Stands
  PROVE  Found
BY DEF Stands, DeadStands, Safe, StillDeferred, Seen, Fails, Found, NoMark

(* A request that was accepted is never forgotten (NothingForgotten,           *)
(* class-lmc-queue.php:44-58): until a run begins for it, what is queued, a    *)
(* marker, a record of a dead job or a failure to be dealt with keeps it,      *)
(* whatever statement or lock is refused and whichever process dies, but for  *)
(* what leaves a trace and for the exposed histories.                        *)
THEOREM NothingIsForgotten == SiteQueueSpec => []NothingForgotten
<1>1. SiteQueueInit => StopInv /\ LostInv
  BY DEF SiteQueueInit, StopInv, LostInv, NoMark, NoRun, Working
<1>2. QInv /\ StopInv /\ LostInv /\ [SiteQueueNext]_qvars => StopInv' /\ LostInv'
  BY NextStopInv, NextLostInv
<1>3. QInv /\ LostInv => NothingForgotten
  BY StandsIsFound DEF LostInv, NothingForgotten
<1> QED
  BY <1>1, <1>2, <1>3, QueueInvariant, PTL DEF SiteQueueSpec

=============================================================================
