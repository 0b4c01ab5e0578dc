--------------------------- MODULE CheckoutProofs ---------------------------
(* Proofs about Checkout for any number of tabs, payments and copies.       *)
EXTENDS Checkout, Sums, TLAPS

Verdicts == {"recorded", "refused", "sealed", "closed", "conflict"}

(* The type invariant without the sums of money, and what a tab at work is  *)
(* about: one of the payments.                                              *)
Shapes ==
  /\ status \in Statuses
  /\ pay \in [Keys -> {"none", "succeeded", "reversed"}]
  /\ inbox \in [Keys -> {"none", "paid", "sealed"}]
  /\ copy \in [Keys -> [Sends -> {"idle", "sent", "held", "yes", "no", "gone"}]]
  /\ sealing \subseteq Keys
  /\ pending \in Keys \cup {NoKey}
  /\ tab \in [Tabs -> TabRecords]
  /\ told \in [Keys -> SUBSET Verdicts]
AtWork == \A t \in Tabs : tab[t].ph # "idle" =>
            tab[t].k \in Keys /\ (tab[t].ph = "submitting" => tab[t].n \in Sends)
SInv == Shapes /\ AtWork

USE DEF invoiceVars, moneyVars, serverVars, browserVars

LEMMA InitSInv == Init => SInv
BY CheckoutConstants DEF Init, SInv, Shapes, AtWork, Statuses, TabRecords, Idle, Verdicts, Sends

(* The phases a tab is put in.                                              *)
LEMMA TabShapes ==
  /\ Idle \in TabRecords
  /\ \A k \in Keys, why \in {"none", "mismatch"} : Unknown(k, why) \in TabRecords
  /\ \A k \in Keys, n \in Sends, why \in {"none", "first"} :
       [Idle EXCEPT !.ph = "submitting", !.k = k, !.n = n, !.why = why] \in TabRecords
BY DEF Idle, Unknown, TabRecords

LEMMA GoesShape ==
  ASSUME SInv, NEW t \in Tabs, NEW ph \in {"sealing", "status", "inbox"},
         tab[t].k \in Keys, Goes(t, ph)
  PROVE  tab' \in [Tabs -> TabRecords] /\ AtWork'
<1> DEFINE r == [tab[t] EXCEPT !.ph = ph]
<1>1. tab[t] \in TabRecords
  BY DEF SInv, Shapes
<1>2. tab' = [tab EXCEPT ![t] = r]
  BY DEF Goes
<1>3. r \in TabRecords /\ r.ph # "submitting" /\ r.k = tab[t].k
  BY <1>1 DEF TabRecords
<1> HIDE DEF r
<1> QED
  BY <1>2, <1>3 DEF SInv, Shapes, AtWork

LEMMA HoldsShape ==
  ASSUME SInv, NEW t \in Tabs, NEW k \in Keys, Holds(t, k, "none")
  PROVE  /\ pending' \in Keys \cup {NoKey}
         /\ tab' \in [Tabs -> TabRecords]
         /\ AtWork'
BY TabShapes DEF Holds, SInv, Shapes, AtWork, Unknown, Idle

LEMMA ConcludesShape ==
  ASSUME SInv, NEW t \in Tabs, NEW k \in Keys, NEW v \in Verdicts, Concludes(t, k, v)
  PROVE  /\ pending' \in Keys \cup {NoKey}
         /\ tab' \in [Tabs -> TabRecords]
         /\ told' \in [Keys -> SUBSET Verdicts]
         /\ AtWork'
<1>1. told' \in [Keys -> SUBSET Verdicts]
  BY DEF Concludes, SInv, Shapes
<1>2. pending' \in Keys \cup {NoKey}
  BY DEF Concludes, SInv, Shapes
<1>3. tab' \in [Tabs -> TabRecords] /\ AtWork'
  <2>1. PICK r \in {Idle, Unknown(k, "none")} : tab' = [tab EXCEPT ![t] = r]
    BY DEF Concludes
  <2>2. r \in TabRecords /\ r.k \in Keys \cup {NoKey} /\ r.ph \in {"idle", "unknown"}
        /\ (r.ph = "unknown" => r.k \in Keys)
    <3>1. /\ Idle \in TabRecords /\ Idle.ph = "idle" /\ Idle.k = NoKey
          /\ Unknown(k, "none") \in TabRecords /\ Unknown(k, "none").ph = "unknown"
          /\ Unknown(k, "none").k = k
      BY TabShapes DEF Unknown, Idle
    <3> QED
      BY <2>1, <3>1
  <2> QED
    BY <2>1, <2>2 DEF SInv, Shapes, AtWork
<1> QED
  BY <1>1, <1>2, <1>3

LEMMA RegisterShape == SInv /\ Register => SInv'
<1> SUFFICES ASSUME SInv, Register PROVE SInv'
  OBVIOUS
<1>1. UNCHANGED <<inbox, copy, sealing, browserVars>>
  BY DEF Register, AddLine, CheckRemoval, DeleteLine, EndRemoval, Finalize, Cancel,
         ListPayments, RefundDraft
<1>2. status' \in Statuses /\ pay' \in [Keys -> {"none", "succeeded", "reversed"}]
  BY DEF Register, AddLine, CheckRemoval, DeleteLine, EndRemoval, Finalize, Cancel,
         ListPayments, RefundDraft, SInv, Shapes, Statuses
<1> QED
  BY <1>1, <1>2 DEF SInv, Shapes, AtWork

LEMMA ServerShape ==
  ASSUME SInv, NEW k \in Keys, Server(k)
  PROVE  SInv'
<1>1. CASE \E n \in Sends : Begin(k, n) \/ Pay(k, n) \/ Refuse(k, n) \/ Lose(k, n)
  <2>1. PICK n \in Sends : Begin(k, n) \/ Pay(k, n) \/ Refuse(k, n) \/ Lose(k, n)
    BY <1>1
  <2>2. UNCHANGED <<invoiceVars, sealing, browserVars>>
    BY <2>1 DEF Begin, Pay, Refuse, Lose
  <2>3. copy' \in [Keys -> [Sends -> {"idle", "sent", "held", "yes", "no", "gone"}]]
    <3>1. PICK a \in {"held", "yes", "no", "gone"} : Answers(k, n, a)
      BY <2>1 DEF Begin, Pay, Refuse, Lose, SInv, Shapes
    <3> QED
      BY <3>1 DEF Answers, SInv, Shapes
  <2>4. /\ pay' \in [Keys -> {"none", "succeeded", "reversed"}]
        /\ inbox' \in [Keys -> {"none", "paid", "sealed"}]
    BY <2>1 DEF Begin, Pay, Refuse, Lose, SInv, Shapes
  <2> QED
    BY <2>2, <2>3, <2>4 DEF SInv, Shapes, AtWork
<1>2. CASE Seal(k) \/ SealFails(k)
  <2>1. inbox' \in [Keys -> {"none", "paid", "sealed"}]
    BY <1>2 DEF Seal, SealFails, SInv, Shapes
  <2>2. UNCHANGED <<invoiceVars, pay, copy, pending, told>> /\ sealing' \subseteq Keys
    BY <1>2 DEF Seal, SealFails, Sealed, SInv, Shapes
  <2>3. PICK ph \in {"status", "unknown"} :
          tab' = [t \in Tabs |-> IF tab[t].ph = "sealing" /\ tab[t].k = k
                                 THEN [tab[t] EXCEPT !.ph = ph] ELSE tab[t]]
    BY <1>2 DEF Seal, SealFails, Sealed
  <2>4. tab' \in [Tabs -> TabRecords] /\ AtWork'
    <3> DEFINE r(t) == [tab[t] EXCEPT !.ph = ph]
    <3>1. ASSUME NEW t \in Tabs
          PROVE  tab[t] \in TabRecords /\ r(t) \in TabRecords /\ r(t).ph = ph /\ r(t).k = tab[t].k
      <4>1. tab[t] \in TabRecords
        BY DEF SInv, Shapes
      <4> QED
        BY <4>1 DEF TabRecords
    <3>2. tab' = [t \in Tabs |-> IF tab[t].ph = "sealing" /\ tab[t].k = k THEN r(t) ELSE tab[t]]
      BY <2>3
    <3> HIDE DEF r
    <3>3. tab' \in [Tabs -> TabRecords]
      BY <3>1, <3>2
    <3>4. AtWork'
      BY <3>1, <3>2 DEF SInv, AtWork
    <3> QED
      BY <3>3, <3>4
  <2> QED
    BY <2>1, <2>2, <2>4 DEF SInv, Shapes
<1> QED
  BY <1>1, <1>2 DEF Server

LEMMA SubmitsShape ==
  ASSUME SInv, NEW t \in Tabs, NEW k \in Keys, NEW n \in Sends, NEW why \in {"none", "first"},
         Submits(t, k, n, why)
  PROVE  /\ copy' \in [Keys -> [Sends -> {"idle", "sent", "held", "yes", "no", "gone"}]]
         /\ tab' \in [Tabs -> TabRecords]
         /\ AtWork'
<1>1. copy' \in [Keys -> [Sends -> {"idle", "sent", "held", "yes", "no", "gone"}]]
  BY DEF Submits, Answers, SInv, Shapes
<1>2. tab' \in [Tabs -> TabRecords] /\ AtWork'
  BY TabShapes DEF Submits, SInv, Shapes, AtWork, Idle
<1> QED
  BY <1>1, <1>2

LEMMA TillShape ==
  ASSUME SInv, NEW t \in Tabs, Till(t)
  PROVE  SInv'
<1> DEFINE k == tab[t].k
<1>1. ASSUME NEW j \in Keys, TakePayment(t, j) PROVE SInv'
  <2>1. 1 \in Sends
    BY CheckoutConstants DEF Sends
  <2>2. CASE pending = NoKey
    <3>1. pending' = j /\ Submits(t, j, 1, "first")
      BY <1>1, <2>2 DEF TakePayment
    <3>2. UNCHANGED <<invoiceVars, moneyVars, sealing, listed, told>>
      BY <1>1 DEF TakePayment
    <3> QED
      BY <2>1, <3>1, <3>2, SubmitsShape DEF SInv, Shapes
  <2>3. CASE pending # NoKey
    <3>1. pending \in Keys
      BY <2>3 DEF SInv, Shapes
    <3>2. tab' = [tab EXCEPT ![t] = Unknown(pending, "none")]
          /\ UNCHANGED <<serverVars, pending, told>>
      BY <1>1, <2>3 DEF TakePayment
    <3>3. tab' \in [Tabs -> TabRecords] /\ AtWork'
      BY <3>1, <3>2, TabShapes DEF SInv, Shapes, AtWork, Unknown, Idle
    <3> QED
      BY <3>2, <3>3 DEF SInv, Shapes
  <2> QED
    BY <2>2, <2>3
<1>2. ASSUME Retry(t) PROVE SInv'
  <2>1. k \in Keys
    BY <1>2 DEF Retry, SInv, AtWork
  <2>2. PICK n \in Sends : Submits(t, k, n, "none")
    BY <1>2 DEF Retry
  <2>3. UNCHANGED <<invoiceVars, moneyVars, sealing, listed, pending, told>>
    BY <1>2 DEF Retry
  <2> QED
    BY <2>1, <2>2, <2>3, SubmitsShape DEF SInv, Shapes
<1>3. ASSUME GetAnswer(t) PROVE SInv'
  <2>1. k \in Keys
    BY <1>3 DEF GetAnswer, SInv, AtWork
  <2>2. \/ Concludes(t, k, "recorded") \/ Concludes(t, k, "refused")
        \/ Holds(t, k, "none") /\ UNCHANGED told
    BY <1>3 DEF GetAnswer, Refused
  <2>3. UNCHANGED serverVars
    BY <1>3 DEF GetAnswer
  <2> QED
    BY <2>1, <2>2, <2>3, HoldsShape, ConcludesShape DEF SInv, Shapes, Verdicts
<1>4. ASSUME Reload(t) PROVE SInv'
  <2>1. CASE pending = NoKey
    BY <1>4, <2>1, TabShapes DEF Reload, SInv, Shapes, AtWork, Idle
  <2>2. CASE pending # NoKey
    <3>1. pending \in Keys
      BY <2>2 DEF SInv, Shapes
    <3>2. [Unknown(pending, "none") EXCEPT !.ph = "status"] \in TabRecords
      BY <3>1 DEF Unknown, Idle, TabRecords
    <3>3. tab' \in [Tabs -> TabRecords] /\ AtWork'
      BY <1>4, <2>2, <3>1, <3>2, TabShapes DEF Reload, SInv, Shapes, AtWork, Unknown, Idle
    <3> QED
      BY <1>4, <3>3 DEF Reload, SInv, Shapes
  <2> QED
    BY <2>1, <2>2
<1>5. ASSUME Check(t) \/ Abandon(t) PROVE SInv'
  <2>1. k \in Keys /\ tab[t] \in TabRecords
    BY <1>5 DEF Check, Abandon, SInv, AtWork, Shapes
  <2>2. Goes(t, "status") \/ Goes(t, "sealing")
    BY <1>5 DEF Check, Abandon
  <2>3. tab' \in [Tabs -> TabRecords] /\ AtWork'
    BY <2>1, <2>2, GoesShape
  <2> QED
    BY <1>5, <2>1, <2>3 DEF Check, Abandon, SInv, Shapes
<1>6. ASSUME ReadStatus(t) PROVE SInv'
  <2>1. k \in Keys /\ tab[t] \in TabRecords /\ status \in Statuses
    BY <1>6 DEF ReadStatus, SInv, AtWork, Shapes
  <2> DEFINE r == [tab[t] EXCEPT !.ph = "payment", !.seen = status]
  <2>2. r \in TabRecords /\ r.ph = "payment" /\ r.k = k
    BY <2>1 DEF TabRecords
  <2>3. tab' = [tab EXCEPT ![t] = r]
    BY <1>6 DEF ReadStatus
  <2> HIDE DEF r
  <2>4. tab' \in [Tabs -> TabRecords] /\ AtWork'
    BY <2>1, <2>2, <2>3 DEF SInv, Shapes, AtWork
  <2> QED
    BY <1>6, <2>4 DEF ReadStatus, SInv, Shapes
<1>7. ASSUME ReadPayment(t) PROVE SInv'
  <2>1. k \in Keys /\ pay[k] \in {"none", "succeeded", "reversed"}
    BY <1>7 DEF ReadPayment, SInv, AtWork, Shapes
  <2>2. \/ Concludes(t, k, "recorded")
        \/ tab' = [tab EXCEPT ![t] = Unknown(k, "mismatch")] /\ UNCHANGED <<pending, told>>
        \/ Goes(t, "inbox") /\ UNCHANGED <<pending, told>>
    BY <1>7, <2>1 DEF ReadPayment
  <2>3. UNCHANGED serverVars
    BY <1>7 DEF ReadPayment
  <2>4. CASE Concludes(t, k, "recorded")
    BY <2>1, <2>3, <2>4, ConcludesShape DEF SInv, Shapes, Verdicts
  <2>5. CASE tab' = [tab EXCEPT ![t] = Unknown(k, "mismatch")] /\ UNCHANGED <<pending, told>>
    BY <2>1, <2>3, <2>5, TabShapes DEF SInv, Shapes, AtWork, Unknown, Idle
  <2>6. CASE Goes(t, "inbox") /\ UNCHANGED <<pending, told>>
    BY <2>1, <2>3, <2>6, GoesShape DEF SInv, Shapes
  <2> QED
    BY <2>2, <2>4, <2>5, <2>6
<1>8. ASSUME ReadInbox(t) PROVE SInv'
  <2>1. k \in Keys /\ tab[t] \in TabRecords /\ tab[t].ph = "inbox"
    BY <1>8 DEF ReadInbox, SInv, AtWork, Shapes
  <2>2. \/ Concludes(t, k, "sealed") \/ Concludes(t, k, "conflict") \/ Concludes(t, k, "closed")
        \/ tab' = [tab EXCEPT ![t] = Unknown(k, tab[t].why)] /\ UNCHANGED <<pending, told>>
    BY <1>8 DEF ReadInbox
  <2>3. UNCHANGED serverVars
    BY <1>8 DEF ReadInbox
  <2>4. CASE \E v \in Verdicts : Concludes(t, k, v)
    BY <2>1, <2>3, <2>4, ConcludesShape DEF SInv, Shapes
  <2>5. CASE tab' = [tab EXCEPT ![t] = Unknown(k, tab[t].why)] /\ UNCHANGED <<pending, told>>
    BY <2>1, <2>3, <2>5 DEF SInv, Shapes, AtWork, Unknown, Idle, TabRecords
  <2> QED
    BY <2>2, <2>4, <2>5 DEF Verdicts
<1>9. ASSUME CheckFails(t) PROVE SInv'
  <2>1. k \in Keys /\ tab[t] \in TabRecords
    BY <1>9 DEF CheckFails, SInv, AtWork, Shapes
  <2> QED
    BY <1>9, <2>1 DEF CheckFails, SInv, Shapes, AtWork, Unknown, Idle, TabRecords
<1> QED
  BY <1>1, <1>2, <1>3, <1>4, <1>5, <1>6, <1>7, <1>8, <1>9 DEF Till

LEMMA SInvHolds == Spec => []SInv
<1>1. ASSUME SInv, UNCHANGED vars PROVE SInv'
  BY <1>1 DEF vars, SInv, Shapes, AtWork
<1>2. SInv /\ [Next]_vars => SInv'
  BY <1>1, RegisterShape, ServerShape, TillShape DEF Next
<1> QED
  BY InitSInv, <1>2, PTL DEF Spec

-----------------------------------------------------------------------------
(* What the fate of an intent rests on.                                     *)

\* A payment and its inbox row are written by one transaction, which holds the
\* key alone; an answer "yes" is given of a payment that is there.
OneTransaction ==
  \A k \in Keys :
    /\ inbox[k] = "paid" <=> pay[k] # "none"
    /\ \A n \in Sends :
         /\ copy[k][n] = "yes" => pay[k] # "none"
         /\ copy[k][n] = "held" =>
              inbox[k] = "none" /\ \A m \in Sends : copy[k][m] = "held" => m = n
\* An invoice a tab saw closed is closed.
ReadsHold ==
  \A t \in Tabs : tab[t].ph \in {"payment", "inbox"} /\ tab[t].seen # "draft" => status # "draft"
\* What the cashier was told is the fate.
ToldTrue ==
  \A k \in Keys :
    /\ "recorded" \in told[k] => Fate(k) = "recorded"
    /\ told[k] \cap {"sealed", "closed"} # {} => Fate(k) = "never"
RInv == SInv /\ OneTransaction /\ ReadsHold /\ ToldTrue

LEMMA InitRInv == Init => RInv
BY InitSInv DEF Init, RInv, OneTransaction, ReadsHold, ToldTrue, Idle, Sends

LEMMA OneTransactionRegister ==
  RInv /\ Register => OneTransaction' /\ UNCHANGED <<inbox, copy, tab, told>>
                      /\ (\A k \in Keys : pay'[k] = "none" <=> pay[k] = "none")
                      /\ (status # "draft" => UNCHANGED <<status, pay>>)
<1> SUFFICES ASSUME RInv, Register
             PROVE  OneTransaction' /\ UNCHANGED <<inbox, copy, tab, told>>
                      /\ (\A k \in Keys : pay'[k] = "none" <=> pay[k] = "none")
                      /\ (status # "draft" => UNCHANGED <<status, pay>>)
  OBVIOUS
<1>1. UNCHANGED <<inbox, copy, tab, told>>
  BY DEF Register, AddLine, CheckRemoval, DeleteLine, EndRemoval, Finalize, Cancel,
         ListPayments, RefundDraft
<1>2. status # "draft" => UNCHANGED <<status, pay>>
  BY DEF Register, AddLine, CheckRemoval, DeleteLine, EndRemoval, Finalize, Cancel,
         ListPayments, RefundDraft
<1>3. ASSUME NEW k \in Keys PROVE pay'[k] = "none" <=> pay[k] = "none"
  <2>1. CASE RefundDraft
    BY <2>1 DEF RefundDraft, Live
  <2>2. CASE ~RefundDraft
    <3>1. pay' = pay
      BY <2>2 DEF Register, AddLine, CheckRemoval, DeleteLine, EndRemoval, Finalize,
                  Cancel, ListPayments
    <3> QED
      BY <3>1
  <2> QED
    BY <2>1, <2>2
<1> QED
  BY <1>1, <1>2, <1>3 DEF RInv, OneTransaction

LEMMA OneTransactionServer ==
  ASSUME RInv, NEW k \in Keys, Server(k)
  PROVE  /\ OneTransaction' /\ UNCHANGED <<status, told>>
         /\ \A j \in Keys : pay[j] # "none" => pay'[j] # "none"
         /\ \A j \in Keys : inbox[j] = "sealed" => inbox'[j] = "sealed" /\ pay'[j] = pay[j]
         /\ status # "draft" => UNCHANGED pay
<1>1. CASE \E n \in Sends : Begin(k, n) \/ Refuse(k, n) \/ Lose(k, n)
  <2>1. PICK n \in Sends : Begin(k, n) \/ Refuse(k, n) \/ Lose(k, n)
    BY <1>1
  <2>2. UNCHANGED <<status, told, pay, inbox>>
    BY <2>1 DEF Begin, Refuse, Lose
  <2>3. PICK a \in {"held", "yes", "no", "gone"} :
          /\ Answers(k, n, a)
          /\ a = "yes" => inbox[k] = "paid"
          /\ a = "held" => inbox[k] = "none" /\ ~Held(k)
    BY <2>1 DEF Begin, Refuse, Lose, RInv, SInv, Shapes
  <2>4. OneTransaction'
    BY <2>2, <2>3 DEF Answers, Held, RInv, SInv, Shapes, OneTransaction
  <2> QED
    BY <2>2, <2>4
<1>2. CASE \E n \in Sends : Pay(k, n)
  <2>1. PICK n \in Sends : Pay(k, n)
    BY <1>2
  <2>2. /\ UNCHANGED <<status, told>> /\ status = "draft" /\ inbox[k] = "none"
        /\ pay' = [pay EXCEPT ![k] = "succeeded"]
        /\ inbox' = [inbox EXCEPT ![k] = "paid"]
        /\ copy' = [copy EXCEPT ![k][n] = "yes"]
    BY <2>1 DEF Pay, Accepts, Answers, RInv, OneTransaction
  <2>3. \A m \in Sends : copy'[k][m] # "held"
    BY <2>1, <2>2 DEF Pay, RInv, OneTransaction, SInv, Shapes
  <2>4. \A j \in Keys : j # k => copy'[j] = copy[j] /\ pay'[j] = pay[j] /\ inbox'[j] = inbox[j]
    BY <2>2 DEF RInv, SInv, Shapes
  <2>5. pay'[k] = "succeeded" /\ inbox'[k] = "paid"
    BY <2>2 DEF RInv, SInv, Shapes
  <2>6. OneTransaction'
    BY <2>3, <2>4, <2>5 DEF RInv, OneTransaction
  <2> QED
    BY <2>2, <2>4, <2>5, <2>6
<1>3. CASE Seal(k) \/ SealFails(k)
  <2>1. UNCHANGED <<status, told, pay, copy>>
    BY <1>3 DEF Seal, SealFails, Sealed
  <2>2. \/ UNCHANGED inbox
        \/ ~Held(k) /\ inbox' = [inbox EXCEPT ![k] = IF @ = "none" THEN "sealed" ELSE @]
    BY <1>3 DEF Seal, SealFails
  <2>3. OneTransaction' /\ \A j \in Keys : inbox[j] = "sealed" => inbox'[j] = "sealed"
    BY <2>1, <2>2 DEF Held, RInv, SInv, Shapes, OneTransaction
  <2> QED
    BY <2>1, <2>3
<1> QED
  BY <1>1, <1>2, <1>3 DEF Server

\* A fate that is settled stays what it is.
Settled == \A k \in Keys : Fate(k) # "open" => Fate(k)' = Fate(k)

LEMMA RegisterSettles == RInv /\ Register => Settled
BY OneTransactionRegister DEF Settled, Fate

LEMMA ServerSettles ==
  ASSUME RInv, NEW k \in Keys, Server(k) PROVE Settled
BY OneTransactionServer DEF Settled, Fate

LEMMA TillOneTransaction ==
  ASSUME RInv, NEW t \in Tabs, Till(t)
  PROVE  UNCHANGED <<status, pay, inbox>> /\ OneTransaction'
<1>1. UNCHANGED <<status, pay, inbox>>
  BY DEF Till, TakePayment, Retry, GetAnswer, Reload, Check, Abandon, ReadStatus,
         ReadPayment, ReadInbox, CheckFails
<1>2. UNCHANGED copy \/ \E k \in Keys, n \in Sends : Answers(k, n, "sent")
  <2>1. ASSUME NEW k \in Keys, TakePayment(t, k)
        PROVE  UNCHANGED copy \/ Answers(k, 1, "sent")
    BY <2>1 DEF TakePayment, Submits
  <2>2. Retry(t) => \E k \in Keys, n \in Sends : Answers(k, n, "sent")
    BY DEF Retry, Submits, RInv, SInv, AtWork
  <2>3. 1 \in Sends
    BY CheckoutConstants DEF Sends
  <2> QED
    BY <2>1, <2>2, <2>3 DEF Till, GetAnswer, Reload, Check, Abandon, ReadStatus,
       ReadPayment, ReadInbox, CheckFails
<1>3. CASE UNCHANGED copy
  BY <1>1, <1>3 DEF RInv, OneTransaction
<1>4. ASSUME NEW k \in Keys, NEW n \in Sends, Answers(k, n, "sent") PROVE OneTransaction'
  <2>1. \A j \in Keys, m \in Sends :
          copy'[j][m] = copy[j][m] \/ copy'[j][m] = "sent"
    BY <1>4 DEF Answers, RInv, SInv, Shapes
  <2> QED
    BY <1>1, <2>1 DEF RInv, OneTransaction
<1> QED
  BY <1>1, <1>2, <1>3, <1>4

\* A verdict is told of one payment, and "recorded", "sealed" and "closed" only
\* when that is its fate.
Tells(k, v) ==
  /\ told' = [told EXCEPT ![k] = @ \cup {v}]
  /\ v = "recorded" => Fate(k) = "recorded"
  /\ v \in {"sealed", "closed"} => Fate(k) = "never"

LEMMA TillTells ==
  ASSUME RInv, NEW t \in Tabs, Till(t)
  PROVE  UNCHANGED told \/ \E k \in Keys, v \in Verdicts : Tells(k, v)
<1> DEFINE k == tab[t].k
<1>1. CASE GetAnswer(t)
  <2>1. k \in Keys /\ tab[t].n \in Sends
    BY <1>1 DEF GetAnswer, RInv, SInv, AtWork
  <2>2. copy[k][tab[t].n] = "yes" => Fate(k) = "recorded"
    BY <2>1 DEF RInv, OneTransaction, Fate
  <2>3. UNCHANGED told \/ Tells(k, "recorded") \/ Tells(k, "refused")
    BY <1>1, <2>2 DEF GetAnswer, Refused, Concludes, Tells
  <2> QED
    BY <2>1, <2>3 DEF Verdicts
<1>2. CASE ReadPayment(t)
  <2>1. k \in Keys /\ pay[k] \in {"none", "succeeded", "reversed"}
    BY <1>2 DEF ReadPayment, RInv, SInv, Shapes, AtWork
  <2>2. UNCHANGED told \/ Tells(k, "recorded")
    BY <1>2, <2>1 DEF ReadPayment, Concludes, Tells, Fate
  <2> QED
    BY <2>1, <2>2 DEF Verdicts
<1>3. CASE ReadInbox(t)
  <2>1. k \in Keys /\ inbox[k] \in {"none", "paid", "sealed"}
    BY <1>3 DEF ReadInbox, RInv, SInv, Shapes, AtWork
  <2>2. inbox[k] # "paid" => pay[k] = "none"
    BY <2>1 DEF RInv, OneTransaction
  <2>3. tab[t].seen # "draft" => status # "draft"
    BY <1>3 DEF ReadInbox, RInv, ReadsHold
  <2>4. \/ UNCHANGED told
        \/ Tells(k, "sealed") \/ Tells(k, "conflict") \/ Tells(k, "closed")
    BY <1>3, <2>1, <2>2, <2>3 DEF ReadInbox, Concludes, Tells, Fate
  <2> QED
    BY <2>1, <2>4 DEF Verdicts
<1>4. CASE ~GetAnswer(t) /\ ~ReadPayment(t) /\ ~ReadInbox(t)
  BY <1>4 DEF Till, TakePayment, Retry, Reload, Check, Abandon, ReadStatus, CheckFails
<1> QED
  BY <1>1, <1>2, <1>3, <1>4

\* Where a tab goes: "payment" is reached with the status just read, and "inbox"
\* with the one it had read.
Goal(t, r) ==
  /\ tab' = [tab EXCEPT ![t] = r]
  /\ r.ph = "payment" => r.seen = status
  /\ r.ph = "inbox" => tab[t].ph = "payment" /\ r.seen = tab[t].seen

LEMMA TillMoves ==
  ASSUME RInv, NEW t \in Tabs, Till(t) PROVE \E r : Goal(t, r)
<1> DEFINE k == tab[t].k
<1>1. Idle.ph = "idle" /\ \A j, why : Unknown(j, why).ph = "unknown"
  BY DEF Idle, Unknown
<1>2. ASSUME NEW ph \in {"status", "sealing"}, Goes(t, ph) PROVE \E r : Goal(t, r)
  <2> DEFINE r == [tab[t] EXCEPT !.ph = ph]
  <2>1. tab' = [tab EXCEPT ![t] = r] /\ r.ph = ph
    BY <1>2 DEF Goes, RInv, SInv, Shapes, TabRecords
  <2> HIDE DEF r
  <2> QED
    BY <2>1 DEF Goal
<1>3. ASSUME NEW j, NEW why, tab' = [tab EXCEPT ![t] = Unknown(j, why)]
      PROVE  \E r : Goal(t, r)
  BY <1>1, <1>3 DEF Goal
<1>4. ASSUME NEW j, NEW v, Concludes(t, j, v) PROVE \E r : Goal(t, r)
  <2>1. CASE Ours(j)
    BY <1>1, <1>4, <2>1 DEF Concludes, Goal
  <2>2. CASE ~Ours(j)
    <3>1. tab' = [tab EXCEPT ![t] = Unknown(j, "none")]
      BY <1>4, <2>2 DEF Concludes
    <3> QED
      BY <3>1, <1>3
  <2> QED
    BY <2>1, <2>2
<1>5. ASSUME NEW j, NEW n, NEW why, Submits(t, j, n, why) PROVE \E r : Goal(t, r)
  <2> DEFINE r == [Idle EXCEPT !.ph = "submitting", !.k = j, !.n = n, !.why = why]
  <2>1. tab' = [tab EXCEPT ![t] = r] /\ r.ph = "submitting"
    BY <1>5 DEF Submits, Idle
  <2> HIDE DEF r
  <2> QED
    BY <2>1 DEF Goal
<1>6. ASSUME NEW j \in Keys, TakePayment(t, j) PROVE \E r : Goal(t, r)
  <2>1. Submits(t, j, 1, "first") \/ tab' = [tab EXCEPT ![t] = Unknown(pending, "none")]
    BY <1>6 DEF TakePayment
  <2> QED
    BY <2>1, <1>3, <1>5
<1>7. CASE Retry(t)
  <2>1. \E n \in Sends : Submits(t, k, n, "none")
    BY <1>7 DEF Retry
  <2> QED
    BY <2>1, <1>5
<1>8. CASE GetAnswer(t)
  <2>1. (\E v : Concludes(t, k, v)) \/ tab' = [tab EXCEPT ![t] = Unknown(k, "none")]
    BY <1>8 DEF GetAnswer, Refused, Holds
  <2> QED
    BY <2>1, <1>3, <1>4
<1>9. CASE Reload(t)
  <2> DEFINE r == [Unknown(pending, "none") EXCEPT !.ph = "status"]
  <2>1. r.ph = "status"
    BY DEF Unknown, Idle
  <2> HIDE DEF r
  <2>2. \/ tab' = [tab EXCEPT ![t] = Idle] \/ tab' = [tab EXCEPT ![t] = r]
        \/ tab' = [tab EXCEPT ![t] = Unknown(pending, "none")]
    BY <1>9 DEF Reload, r
  <2> QED
    BY <2>1, <2>2, <1>1 DEF Goal
<1>10. CASE Check(t) \/ Abandon(t)
  <2>1. Goes(t, "status") \/ Goes(t, "sealing")
    BY <1>10 DEF Check, Abandon
  <2> QED
    BY <2>1, <1>2
<1>11. CASE ReadStatus(t)
  <2> DEFINE r == [tab[t] EXCEPT !.ph = "payment", !.seen = status]
  <2>1. tab' = [tab EXCEPT ![t] = r] /\ r.ph = "payment" /\ r.seen = status
    BY <1>11 DEF ReadStatus, RInv, SInv, Shapes, TabRecords
  <2> HIDE DEF r
  <2> QED
    BY <2>1 DEF Goal
<1>12. CASE ReadPayment(t)
  <2> DEFINE r == [tab[t] EXCEPT !.ph = "inbox"]
  <2>1. r.ph = "inbox" /\ r.seen = tab[t].seen
    BY DEF RInv, SInv, Shapes, TabRecords
  <2>2. Goes(t, "inbox") => tab' = [tab EXCEPT ![t] = r]
    BY DEF Goes
  <2> HIDE DEF r
  <2>3. k \in Keys /\ pay[k] \in {"none", "succeeded", "reversed"} /\ tab[t].ph = "payment"
    BY <1>12 DEF ReadPayment, RInv, SInv, Shapes, AtWork
  <2>4. \/ Concludes(t, k, "recorded")
        \/ tab' = [tab EXCEPT ![t] = Unknown(k, "mismatch")] \/ Goes(t, "inbox")
    BY <1>12, <2>3 DEF ReadPayment
  <2> QED
    BY <2>1, <2>2, <2>3, <2>4, <1>3, <1>4 DEF Goal
<1>13. CASE ReadInbox(t)
  <2>1. (\E v : Concludes(t, k, v)) \/ tab' = [tab EXCEPT ![t] = Unknown(k, tab[t].why)]
    BY <1>13 DEF ReadInbox
  <2> QED
    BY <2>1, <1>3, <1>4
<1>14. CASE CheckFails(t)
  BY <1>14, <1>3 DEF CheckFails
<1> QED
  BY <1>6, <1>7, <1>8, <1>9, <1>10, <1>11, <1>12, <1>13, <1>14 DEF Till

LEMMA TillReadsHold ==
  ASSUME RInv, NEW t \in Tabs, Till(t) PROVE ReadsHold'
<1>1. UNCHANGED status
  BY TillOneTransaction
<1>2. PICK r : Goal(t, r)
  BY TillMoves
<1>3. tab'[t] = r /\ \A u \in Tabs : u # t => tab'[u] = tab[u]
  BY <1>2 DEF Goal, RInv, SInv, Shapes
<1>4. tab'[t].ph \in {"payment", "inbox"} /\ tab'[t].seen # "draft" => status # "draft"
  BY <1>2, <1>3 DEF Goal, RInv, ReadsHold
<1> QED
  BY <1>1, <1>3, <1>4 DEF RInv, ReadsHold

LEMMA ServerReadsHold ==
  ASSUME RInv, NEW k \in Keys, Server(k) PROVE ReadsHold'
<1>1. UNCHANGED status
  BY OneTransactionServer
<1>2. ASSUME NEW t \in Tabs
      PROVE  tab'[t] = tab[t] \/ tab'[t].ph \in {"status", "unknown"}
  <2>1. CASE Seal(k) \/ SealFails(k)
    <3>1. PICK ph \in {"status", "unknown"} :
            tab' = [u \in Tabs |-> IF tab[u].ph = "sealing" /\ tab[u].k = k
                                   THEN [tab[u] EXCEPT !.ph = ph] ELSE tab[u]]
      BY <2>1 DEF Seal, SealFails, Sealed
    <3> QED
      BY <3>1 DEF RInv, SInv, Shapes, TabRecords
  <2>2. CASE ~(Seal(k) \/ SealFails(k))
    BY <2>2 DEF Server, Begin, Pay, Refuse, Lose
  <2> QED
    BY <2>1, <2>2
<1> QED
  BY <1>1, <1>2 DEF RInv, ReadsHold

LEMMA RegisterReadsHold == RInv /\ Register => ReadsHold'
BY OneTransactionRegister DEF RInv, ReadsHold

\* What was told stays true, because a settled fate stays.
LEMMA TruthStays ==
  ASSUME RInv, Settled, UNCHANGED told PROVE ToldTrue'
<1>1. ASSUME NEW k \in Keys PROVE Fate(k) # "open" => Fate(k)' = Fate(k)
  BY DEF Settled
<1> QED
  BY <1>1 DEF RInv, ToldTrue

LEMMA TillTruth ==
  ASSUME RInv, NEW t \in Tabs, Till(t)
  PROVE  ToldTrue' /\ \A k \in Keys : Fate(k)' = Fate(k)
<1>1. \A k \in Keys : Fate(k)' = Fate(k)
  BY TillOneTransaction DEF Fate
<1>2. CASE UNCHANGED told
  BY <1>1, <1>2 DEF RInv, ToldTrue
<1>3. ASSUME NEW k \in Keys, NEW v \in Verdicts, Tells(k, v) PROVE ToldTrue'
  <2>1. \A j \in Keys : told'[j] = IF j = k THEN told[k] \cup {v} ELSE told[j]
    BY <1>3 DEF Tells, RInv, SInv, Shapes
  <2>2. /\ v = "recorded" => Fate(k) = "recorded"
        /\ v \in {"sealed", "closed"} => Fate(k) = "never"
    BY <1>3 DEF Tells
  <2>3. ASSUME NEW j \in Keys
        PROVE  /\ "recorded" \in told'[j] => Fate(j) = "recorded"
               /\ told'[j] \cap {"sealed", "closed"} # {} => Fate(j) = "never"
    BY <2>1, <2>2 DEF RInv, ToldTrue
  <2> QED
    BY <1>1, <2>3 DEF ToldTrue
<1> QED
  BY <1>1, <1>2, <1>3, TillTells

LEMMA RInvStep == RInv /\ [Next]_vars => RInv'
<1> SUFFICES ASSUME RInv, [Next]_vars PROVE RInv'
  OBVIOUS
<1>1. CASE Register
  <2>1. Settled /\ UNCHANGED told
    BY <1>1, RegisterSettles, OneTransactionRegister
  <2> QED
    BY <1>1, <2>1, RegisterShape, OneTransactionRegister, RegisterReadsHold, TruthStays DEF RInv
<1>2. ASSUME NEW k \in Keys, Server(k) PROVE RInv'
  <2>1. Settled /\ UNCHANGED told
    BY <1>2, ServerSettles, OneTransactionServer
  <2> QED
    BY <1>2, <2>1, ServerShape, OneTransactionServer, ServerReadsHold, TruthStays DEF RInv
<1>3. ASSUME NEW t \in Tabs, Till(t) PROVE RInv'
  BY <1>3, TillShape, TillOneTransaction, TillReadsHold, TillTruth DEF RInv
<1>4. CASE UNCHANGED vars
  <2>1. \A k \in Keys : Fate(k)' = Fate(k)
    BY <1>4 DEF vars, Fate
  <2> QED
    BY <1>4, <2>1 DEF vars, RInv, SInv, Shapes, AtWork, OneTransaction, ReadsHold, ToldTrue
<1> QED
  BY <1>1, <1>2, <1>3, <1>4 DEF Next

LEMMA RInvHolds == Spec => []RInv
BY InitRInv, RInvStep, PTL DEF Spec

-----------------------------------------------------------------------------
\* No step changes a fate that was settled, and what a step tells the cashier
\* is a fate.
LEMMA StepKeepsPromise ==
  RInv /\ [Next]_vars => [Promise!Next]_<<[k \in Keys |-> Fate(k)], [k \in Keys |-> Heard(k)]>>
<1> DEFINE fate == [k \in Keys |-> Fate(k)]
           heard == [k \in Keys |-> Heard(k)]
<1> SUFFICES ASSUME RInv, [Next]_vars PROVE [Promise!Next]_<<fate, heard>>
  OBVIOUS
<1>1. ASSUME UNCHANGED told, \A k \in Keys : Fate(k) # "open" => Fate(k)' = Fate(k)
      PROVE  Promise!Next
  <2>1. heard' = heard
    BY <1>1 DEF Heard
  <2>2. fate' \in [Keys -> Promise!Fates]
    BY DEF Fate, Promise!Fates
  <2>3. \A k \in Keys : fate[k] # "open" => fate'[k] = fate[k]
    BY <1>1
  <2> QED
    BY <2>1, <2>2, <2>3 DEF Promise!Next, Promise!Settle
<1>2. CASE Register
  BY <1>1, <1>2, RegisterSettles, OneTransactionRegister DEF Settled
<1>3. ASSUME NEW k \in Keys, Server(k) PROVE Promise!Next
  BY <1>1, <1>3, ServerSettles, OneTransactionServer DEF Settled
<1>4. ASSUME NEW t \in Tabs, Till(t) PROVE [Promise!Next]_<<fate, heard>>
  <2>1. \A k \in Keys : Fate(k)' = Fate(k)
    BY <1>4, TillTruth
  <2>2. CASE UNCHANGED told
    BY <1>1, <2>1, <2>2
  <2>3. ASSUME NEW k \in Keys, NEW v \in Verdicts, Tells(k, v)
        PROVE  [Promise!Next]_<<fate, heard>>
    <3>1. fate' = fate
      BY <2>1
    <3>2. \A j \in Keys : told'[j] = IF j = k THEN told[k] \cup {v} ELSE told[j]
      BY <2>3 DEF Tells, RInv, SInv, Shapes
    <3>3. \A j \in Keys \ {k} : Heard(j)' = Heard(j)
      BY <3>2 DEF Heard
    <3>4. CASE v \in {"refused", "conflict"}
      <4>1. Heard(k)' = Heard(k)
        BY <3>2, <3>4 DEF Heard
      <4> QED
        BY <3>1, <3>3, <4>1
    <3>5. CASE v \in {"recorded", "sealed", "closed"}
      <4>1. Fate(k) = IF v = "recorded" THEN "recorded" ELSE "never"
        BY <2>3, <3>5 DEF Tells
      <4>2. v # "recorded" => "recorded" \notin told[k]
        BY <4>1 DEF RInv, ToldTrue
      <4>3. Heard(k)' = Fate(k)
        BY <3>2, <3>5, <4>1, <4>2 DEF Heard
      <4>4. heard' = [heard EXCEPT ![k] = fate[k]]
        BY <3>3, <4>3
      <4> QED
        BY <3>1, <4>1, <4>4 DEF Promise!Next, Promise!Tell
    <3> QED
      BY <3>4, <3>5 DEF Verdicts
  <2> QED
    BY <1>4, <2>2, <2>3, TillTells
<1>5. CASE UNCHANGED vars
  <2>1. fate' = fate /\ heard' = heard
    BY <1>5 DEF vars, Fate, Heard
  <2> QED
    BY <2>1
<1> QED
  BY <1>2, <1>3, <1>4, <1>5 DEF Next

\* For any number of tabs, payments and copies, the fate of an intent is settled
\* once, and a verdict "recorded", "sealed" or "closed" is its fate: paymentIntent
\* and abandonPaymentIntent (invoice.ts:1255-1310) against runOnce.
THEOREM VerdictsKept == Spec => VerdictsArePromised
<1>1. Init => Promise!Init
  BY DEF Init, Promise!Init, Fate, Heard
<1> QED
  BY <1>1, RInvHolds, StepKeepsPromise, PTL DEF Spec, VerdictsArePromised, Promise!Spec

-----------------------------------------------------------------------------
(* The invoice itself.                                                      *)

\* Outside the steps of the invoice nothing of it changes, and no payment is
\* recorded unless it is a draft.
LEMMA OthersLeaveInvoice ==
  RInv /\ [Next]_vars /\ ~Register =>
    UNCHANGED invoiceVars /\ (status # "draft" => UNCHANGED pay)
<1> SUFFICES ASSUME RInv, [Next]_vars, ~Register
             PROVE  UNCHANGED invoiceVars /\ (status # "draft" => UNCHANGED pay)
  OBVIOUS
<1>1. ASSUME NEW k \in Keys, Server(k) PROVE UNCHANGED invoiceVars
  BY <1>1 DEF Server, Begin, Pay, Refuse, Lose, Seal, SealFails, Sealed
<1>2. ASSUME NEW t \in Tabs, Till(t) PROVE UNCHANGED invoiceVars
  BY <1>2 DEF Till, TakePayment, Retry, GetAnswer, Reload, Check, Abandon, ReadStatus,
     ReadPayment, ReadInbox, CheckFails
<1>3. CASE UNCHANGED vars
  BY <1>3 DEF vars
<1> QED
  BY <1>1, <1>2, <1>3, OneTransactionServer, TillOneTransaction DEF Next

\* A cancelled invoice keeps nobody's money, whatever payment raced the
\* cancellation (cancelInvoice and refundDraftPayments, invoice.ts:1148-1214).
THEOREM NoMoneyKept == Spec => []NoMoneyOnCancelled
<1>1. Init => NoMoneyOnCancelled
  BY DEF Init, NoMoneyOnCancelled
<1>2. NoMoneyOnCancelled /\ RInv /\ [Next]_vars => NoMoneyOnCancelled'
  <2> SUFFICES ASSUME NoMoneyOnCancelled, RInv, [Next]_vars PROVE NoMoneyOnCancelled'
    OBVIOUS
  <2>1. CASE Register
    <3>1. CASE RefundDraft
      BY <3>1 DEF RefundDraft, NoMoneyOnCancelled, Live
    <3>2. CASE Cancel
      BY <3>2 DEF Cancel, NoMoneyOnCancelled, Live
    <3>3. CASE ~RefundDraft /\ ~Cancel
      BY <2>1, <3>3 DEF Register, AddLine, CheckRemoval, DeleteLine, EndRemoval, Finalize,
         ListPayments, NoMoneyOnCancelled, Live
    <3> QED
      BY <3>1, <3>2, <3>3
  <2>2. CASE ~Register
    BY <2>2, OthersLeaveInvoice DEF NoMoneyOnCancelled, Live
  <2> QED
    BY <2>1, <2>2
<1> QED
  BY <1>1, <1>2, RInvHolds, PTL DEF Spec

\* No line is being deleted from a finalized invoice.
Undisturbed == status = "finalized" => removal # "deleted"

\* What finalization wrote stays what the lines and the payments say, although
\* removeLine looked at the status before (096_credit_sale_toggle.sql:89-202,
\* 015_pos_api.sql:155-200).
THEOREM SettlementKept == Spec => []SettlementStands
<1> DEFINE FInv == Undisturbed /\ SettlementStands
<1>1. Init => FInv
  BY DEF Init, Undisturbed, SettlementStands
<1>2. FInv /\ RInv /\ [Next]_vars => FInv'
  <2> SUFFICES ASSUME FInv, RInv, [Next]_vars PROVE FInv'
    OBVIOUS
  <2>1. CASE Finalize
    <3>1. Live' = Live
      BY <2>1 DEF Finalize, Live
    <3>2. /\ status' = "finalized" /\ lines' = lines /\ removal' = removal /\ removal # "deleted"
          /\ charged' = lines /\ change' = Change /\ booked' = Total(Live) - Change
      BY <2>1 DEF Finalize
    <3>3. Total(Live)' = Total(Live)
      BY <3>1
    <3> QED
      BY <3>2, <3>3 DEF Undisturbed, SettlementStands
  <2>2. CASE Register /\ ~Finalize /\ status' = "finalized"
    <3>1. UNCHANGED <<status, lines, charged, booked, change, pay>>
      BY <2>2 DEF Register, AddLine, CheckRemoval, DeleteLine, EndRemoval, Cancel,
         ListPayments, RefundDraft, Undisturbed
    <3>2. removal' # "deleted"
      BY <2>2 DEF Register, AddLine, CheckRemoval, DeleteLine, EndRemoval, Cancel,
         ListPayments, RefundDraft, Undisturbed
    <3>3. Total(Live)' = Total(Live)
      BY <3>1 DEF Live
    <3> QED
      BY <3>1, <3>2, <3>3 DEF Undisturbed, SettlementStands
  <2>3. CASE ~Register /\ status' = "finalized"
    <3>1. UNCHANGED invoiceVars /\ UNCHANGED pay
      BY <2>3, OthersLeaveInvoice
    <3>2. Total(Live)' = Total(Live)
      BY <3>1 DEF Live
    <3> QED
      BY <3>1, <3>2 DEF Undisturbed, SettlementStands
  <2>4. CASE status' # "finalized"
    BY <2>4 DEF Undisturbed, SettlementStands
  <2> QED
    BY <2>1, <2>2, <2>3, <2>4
<1>3. FInv => SettlementStands
  OBVIOUS
<1> QED
  BY <1>1, <1>2, <1>3, RInvHolds, PTL DEF Spec

-----------------------------------------------------------------------------
(* Lines and amounts.                                                       *)

\* A line that is being removed is there.
Counts ==
  /\ lines \in 0..MaxLines
  /\ removal \in {"no", "checked", "deleted"}
  /\ removal # "no" => lines > 0
  /\ charged \in Nat /\ booked \in Nat /\ change \in Nat
  /\ listed \subseteq Keys

LEMMA TotalNat == Total(Live) \in Nat
<1>1. IsFiniteSet(Live)
  BY CheckoutConstants, FS_Subset DEF Live
<1>2. \A k \in Live : Amount[k] \in Nat
  BY CheckoutConstants DEF Live
<1> QED
  BY <1>1, <1>2, SumNat DEF Total

LEMMA RegisterCounts == Counts /\ Register => Counts'
<1> SUFFICES ASSUME Counts, Register PROVE Counts'
  OBVIOUS
<1>1. MaxLines \in Nat
  BY CheckoutConstants
<1>2. ASSUME AddLine \/ CheckRemoval \/ DeleteLine \/ EndRemoval PROVE Counts'
  BY <1>1, <1>2 DEF AddLine, CheckRemoval, DeleteLine, EndRemoval, Counts
<1>3. ASSUME Finalize PROVE Counts'
  <2>1. /\ UNCHANGED <<lines, removal, listed>>
        /\ charged' = lines /\ change' = Pos(Total(Live) - lines)
        /\ booked' = Total(Live) - Pos(Total(Live) - lines)
    BY <1>3 DEF Finalize, Change
  <2>2. lines \in Nat
    BY <1>1 DEF Counts
  <2>3. charged' \in Nat /\ change' \in Nat /\ booked' \in Nat
    BY <2>1, <2>2, TotalNat DEF Pos
  <2> QED
    BY <2>1, <2>3 DEF Counts
<1>4. ASSUME Cancel \/ ListPayments \/ RefundDraft PROVE Counts'
  BY <1>4 DEF Cancel, ListPayments, RefundDraft, Counts, Live
<1> QED
  BY <1>2, <1>3, <1>4 DEF Register

\* Every variable keeps its type, and no interleaving of requests removes a line
\* that is not there or books or gives back a negative amount (TypeOK).
THEOREM CheckoutTypeCorrect == Spec => []TypeOK
<1>1. Init => Counts
  BY CheckoutConstants DEF Init, Counts
<1>2. RInv /\ Counts /\ [Next]_vars => Counts'
  <2>1. [Next]_vars /\ ~Register => UNCHANGED listed
    <3>1. ASSUME NEW k \in Keys, Server(k) PROVE UNCHANGED listed
      BY <3>1 DEF Server, Begin, Pay, Refuse, Lose, Seal, SealFails, Sealed
    <3>2. ASSUME NEW t \in Tabs, Till(t) PROVE UNCHANGED listed
      BY <3>2 DEF Till, TakePayment, Retry, GetAnswer, Reload, Check, Abandon, ReadStatus,
         ReadPayment, ReadInbox, CheckFails
    <3> QED
      BY <3>1, <3>2 DEF Next, vars
  <2>2. RInv /\ Counts /\ [Next]_vars /\ ~Register => Counts'
    BY <2>1, OthersLeaveInvoice DEF Counts
  <2> QED
    BY <2>2, RegisterCounts
<1>3. RInv /\ Counts => TypeOK
  BY DEF RInv, SInv, Shapes, Counts, TypeOK, Verdicts
<1> QED
  BY <1>1, <1>2, <1>3, RInvHolds, PTL DEF Spec

-----------------------------------------------------------------------------
(* What the browser keeps, when the cashier works in one tab.               *)

OneTab == \A t, u \in Tabs : t = u

\* Copies are sent in order, and a payment was recorded for a copy of it.
CopiesInOrder == \A k \in Keys : copy[k][1] = "idle" => \A n \in Sends : copy[k][n] = "idle"
PaidByACopy == \A k \in Keys : pay[k] # "none" => \E n \in Sends : copy[k][n] \in {"yes", "gone"}
\* The tab is about the stored intent; a first copy it waits for is the only one.
Holding ==
  \A t \in Tabs :
    /\ tab[t].ph # "idle" => tab[t].k = pending
    /\ tab[t].ph = "submitting" /\ tab[t].why = "first" =>
         \A n \in Sends \ {tab[t].n} : copy[pending][n] = "idle"
KInv == RInv /\ CopiesInOrder /\ PaidByACopy /\ Holding /\ IntentIsRemembered

LEMMA InitKInv == Init => KInv
<1>1. 1 \in Sends
  BY CheckoutConstants DEF Sends
<1> QED
  BY InitRInv, <1>1 DEF Init, KInv, CopiesInOrder, PaidByACopy, Holding, IntentIsRemembered,
     MayYetPay, Idle

LEMMA RegisterRemembers == KInv /\ Register => KInv'
<1> SUFFICES ASSUME KInv, Register PROVE KInv'
  OBVIOUS
<1>1. RInv'
  BY RInvStep DEF KInv, Next
<1>2. UNCHANGED <<inbox, copy, browserVars>>
  BY DEF Register, AddLine, CheckRemoval, DeleteLine, EndRemoval, Finalize, Cancel,
         ListPayments, RefundDraft
<1>3. /\ \A k \in Keys : pay'[k] = "none" <=> pay[k] = "none"
      /\ status # "draft" => UNCHANGED status
  BY OneTransactionRegister DEF KInv
<1>4. IntentIsRemembered'
  BY <1>2, <1>3 DEF KInv, IntentIsRemembered, MayYetPay
<1> QED
  BY <1>1, <1>2, <1>3, <1>4 DEF KInv, CopiesInOrder, PaidByACopy, Holding

LEMMA ServerRemembers ==
  ASSUME KInv, NEW k \in Keys, Server(k) PROVE KInv'
<1>1. RInv'
  BY RInvStep DEF KInv, Next
<1>2. CASE \E n \in Sends : Begin(k, n) \/ Pay(k, n) \/ Refuse(k, n) \/ Lose(k, n)
  <2>1. PICK n \in Sends : Begin(k, n) \/ Pay(k, n) \/ Refuse(k, n) \/ Lose(k, n)
    BY <1>2
  <2>2. UNCHANGED <<status, browserVars>>
    BY <2>1 DEF Begin, Pay, Refuse, Lose
  <2>3. PICK a \in {"held", "yes", "no", "gone"} :
          /\ Answers(k, n, a) /\ copy[k][n] # "idle"
          /\ copy[k][n] \in {"yes", "gone"} => a \in {"yes", "gone"}
          /\ a \in {"held"} => copy[k][n] = "sent"
    BY <2>1 DEF Begin, Pay, Refuse, Lose, KInv, RInv, SInv, Shapes
  <2>4. /\ \A j \in Keys, m \in Sends : j # k \/ m # n => copy'[j][m] = copy[j][m]
        /\ copy'[k][n] = a
    BY <2>3 DEF Answers, KInv, RInv, SInv, Shapes
  <2>5. \/ UNCHANGED moneyVars
        \/ /\ a = "yes" /\ copy[k][n] = "held" /\ status = "draft" /\ inbox[k] = "none"
           /\ pay' = [pay EXCEPT ![k] = "succeeded"] /\ inbox' = [inbox EXCEPT ![k] = "paid"]
    BY <2>1, <2>3, <2>4 DEF Begin, Pay, Refuse, Lose, Accepts, Answers, KInv, RInv, SInv,
       Shapes, OneTransaction
  <2>6. CopiesInOrder'
    BY <2>3, <2>4, CheckoutConstants DEF KInv, CopiesInOrder, Sends
  <2>7. PaidByACopy'
    <3>1. ASSUME NEW j \in Keys, pay'[j] # "none"
          PROVE  \E m \in Sends : copy'[j][m] \in {"yes", "gone"}
      <4>1. CASE pay[j] # "none"
        <5>1. PICK m \in Sends : copy[j][m] \in {"yes", "gone"}
          BY <4>1 DEF KInv, PaidByACopy
        <5> QED
          BY <5>1, <2>3, <2>4
      <4>2. CASE pay[j] = "none"
        BY <4>2, <3>1, <2>4, <2>5 DEF KInv, RInv, SInv, Shapes
      <4> QED
        BY <4>1, <4>2
    <3> QED
      BY <3>1 DEF PaidByACopy
  <2>8. Holding'
    <3>1. \A j \in Keys, m \in Sends : copy[j][m] = "idle" => copy'[j][m] = "idle"
      BY <2>3, <2>4
    <3>2. \A t \in Tabs : tab[t].ph # "idle" => pending \in Keys
      BY DEF KInv, Holding, RInv, SInv, AtWork
    <3> QED
      BY <2>2, <3>1, <3>2 DEF KInv, Holding
  <2>9. IntentIsRemembered'
    <3>1. ASSUME NEW j \in Keys, MayYetPay(j)' PROVE MayYetPay(j)
      <4>1. PICK m \in Sends : copy'[j][m] \in {"sent", "held"}
        BY <3>1 DEF MayYetPay
      <4>2. copy[j][m] \in {"sent", "held"}
        BY <4>1, <2>3, <2>4
      <4>3. status = "draft" /\ inbox[j] = "none"
        BY <3>1, <2>2, <2>5 DEF MayYetPay, KInv, RInv, SInv, Shapes
      <4> QED
        BY <4>2, <4>3 DEF MayYetPay
    <3>2. ASSUME NEW j \in Keys, pay'[j] # "none" PROVE pay[j] # "none" \/ MayYetPay(j)
      BY <3>2, <2>5 DEF MayYetPay, KInv, RInv, SInv, Shapes
    <3>3. ASSUME NEW j \in Keys,
                 MayYetPay(j)' \/ (pay'[j] # "none" /\ told'[j] \cap {"recorded", "conflict"} = {})
          PROVE  pending' = j
      BY <2>2, <3>1, <3>2, <3>3 DEF KInv, IntentIsRemembered
    <3> QED
      BY <3>3 DEF IntentIsRemembered
  <2> QED
    BY <1>1, <2>6, <2>7, <2>8, <2>9 DEF KInv
<1>3. CASE Seal(k) \/ SealFails(k)
  <2>1. UNCHANGED <<status, pay, copy, pending, told>>
    BY <1>3 DEF Seal, SealFails, Sealed
  <2>2. \A j \in Keys : inbox'[j] = "none" => inbox[j] = "none"
    BY <1>3 DEF Seal, SealFails, KInv, RInv, SInv, Shapes
  <2>3. PICK ph \in {"status", "unknown"} :
          tab' = [t \in Tabs |-> IF tab[t].ph = "sealing" /\ tab[t].k = k
                                 THEN [tab[t] EXCEPT !.ph = ph] ELSE tab[t]]
    BY <1>3 DEF Seal, SealFails, Sealed
  <2>4. \A t \in Tabs : \/ tab'[t] = tab[t]
                        \/ /\ tab[t].ph = "sealing" /\ tab'[t].k = tab[t].k
                           /\ tab'[t].ph \in {"status", "unknown"}
    BY <2>3 DEF KInv, RInv, SInv, Shapes, TabRecords
  <2>5. Holding'
    BY <2>1, <2>4 DEF KInv, Holding
  <2>6. IntentIsRemembered'
    BY <2>1, <2>2 DEF KInv, IntentIsRemembered, MayYetPay
  <2> QED
    BY <1>1, <2>1, <2>5, <2>6 DEF KInv, CopiesInOrder, PaidByACopy
<1> QED
  BY <1>2, <1>3 DEF Server

\* A tab that goes on with the stored intent forgets nothing.
LEMMA StayingRemembers ==
  ASSUME KInv, OneTab, NEW t \in Tabs, NEW r, tab' = [tab EXCEPT ![t] = r],
         r.ph # "submitting", r.ph # "idle" => r.k = pending,
         UNCHANGED <<status, moneyVars, copy, pending, told>>
  PROVE  CopiesInOrder' /\ PaidByACopy' /\ Holding' /\ IntentIsRemembered'
<1>1. \A u \in Tabs : tab'[u] = r
  BY DEF OneTab, KInv, RInv, SInv, Shapes
<1>2. Holding'
  BY <1>1 DEF Holding
<1> QED
  BY <1>2 DEF KInv, CopiesInOrder, PaidByACopy, IntentIsRemembered, MayYetPay

\* A verdict on the stored intent, after which nothing of it may be recorded.
LEMMA ConcludingRemembers ==
  ASSUME KInv, OneTab, NEW t \in Tabs, tab[t].ph # "idle", NEW v \in Verdicts,
         Concludes(t, tab[t].k, v), UNCHANGED serverVars,
         ~MayYetPay(tab[t].k), pay[tab[t].k] = "none" \/ v \in {"recorded", "conflict"}
  PROVE  CopiesInOrder' /\ PaidByACopy' /\ Holding' /\ IntentIsRemembered'
<1> DEFINE k == tab[t].k
<1>1. k \in Keys /\ pending = k
  BY DEF KInv, Holding, RInv, SInv, AtWork
<1>2. tab' = [tab EXCEPT ![t] = Idle] /\ pending' = NoKey
      /\ told' = [told EXCEPT ![k] = @ \cup {v}]
  BY <1>1 DEF Concludes, Ours
<1>3. \A u \in Tabs : tab'[u].ph = "idle"
  BY <1>2 DEF OneTab, KInv, RInv, SInv, Shapes, Idle
<1>4. \A j \in Keys : told'[j] = IF j = k THEN told[k] \cup {v} ELSE told[j]
  BY <1>2 DEF KInv, RInv, SInv, Shapes
<1>5. \A j \in Keys : MayYetPay(j)' <=> MayYetPay(j)
  BY DEF MayYetPay
<1>6. ASSUME NEW j \in Keys
      PROVE  ~MayYetPay(j)' /\ (pay'[j] = "none" \/ told'[j] \cap {"recorded", "conflict"} # {})
  <2>1. CASE j = k
    BY <1>4, <1>5, <2>1
  <2>2. CASE j # k
    BY <1>1, <1>4, <1>5, <2>2 DEF KInv, IntentIsRemembered
  <2> QED
    BY <2>1, <2>2
<1>7. IntentIsRemembered'
  BY <1>6 DEF IntentIsRemembered
<1> QED
  BY <1>3, <1>7 DEF KInv, CopiesInOrder, PaidByACopy, Holding

LEMMA TillRemembers ==
  ASSUME KInv, OneTab, NEW t \in Tabs, Till(t) PROVE KInv'
<1> DEFINE k == tab[t].k
<1> SUFFICES CopiesInOrder' /\ PaidByACopy' /\ Holding' /\ IntentIsRemembered'
  BY RInvStep DEF KInv, Next
<1>1. tab[t].ph # "idle" => k \in Keys /\ pending = k /\ Ours(k)
  BY DEF KInv, Holding, RInv, SInv, AtWork, Ours
<1>2. \A j, why : Unknown(j, why).ph = "unknown" /\ Unknown(j, why).k = j
  BY DEF Unknown, Idle
<1>3. ASSUME NEW why, tab' = [tab EXCEPT ![t] = Unknown(pending, why)],
             UNCHANGED <<status, moneyVars, copy, pending, told>>
      PROVE  CopiesInOrder' /\ PaidByACopy' /\ Holding' /\ IntentIsRemembered'
  BY <1>2, <1>3, StayingRemembers
<1>4. ASSUME NEW ph \in {"status", "sealing", "inbox"}, Goes(t, ph), tab[t].ph # "idle",
             UNCHANGED <<status, moneyVars, copy, pending, told>>
      PROVE  CopiesInOrder' /\ PaidByACopy' /\ Holding' /\ IntentIsRemembered'
  <2> DEFINE r == [tab[t] EXCEPT !.ph = ph]
  <2>1. tab' = [tab EXCEPT ![t] = r] /\ r.ph = ph /\ r.k = k
    BY <1>4 DEF Goes, KInv, RInv, SInv, Shapes, TabRecords
  <2> HIDE DEF r
  <2> QED
    BY <1>1, <1>4, <2>1, StayingRemembers
<1>5. ASSUME NEW j \in Keys, NEW n \in Sends, NEW why \in {"none", "first"},
             Submits(t, j, n, why), pending' = j, pending \in {j, NoKey},
             copy[j][n] = "idle", why = "first" => n = 1, n = 1 \/ copy[j][1] # "idle",
             UNCHANGED <<status, moneyVars, told>>
      PROVE  CopiesInOrder' /\ PaidByACopy' /\ Holding' /\ IntentIsRemembered'
  <2>1. /\ \A i \in Keys, m \in Sends : i # j \/ m # n => copy'[i][m] = copy[i][m]
        /\ copy'[j][n] = "sent"
    BY <1>5 DEF Submits, Answers, KInv, RInv, SInv, Shapes
  <2> DEFINE r == [Idle EXCEPT !.ph = "submitting", !.k = j, !.n = n, !.why = why]
  <2>2. r.ph = "submitting" /\ r.k = j /\ r.n = n /\ r.why = why
    BY DEF Idle
  <2>3. tab' = [tab EXCEPT ![t] = r]
    BY <1>5 DEF Submits
  <2> HIDE DEF r
  <2>4. \A u \in Tabs : tab'[u] = r
    BY <2>3 DEF OneTab, KInv, RInv, SInv, Shapes
  <2>5. 1 \in Sends
    BY CheckoutConstants DEF Sends
  <2>6. CopiesInOrder'
    BY <1>5, <2>1, <2>5 DEF KInv, CopiesInOrder
  <2>7. PaidByACopy'
    <3>1. ASSUME NEW i \in Keys, pay[i] # "none"
          PROVE  \E m \in Sends : copy'[i][m] \in {"yes", "gone"}
      <4>1. PICK m \in Sends : copy[i][m] \in {"yes", "gone"}
        BY <3>1 DEF KInv, PaidByACopy
      <4> QED
        BY <1>5, <2>1, <4>1
    <3> QED
      BY <1>5, <3>1 DEF PaidByACopy
  <2>8. Holding'
    BY <1>5, <2>1, <2>2, <2>4, <2>5 DEF KInv, CopiesInOrder, Holding
  <2>9. ASSUME NEW i \in Keys, i # j PROVE MayYetPay(i)' => MayYetPay(i)
    BY <1>5, <2>1, <2>9 DEF MayYetPay
  <2>10. ASSUME NEW i \in Keys,
                MayYetPay(i)' \/ (pay'[i] # "none" /\ told'[i] \cap {"recorded", "conflict"} = {})
         PROVE  pending' = i
    <3>1. CASE i = j
      BY <1>5, <3>1
    <3>2. CASE i # j
      <4>1. pending # i
        BY <1>5, <3>2, CheckoutConstants
      <4>2. MayYetPay(i) \/ (pay[i] # "none" /\ told[i] \cap {"recorded", "conflict"} = {})
        BY <1>5, <2>9, <2>10, <3>2
      <4> QED
        BY <4>1, <4>2 DEF KInv, IntentIsRemembered
    <3> QED
      BY <3>1, <3>2
  <2>11. IntentIsRemembered'
    BY <2>10 DEF IntentIsRemembered
  <2> QED
    BY <2>6, <2>7, <2>8, <2>11
<1>6. ASSUME NEW j \in Keys, TakePayment(t, j)
      PROVE  CopiesInOrder' /\ PaidByACopy' /\ Holding' /\ IntentIsRemembered'
  <2>1. 1 \in Sends
    BY CheckoutConstants DEF Sends
  <2>2. CASE pending = NoKey
    BY <1>5, <1>6, <2>1, <2>2 DEF TakePayment
  <2>3. CASE pending # NoKey
    BY <1>3, <1>6, <2>3 DEF TakePayment
  <2> QED
    BY <2>2, <2>3
<1>7. CASE Retry(t)
  <2>1. PICK n \in Sends : /\ copy[k][n] = "idle" /\ Submits(t, k, n, "none")
                           /\ \A m \in 1..(n - 1) : copy[k][m] # "idle"
    BY <1>7 DEF Retry
  <2>2. n = 1 \/ 1 \in 1..(n - 1)
    BY CheckoutConstants DEF Sends
  <2>3. tab[t].ph # "idle" /\ UNCHANGED <<status, moneyVars, pending, told>>
    BY <1>7 DEF Retry
  <2> QED
    BY <1>1, <1>5, <2>1, <2>2, <2>3
<1>8. CASE GetAnswer(t)
  <2>1. tab[t].ph = "submitting" /\ UNCHANGED serverVars
    BY <1>8 DEF GetAnswer
  <2>2. k \in Keys /\ pending = k /\ Ours(k) /\ tab[t].n \in Sends
    BY <1>1, <2>1 DEF KInv, RInv, SInv, AtWork
  <2>3. CASE Holds(t, k, "none") /\ UNCHANGED told
    BY <1>3, <2>1, <2>2, <2>3 DEF Holds
  <2>4. CASE copy[k][tab[t].n] = "yes" /\ Concludes(t, k, "recorded")
    <3>1. ~MayYetPay(k)
      BY <2>2, <2>4 DEF MayYetPay, KInv, RInv, OneTransaction
    <3> QED
      BY <2>1, <2>2, <2>4, <3>1, ConcludingRemembers DEF Verdicts
  <2>5. CASE copy[k][tab[t].n] = "no" /\ tab[t].why = "first" /\ Concludes(t, k, "refused")
    <3>1. \A m \in Sends : copy[k][m] \in {"idle", "no"}
      BY <2>1, <2>2, <2>5 DEF KInv, Holding
    <3>2. ~MayYetPay(k) /\ pay[k] = "none"
      BY <2>2, <3>1 DEF MayYetPay, KInv, PaidByACopy
    <3> QED
      BY <2>1, <2>2, <2>5, <3>2, ConcludingRemembers DEF Verdicts
  <2> QED
    BY <1>8, <2>3, <2>4, <2>5 DEF GetAnswer, Refused
<1>9. CASE Reload(t)
  <2> DEFINE r == [Unknown(pending, "none") EXCEPT !.ph = "status"]
  <2>1. r.ph = "status" /\ r.k = pending /\ Idle.ph = "idle"
    BY DEF Unknown, Idle
  <2>2. UNCHANGED <<status, moneyVars, copy, pending, told>>
    BY <1>9 DEF Reload
  <2> HIDE DEF r
  <2>3. \/ tab' = [tab EXCEPT ![t] = Idle] \/ tab' = [tab EXCEPT ![t] = r]
        \/ tab' = [tab EXCEPT ![t] = Unknown(pending, "none")]
    BY <1>9 DEF Reload, r
  <2> QED
    BY <1>3, <2>1, <2>2, <2>3, StayingRemembers
<1>10. CASE Check(t) \/ Abandon(t)
  BY <1>4, <1>10 DEF Check, Abandon
<1>11. CASE ReadStatus(t)
  <2> DEFINE r == [tab[t] EXCEPT !.ph = "payment", !.seen = status]
  <2>1. tab' = [tab EXCEPT ![t] = r] /\ r.ph = "payment" /\ r.k = k
    BY <1>11 DEF ReadStatus, KInv, RInv, SInv, Shapes, TabRecords
  <2>2. tab[t].ph # "idle" /\ UNCHANGED <<status, moneyVars, copy, pending, told>>
    BY <1>11 DEF ReadStatus
  <2> HIDE DEF r
  <2> QED
    BY <1>1, <2>1, <2>2, StayingRemembers
<1>12. CASE ReadPayment(t)
  <2>1. tab[t].ph = "payment" /\ UNCHANGED serverVars
    BY <1>12 DEF ReadPayment
  <2>2. k \in Keys /\ pending = k /\ pay[k] \in {"none", "succeeded", "reversed"}
    BY <1>1, <2>1 DEF KInv, RInv, SInv, Shapes
  <2>3. CASE pay[k] = "succeeded" /\ Concludes(t, k, "recorded")
    <3>1. ~MayYetPay(k)
      BY <2>2, <2>3 DEF MayYetPay, KInv, RInv, OneTransaction
    <3> QED
      BY <2>1, <2>3, <3>1, ConcludingRemembers DEF Verdicts
  <2>4. CASE tab' = [tab EXCEPT ![t] = Unknown(k, "mismatch")] /\ UNCHANGED <<pending, told>>
    BY <1>3, <2>1, <2>2, <2>4
  <2>5. CASE Goes(t, "inbox") /\ UNCHANGED <<pending, told>>
    BY <1>4, <2>1, <2>5
  <2> QED
    BY <1>12, <2>2, <2>3, <2>4, <2>5 DEF ReadPayment
<1>13. CASE ReadInbox(t)
  <2>1. tab[t].ph = "inbox" /\ UNCHANGED serverVars
    BY <1>13 DEF ReadInbox
  <2>2. k \in Keys /\ pending = k /\ inbox[k] \in {"none", "paid", "sealed"}
    BY <1>1, <2>1 DEF KInv, RInv, SInv, Shapes
  <2>3. inbox[k] # "paid" => pay[k] = "none"
    BY <2>2 DEF KInv, RInv, OneTransaction
  <2>4. tab[t].seen # "draft" => status # "draft"
    BY <2>1 DEF KInv, RInv, ReadsHold
  <2>5. CASE inbox[k] = "sealed" /\ Concludes(t, k, "sealed")
    BY <2>1, <2>3, <2>5, ConcludingRemembers DEF Verdicts, MayYetPay
  <2>6. CASE inbox[k] = "paid" /\ Concludes(t, k, "conflict")
    BY <2>1, <2>6, ConcludingRemembers DEF Verdicts, MayYetPay
  <2>7. CASE inbox[k] = "none" /\ tab[t].seen # "draft" /\ Concludes(t, k, "closed")
    BY <2>1, <2>3, <2>4, <2>7, ConcludingRemembers DEF Verdicts, MayYetPay
  <2>8. CASE tab' = [tab EXCEPT ![t] = Unknown(k, tab[t].why)] /\ UNCHANGED <<pending, told>>
    BY <1>3, <2>1, <2>2, <2>8
  <2> QED
    BY <1>13, <2>2, <2>5, <2>6, <2>7, <2>8 DEF ReadInbox
<1>14. CASE CheckFails(t)
  <2>1. tab[t].ph # "idle" /\ UNCHANGED <<status, moneyVars, copy, pending, told>>
        /\ tab' = [tab EXCEPT ![t] = Unknown(k, tab[t].why)]
    BY <1>14 DEF CheckFails
  <2> QED
    BY <1>1, <1>3, <2>1
<1> QED
  BY <1>6, <1>7, <1>8, <1>9, <1>10, <1>11, <1>12, <1>13, <1>14 DEF Till

\* A cashier who works in one tab never loses a payment that was recorded, or may
\* still be: the browser keeps its intent until he is told (Pos.tsx:968-983).
THEOREM IntentKept ==
  ASSUME OneTab PROVE Spec => []IntentIsRemembered
<1>1. KInv /\ UNCHANGED vars => KInv'
  <2> SUFFICES ASSUME KInv, UNCHANGED vars PROVE KInv'
    OBVIOUS
  <2>1. RInv'
    BY RInvStep DEF KInv
  <2> QED
    BY <2>1 DEF vars, KInv, CopiesInOrder, PaidByACopy, Holding, IntentIsRemembered, MayYetPay
<1>2. KInv /\ [Next]_vars => KInv'
  BY <1>1, RegisterRemembers, ServerRemembers, TillRemembers DEF Next
<1>3. KInv => IntentIsRemembered
  BY DEF KInv
<1> QED
  BY InitKInv, <1>2, <1>3, PTL DEF Spec
=============================================================================
