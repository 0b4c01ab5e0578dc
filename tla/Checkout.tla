------------------------------ MODULE Checkout ------------------------------
(***************************************************************************)
(* One invoice of the till, from a draft to its end, and the payments the  *)
(* cashier takes for it over a network that loses answers.  Every payment  *)
(* he means to take is an intent with a key of its own, which the browser  *)
(* stores before it sends anything.  Until the server gives a final        *)
(* verdict only that intent may be sent again, looked up, or sealed so     *)
(* that a late copy of it is refused.                                      *)
(*                                                                         *)
(* A transaction that holds the row lock of the invoice from its first     *)
(* read is one step, its commit.  What is read without that lock is a step *)
(* of its own.  The shift, the credit limit, the stock and the permissions *)
(* are reasons to refuse, which may come at any time.                      *)
(***************************************************************************)
EXTENDS Integers, FiniteSets, Functions

CONSTANTS
  Tabs,      \* tabs of the cashier's browser
  Keys,      \* payments he may come to take
  Amount,    \* what each of them is for
  Cash,      \* the ones taken in cash
  NoKey,     \* no payment
  MaxSends,  \* bound: copies sent of one payment
  MaxLines   \* bound: lines of the invoice, each of price 1

ASSUME CheckoutConstants ==
  /\ IsFiniteSet(Keys) /\ NoKey \notin Keys
  /\ Amount \in [Keys -> Nat \ {0}]
  /\ Cash \subseteq Keys
  /\ MaxSends \in Nat \ {0} /\ MaxLines \in Nat \ {0}

VARIABLES
  status,   \* sales.invoice.status
  lines,    \* its committed lines
  removal,  \* a request that removes a line
  charged, booked, change, \* payable, paid and change given, at finalization
  pay,      \* treasury.payment by client_event_id
  inbox,    \* platform.inbox_message by key
  copy,     \* each copy of a payment request and its answer
  sealing,  \* keys whose abandonment is under way on the server
  listed,   \* payments the cashier confirmed to give back
  pending,  \* the browser's stored intent
  tab,      \* the payment phase of each tab
  told      \* history: the final verdicts the cashier was given of each payment

invoiceVars == <<status, lines, removal, charged, booked, change>>
moneyVars == <<pay, inbox>>
serverVars == <<invoiceVars, moneyVars, copy, sealing, listed>>
browserVars == <<pending, tab, told>>
vars == <<serverVars, browserVars>>

Sends == 1..MaxSends
Idle == [ph |-> "idle", k |-> NoKey, n |-> 0, why |-> "none", seen |-> "none"]
Statuses == {"draft", "finalized", "cancelled"}
TabRecords ==
  [ph : {"idle", "submitting", "unknown", "sealing", "status", "payment", "inbox"},
   k : Keys \cup {NoKey}, n : Sends \cup {0},
   why : {"none", "first", "mismatch"},
   seen : Statuses \cup {"none"}]

\* Every variable keeps its type.
TypeOK ==
  /\ status \in Statuses /\ lines \in 0..MaxLines
  /\ removal \in {"no", "checked", "deleted"}
  /\ charged \in Nat /\ booked \in Nat /\ change \in Nat
  /\ pay \in [Keys -> {"none", "succeeded", "reversed"}]
  /\ inbox \in [Keys -> {"none", "paid", "sealed"}]
  /\ copy \in [Keys -> [Sends -> {"idle", "sent", "held", "yes", "no", "gone"}]]
  /\ sealing \subseteq Keys /\ listed \subseteq Keys
  /\ pending \in Keys \cup {NoKey}
  /\ tab \in [Tabs -> TabRecords]
  /\ told \in [Keys -> SUBSET {"recorded", "refused", "sealed", "closed", "conflict"}]

Init ==
  /\ status = "draft" /\ lines = 1 /\ removal = "no"
  /\ charged = 0 /\ booked = 0 /\ change = 0
  /\ pay = [k \in Keys |-> "none"] /\ inbox = [k \in Keys |-> "none"]
  /\ copy = [k \in Keys |-> [n \in Sends |-> "idle"]]
  /\ sealing = {} /\ listed = {}
  /\ pending = NoKey /\ tab = [t \in Tabs |-> Idle]
  /\ told = [k \in Keys |-> {}]

-----------------------------------------------------------------------------
(* The invoice.                                                             *)

Live == {k \in Keys : pay[k] = "succeeded"}
Total(S) == SumFunctionOnSet(Amount, S)
Pos(n) == IF n > 0 THEN n ELSE 0

AddLine ==
  /\ status = "draft" /\ lines < MaxLines
  /\ lines' = lines + 1
  /\ UNCHANGED <<status, removal, charged, booked, change, moneyVars, copy, sealing,
                 listed, browserVars>>

\* removeLine looks at the status outside its transaction.
CheckRemoval ==
  /\ removal = "no" /\ status = "draft" /\ lines > 0
  /\ removal' = "checked"
  /\ UNCHANGED <<status, lines, charged, booked, change, moneyVars, copy, sealing,
                 listed, browserVars>>

\* Wrong: the database trusts that look.
DeleteLineUnguarded ==
  /\ removal = "checked"
  /\ removal' = "deleted"
  /\ UNCHANGED <<status, lines, charged, booked, change, moneyVars, copy, sealing,
                 listed, browserVars>>
\* The row is locked, then the guard of the database reads the status again.
DeleteLine ==
  /\ removal = "checked"
  /\ removal' = IF status = "draft" THEN "deleted" ELSE "no"
  /\ UNCHANGED <<status, lines, charged, booked, change, moneyVars, copy, sealing,
                 listed, browserVars>>

\* It waits for the invoice, which may be cancelled by then.  A finalization
\* holds the invoice and waits for the line: one of the two is aborted.
EndRemoval ==
  /\ removal = "deleted"
  /\ removal' = "no"
  /\ lines' \in {lines, lines - 1}
  /\ UNCHANGED <<status, charged, booked, change, moneyVars, copy, sealing, listed,
                 browserVars>>

Change == Pos(Total(Live) - lines)
Finalize ==
  /\ status = "draft" /\ lines > 0 /\ removal # "deleted"
  /\ Change <= Total(Live \cap Cash)
  /\ status' = "finalized"
  /\ charged' = lines /\ change' = Change /\ booked' = Total(Live) - Change
  /\ UNCHANGED <<lines, removal, moneyVars, copy, sealing, listed, browserVars>>

Cancel ==
  /\ status = "draft" /\ Live = {}
  /\ status' = "cancelled"
  /\ UNCHANGED <<lines, removal, charged, booked, change, moneyVars, copy, sealing,
                 listed, browserVars>>

\* The cashier is shown the payments of the draft and confirms to give them back.
ListPayments ==
  /\ status = "draft" /\ Live # {}
  /\ listed' = Live
  /\ UNCHANGED <<invoiceVars, moneyVars, copy, sealing, browserVars>>

\* Wrong: whatever is there now counts as confirmed, and only that is given back.
RefundStaleList ==
  /\ status = "draft" /\ listed # {}
  /\ pay' = [k \in Keys |-> IF k \in listed THEN "reversed" ELSE pay[k]]
  /\ status' = "cancelled" /\ listed' = {}
  /\ UNCHANGED <<lines, removal, charged, booked, change, inbox, copy, sealing, browserVars>>
RefundDraft ==
  /\ status = "draft" /\ listed # {} /\ listed = Live
  /\ pay' = [k \in Keys |-> IF k \in listed THEN "reversed" ELSE pay[k]]
  /\ status' = "cancelled" /\ listed' = {}
  /\ UNCHANGED <<lines, removal, charged, booked, change, inbox, copy, sealing, browserVars>>

-----------------------------------------------------------------------------
(* POST /invoices/:id/payments: runOnce around addPaymentIn.                *)

Held(k) == \E n \in Sends : copy[k][n] = "held"
Answers(k, n, a) == copy' = [copy EXCEPT ![k][n] = a]

\* INSERT into the inbox waits for a transaction that holds the key; then a row
\* of the same payment is a replay and a sealed one a key that was reused, which
\* the browser takes for no answer.
Begin(k, n) ==
  /\ copy[k][n] = "sent" /\ ~Held(k)
  /\ Answers(k, n, CASE inbox[k] = "none"   -> "held"
                     [] inbox[k] = "paid"   -> "yes"
                     [] inbox[k] = "sealed" -> "gone")
  /\ UNCHANGED <<invoiceVars, moneyVars, sealing, listed, browserVars>>

\* Under the lock of the invoice: a draft, and no more than is due unless in cash.
Accepts(k) ==
  /\ status = "draft"
  /\ k \in Cash \/ Amount[k] <= Pos(lines - Total(Live))
Pay(k, n) ==
  /\ copy[k][n] = "held" /\ Accepts(k)
  /\ pay' = [pay EXCEPT ![k] = "succeeded"]
  /\ inbox' = [inbox EXCEPT ![k] = "paid"]
  /\ Answers(k, n, "yes")
  /\ UNCHANGED <<invoiceVars, sealing, listed, browserVars>>

\* A 4xx: not a draft, too much, no stock, no permission, no session.
Refuse(k, n) ==
  /\ copy[k][n] \in {"sent", "held"}
  /\ Answers(k, n, "no")
  /\ UNCHANGED <<invoiceVars, moneyVars, sealing, listed, browserVars>>

\* The request is lost, the server dies and its transaction is rolled back, or
\* the answer a tab waits for is lost.
Awaited(k, n) == \E t \in Tabs : tab[t].ph = "submitting" /\ tab[t].k = k /\ tab[t].n = n
Lose(k, n) ==
  /\ copy[k][n] \in {"sent", "held"} \/ (copy[k][n] \in {"yes", "no"} /\ Awaited(k, n))
  /\ Answers(k, n, "gone")
  /\ UNCHANGED <<invoiceVars, moneyVars, sealing, listed, browserVars>>

-----------------------------------------------------------------------------
(* The browser.  One tab at a time holds navigator.locks; a reload frees it. *)

Unlocked == \A t \in Tabs : tab[t].ph \in {"idle", "unknown"}
Goes(t, ph) == tab' = [tab EXCEPT ![t].ph = ph]
Unknown(k, why) == [Idle EXCEPT !.ph = "unknown", !.k = k, !.why = why]
\* writePendingPayment and clearPendingPayment refuse another key's intent.
Ours(k) == pending \in {k, NoKey}
\* holdIntent: the tab stays on the intent even if the store refuses it.
Holds(t, k, why) ==
  /\ pending' = IF Ours(k) THEN k ELSE pending
  /\ tab' = [tab EXCEPT ![t] = Unknown(k, why)]
\* The verdict clears the stored intent and is shown; if that is another intent,
\* neither happens and the tab stays locked.
Concludes(t, k, verdict) ==
  IF Ours(k)
  THEN /\ told' = [told EXCEPT ![k] = @ \cup {verdict}]
       /\ pending' = NoKey
       /\ tab' = [tab EXCEPT ![t] = Idle]
  ELSE /\ tab' = [tab EXCEPT ![t] = Unknown(k, "none")]
       /\ UNCHANGED <<told, pending>>

Submits(t, k, n, why) ==
  /\ tab' = [tab EXCEPT ![t] = [Idle EXCEPT !.ph = "submitting", !.k = k, !.n = n, !.why = why]]
  /\ Answers(k, n, "sent")

TakePayment(t, k) ==
  /\ Unlocked /\ tab[t].ph = "idle" /\ status = "draft"
  /\ copy[k][1] = "idle"
  /\ IF pending = NoKey
     THEN Submits(t, k, 1, "first") /\ pending' = k
     ELSE /\ tab' = [tab EXCEPT ![t] = Unknown(pending, "none")]
          /\ UNCHANGED <<copy, pending>>
  /\ UNCHANGED <<invoiceVars, moneyVars, sealing, listed, told>>

Retry(t) ==
  /\ Unlocked /\ tab[t].ph = "unknown" /\ tab[t].why # "mismatch"
  /\ \E n \in Sends :
       /\ copy[tab[t].k][n] = "idle"
       /\ \A m \in 1..(n - 1) : copy[tab[t].k][m] # "idle"
       /\ Submits(t, tab[t].k, n, "none")
  /\ UNCHANGED <<invoiceVars, moneyVars, sealing, listed, pending, told>>

\* Wrong: a refusal of any copy ends the intent.
RefusalEnds(t, k) == Concludes(t, k, "refused")
\* A refusal ends the intent only if the first copy is the only one.
Refused(t, k) ==
  IF tab[t].why = "first" THEN Concludes(t, k, "refused")
  ELSE Holds(t, k, "none") /\ UNCHANGED told
GetAnswer(t) ==
  LET k == tab[t].k
      a == copy[k][tab[t].n]
  IN /\ tab[t].ph = "submitting"
     /\ \/ a = "yes" /\ Concludes(t, k, "recorded")
        \/ a = "no" /\ Refused(t, k)
        \/ a = "gone" /\ Holds(t, k, "none") /\ UNCHANGED told
     /\ UNCHANGED <<serverVars>>

\* The page is loaded again: the stored intent comes back locked if the invoice
\* is a draft, and is looked up if it is not.
Reload(t) ==
  /\ tab[t].ph # "idle" \/ pending # NoKey
  /\ tab' = [tab EXCEPT ![t] =
              IF pending = NoKey THEN Idle
              ELSE IF status = "draft" THEN Unknown(pending, "none")
              ELSE [Unknown(pending, "none") EXCEPT !.ph = "status"]]
  /\ UNCHANGED <<serverVars, pending, told>>

Check(t) ==
  /\ Unlocked /\ tab[t].ph = "unknown"
  /\ Goes(t, "status")
  /\ UNCHANGED <<serverVars, pending, told>>

\* abandonPaymentIntent reads the status without a lock; a draft's key is sealed.
Abandon(t) ==
  /\ Unlocked /\ tab[t].ph = "unknown" /\ tab[t].why # "mismatch"
  /\ IF status = "draft"
     THEN Goes(t, "sealing") /\ sealing' = sealing \cup {tab[t].k}
     ELSE Goes(t, "status") /\ UNCHANGED sealing
  /\ UNCHANGED <<invoiceVars, moneyVars, copy, listed, pending, told>>

\* The answer to whoever still waits for the seal of k.
Sealed(k, ph) ==
  /\ sealing' = sealing \ {k}
  /\ tab' = [t \in Tabs |-> IF tab[t].ph = "sealing" /\ tab[t].k = k
                            THEN [tab[t] EXCEPT !.ph = ph] ELSE tab[t]]
  /\ UNCHANGED <<invoiceVars, pay, copy, listed, pending, told>>
\* Wrong: the seal does not wait for a payment under way.
SealAtOnce(k) ==
  /\ k \in sealing
  /\ inbox' = [inbox EXCEPT ![k] = IF @ = "none" THEN "sealed" ELSE @]
  /\ Sealed(k, "status")
\* INSERT ... ON CONFLICT DO NOTHING waits for the transaction that holds the key.
Seal(k) ==
  /\ k \in sealing /\ ~Held(k)
  /\ inbox' = [inbox EXCEPT ![k] = IF @ = "none" THEN "sealed" ELSE @]
  /\ Sealed(k, "status")
SealFails(k) ==
  /\ k \in sealing
  /\ UNCHANGED inbox
  /\ Sealed(k, "unknown")

-----------------------------------------------------------------------------
(* paymentIntent: three reads, each with a snapshot of its own.             *)

ReadStatus(t) ==
  /\ tab[t].ph = "status"
  /\ tab' = [tab EXCEPT ![t].ph = "payment", ![t].seen = status]
  /\ UNCHANGED <<serverVars, pending, told>>

\* A payment given back is there, but not the one the intent meant.
ReadPayment(t) ==
  LET k == tab[t].k
  IN /\ tab[t].ph = "payment"
     /\ CASE pay[k] = "succeeded" -> Concludes(t, k, "recorded")
          [] pay[k] = "reversed"  ->
               /\ tab' = [tab EXCEPT ![t] = Unknown(k, "mismatch")]
               /\ UNCHANGED <<pending, told>>
          [] pay[k] = "none"      -> Goes(t, "inbox") /\ UNCHANGED <<pending, told>>
     /\ UNCHANGED serverVars

ReadInbox(t) ==
  LET k == tab[t].k
  IN /\ tab[t].ph = "inbox"
     /\ CASE inbox[k] = "sealed" -> Concludes(t, k, "sealed")
          [] inbox[k] = "paid"   -> Concludes(t, k, "conflict")
          [] inbox[k] = "none" /\ tab[t].seen # "draft" -> Concludes(t, k, "closed")
          [] OTHER -> /\ tab' = [tab EXCEPT ![t] = Unknown(k, tab[t].why)]
                      /\ UNCHANGED <<pending, told>>
     /\ UNCHANGED serverVars

\* The answer is lost.
CheckFails(t) ==
  /\ tab[t].ph \in {"status", "payment", "inbox"}
  /\ tab' = [tab EXCEPT ![t] = Unknown(tab[t].k, tab[t].why)]
  /\ UNCHANGED <<serverVars, pending, told>>

-----------------------------------------------------------------------------
Register ==
  \/ AddLine \/ CheckRemoval \/ DeleteLine \/ EndRemoval
  \/ Finalize \/ Cancel \/ ListPayments \/ RefundDraft
Server(k) ==
  \/ \E n \in Sends : Begin(k, n) \/ Pay(k, n) \/ Refuse(k, n) \/ Lose(k, n)
  \/ Seal(k) \/ SealFails(k)
Till(t) ==
  \/ \E k \in Keys : TakePayment(t, k)
  \/ Retry(t) \/ GetAnswer(t) \/ Reload(t) \/ Check(t) \/ Abandon(t)
  \/ ReadStatus(t) \/ ReadPayment(t) \/ ReadInbox(t) \/ CheckFails(t)

Next == Register \/ (\E k \in Keys : Server(k)) \/ (\E t \in Tabs : Till(t))

Spec == Init /\ [][Next]_vars

-----------------------------------------------------------------------------
\* What the server may still do with an intent (invoice.ts:1236-1254).
Fate(k) ==
  IF pay[k] # "none" THEN "recorded"
  ELSE IF inbox[k] = "sealed" \/ status # "draft" THEN "never" ELSE "open"

\* A verdict of a key that belongs to another request is left to NeverIsNever,
\* and the refusal of a copy to IntentIsRemembered.
Heard(k) ==
  IF "recorded" \in told[k] THEN "recorded"
  ELSE IF told[k] \cap {"sealed", "closed"} # {} THEN "never" ELSE "open"

\* The fate of an intent is settled once, and the cashier is told "recorded",
\* "sealed" or "the invoice is closed" only when that is its fate, whatever is
\* in flight (invoice.ts:1255-1310, idempotency.ts:52-131).
Promise == INSTANCE PaymentIntent
             WITH fate <- [k \in Keys |-> Fate(k)], heard <- [k \in Keys |-> Heard(k)]
VerdictsArePromised == Promise!Spec

\* A cashier who is told that a payment will never be recorded is not charged
\* for it later (pos-payments.ts:237-238).
NeverIsNever ==
  \A k \in Keys : told[k] \cap {"sealed", "closed", "conflict"} # {} => pay[k] = "none"

\* While a copy of an intent may still be recorded, or was and nobody said so,
\* the browser keeps it and takes no other (Pos.tsx:968-983).
MayYetPay(k) ==
  status = "draft" /\ inbox[k] = "none" /\ \E n \in Sends : copy[k][n] \in {"sent", "held"}
IntentIsRemembered ==
  \A k \in Keys :
    MayYetPay(k) \/ (pay[k] # "none" /\ told[k] \cap {"recorded", "conflict"} = {}) => pending = k

\* What finalization wrote stays what the lines and the payments say
\* (096_credit_sale_toggle.sql:89-202, 015_pos_api.sql:155-200).
SettlementStands ==
  status = "finalized" =>
    /\ charged = lines
    /\ booked = Total(Live) - change

\* A cancelled invoice keeps nobody's money (invoice.ts:1148-1214).
NoMoneyOnCancelled == status = "cancelled" => Live = {}
=============================================================================
