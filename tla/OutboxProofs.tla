---------------------------- MODULE OutboxProofs ----------------------------
(* Proofs about Outbox for any number of workers, rows and entities.        *)
EXTENDS Outbox, FiniteSetTheorems, TLAPS

(* A freshly inserted row is a row.                                         *)
LEMMA NewRowType ==
  ASSUME NEW t \in Topics, NEW k \in Keys, NEW n \in Nat
  PROVE  NewRow(t, k, n) \in Rows
BY DEF NewRow, NoRow, Rows, Statuses, Topics, Keys

(* The six columns a claim writes.                                          *)
LEMMA RowUpdated ==
  ASSUME NEW r \in Rows, NEW a \in Nat, NEW g \in Nat, NEW t \in Nat, NEW d \in Nat
  PROVE  [r EXCEPT !.status = "sending", !.attempts = a, !.gen = g, !.token = t,
                   !.wait = d] \in Rows
<1> DEFINE s == [r EXCEPT !.status = "sending", !.attempts = a, !.gen = g]
<1>1. s \in Rows
  BY DEF Rows, Statuses
<1>2. [s EXCEPT !.token = t, !.wait = d] \in Rows
  <2> HIDE DEF s
  <2> QED
    BY <1>1 DEF Rows
<1> QED
  BY <1>2

(* The delay before the next attempt is a number of time units.             *)
LEMMA DelayType ==
  ASSUME NEW n \in Nat, NEW r \in Nat, n # 0
  PROVE  Delay(n, r) \in Nat
<1> DEFINE m == IF n < BackoffSteps THEN n ELSE BackoffSteps
<1>1. m \in 1..BackoffSteps
  BY OutboxConstants
<1>2. Backoff[m] \in Nat
  BY <1>1, OutboxConstants
<1> QED
  BY <1>2 DEF Delay, Larger

(* What a claim needs: a sending row was attempted, and a worker in a       *)
(* handler or closing has a message in hand.                                *)
Tried == \A i \in Ids : row[i].status = "sending" => row[i].attempts > 0
Holding == \A w \in Workers : pc[w] \in {"deliver", "close"} => cur[w] \in Leases
TInv == TypeOK /\ Tried /\ Holding

LEMMA InitTInv == Init => TInv
BY OutboxConstants DEF Init, TInv, TypeOK, Tried, Holding, NoRow, Rows, Statuses,
   Topics, Channels, Keys, NoLease, Leases, NoVerdict

USE DEF workerVars, history

LEMMA EnqueueTInv ==
  ASSUME TInv, NEW e \in Entities, EnqueueWebPush(e)
  PROVE  TInv'
<1>1. rev[e] + 1 \in Nat
  BY DEF TInv, TypeOK
<1>2. ASSUME NEW i \in Ids PROVE Amended(row[i], rev[e] + 1) \in Rows
  <2>1. row[i] \in Rows
    BY DEF TInv, TypeOK
  <2> QED
    BY <1>1, <2>1 DEF Amended, Rows
<1>3. NewRow("push", e, rev[e] + 1) \in Rows
  BY <1>1, NewRowType DEF Topics, Keys
<1>4. rev' \in [Entities -> Nat] /\ row' \in [Ids -> Rows]
  BY <1>1, <1>2, <1>3 DEF EnqueueWebPush, TInv, TypeOK, Pending, Absent
<1>5. Tried'
  <2>1. CASE Pending("push", e) # {}
    <3>1. PICK i \in Pending("push", e) : row' = [row EXCEPT ![i] = Amended(@, rev[e] + 1)]
      BY <2>1 DEF EnqueueWebPush
    <3>2. i \in Ids /\ row'[i].status = "pending"
      BY <3>1 DEF TInv, TypeOK, Amended, Pending, Rows
    <3> QED
      BY <3>1, <3>2 DEF TInv, TypeOK, Tried
  <2>2. CASE Pending("push", e) = {}
    <3>1. PICK i \in Absent : row' = [row EXCEPT ![i] = NewRow("push", e, rev[e] + 1)]
      BY <2>2 DEF EnqueueWebPush
    <3>2. i \in Ids /\ row'[i].status = "pending"
      BY <3>1 DEF TInv, TypeOK, NewRow, NoRow, Absent
    <3> QED
      BY <3>1, <3>2 DEF TInv, TypeOK, Tried
  <2> QED
    BY <2>1, <2>2
<1> QED
  BY <1>4, <1>5 DEF EnqueueWebPush, TInv, TypeOK, Holding

LEMMA UnknownTInv ==
  ASSUME TInv, EnqueueUnknown
  PROVE  TInv'
<1>1. NewRow("unknown", NoKey, 1) \in Rows
  BY NewRowType DEF Topics, Keys
<1>2. row' \in [Ids -> Rows]
  BY <1>1 DEF EnqueueUnknown, TInv, TypeOK
<1>3. Tried'
  BY DEF EnqueueUnknown, TInv, TypeOK, Tried, NewRow, NoRow, Absent, Rows
<1> QED
  BY <1>2, <1>3 DEF EnqueueUnknown, TInv, TypeOK, Holding

LEMMA StartTickTInv ==
  ASSUME TInv, NEW w \in Workers, StartTick(w)
  PROVE  TInv'
BY DEF StartTick, TInv, TypeOK, Tried, Holding

LEMMA ProduceTInv ==
  ASSUME TInv, NEW w \in Workers, Produce(w)
  PROVE  TInv'
<1>1. row' \in [Ids -> Rows] /\ Tried'
  <2>1. CASE row' = row
    BY <2>1 DEF TInv, TypeOK, Tried
  <2>2. CASE row' # row
    <3>1. PICK new \in [seen[w].fresh -> Absent] :
            row' = [i \in Ids |->
                       IF \E a \in seen[w].fresh : new[a] = i
                       THEN NewRow("alert", CHOOSE a \in seen[w].fresh : new[a] = i, 1)
                       ELSE row[i]]
      BY <2>2 DEF Produce
    <3>2. seen[w].fresh \subseteq Alerts
      BY DEF TInv, TypeOK
    <3>3. ASSUME NEW a \in Alerts PROVE NewRow("alert", a, 1) \in Rows
      BY NewRowType DEF Topics, Keys
    <3>4. ASSUME NEW i \in Ids, \E a \in seen[w].fresh : new[a] = i
          PROVE  (CHOOSE a \in seen[w].fresh : new[a] = i) \in Alerts
      BY <3>2, <3>4
    <3>5. row' \in [Ids -> Rows]
      BY <3>1, <3>3, <3>4 DEF TInv, TypeOK
    <3>6. Tried'
      BY <3>1 DEF TInv, TypeOK, Tried, NewRow, NoRow
    <3> QED
      BY <3>5, <3>6
  <2> QED
    BY <2>1, <2>2
<1>2. /\ UNCHANGED <<rev, enabled, batch, cur, left, verdict, delivered, dropped, env>>
      /\ pc' = [pc EXCEPT ![w] = "claim"] /\ seen' = [seen EXCEPT ![w].fresh = {}]
      /\ pc[w] = "produce"
  BY DEF Produce
<1>3. seen' \in [Workers -> [enabled : SUBSET Channels, fresh : SUBSET Alerts]]
  BY <1>2 DEF TInv, TypeOK
<1>4. Holding'
  BY <1>2 DEF TInv, TypeOK, Holding
<1> QED
  BY <1>1, <1>2, <1>3, <1>4 DEF TInv, TypeOK

LEMMA ClaimTInv ==
  ASSUME TInv, NEW w \in Workers, Claim(w)
  PROVE  TInv'
<1>1. ASSUME NEW i \in Ids
      PROVE  /\ Claimed(i) \in Rows /\ Claimed(i).attempts > 0
             /\ LeaseOn(i) \in Leases
  <2>1. row[i] \in Rows /\ Lease \in Nat
    BY OutboxConstants DEF TInv, TypeOK
  <2>2. Claimed(i) \in Rows
    <3>1. row[i].attempts + 1 \in Nat /\ row[i].gen + 1 \in Nat
      BY <2>1 DEF Rows
    <3> QED
      BY <2>1, <3>1, RowUpdated DEF Claimed, NextToken
  <2>3. Claimed(i).attempts > 0
    BY <2>1 DEF Claimed, Rows
  <2>4. LeaseOn(i) \in Leases
    BY <2>1 DEF LeaseOn, NextToken, Rows, Leases
  <2> QED
    BY <2>2, <2>3, <2>4
<1>2. PICK S \in SUBSET Due(w) :
        /\ row' = [i \in Ids |-> IF i \in S THEN Claimed(i) ELSE row[i]]
        /\ batch' = [batch EXCEPT ![w] = {LeaseOn(i) : i \in S}]
        /\ pc' = [pc EXCEPT ![w] = IF S = {} THEN "idle" ELSE "next"]
  BY DEF Claim
<1>3. S \subseteq Ids
  BY <1>2 DEF Due
<1>4. row' \in [Ids -> Rows]
  BY <1>1, <1>2, <1>3 DEF TInv, TypeOK
<1>5. Tried'
  BY <1>1, <1>2, <1>3 DEF TInv, TypeOK, Tried
<1>6. {LeaseOn(i) : i \in S} \in SUBSET Leases
  BY <1>1, <1>3
<1>7. batch' \in [Workers -> SUBSET Leases]
  BY <1>2, <1>6 DEF TInv, TypeOK
<1>8. pc' \in [Workers -> {"idle", "produce", "claim", "next", "deliver", "close"}] /\ Holding'
  BY <1>2 DEF TInv, TypeOK, Holding, Claim
<1> QED
  BY <1>4, <1>5, <1>7, <1>8 DEF Claim, TInv, TypeOK

LEMMA RenewTInv ==
  ASSUME TInv, NEW w \in Workers, Renew(w)
  PROVE  TInv'
<1>1. PICK l \in batch[w] :
        /\ batch' = [batch EXCEPT ![w] = batch[w] \ {l}]
        /\ \/ /\ pc' = [pc EXCEPT ![w] = EndOfRound(w, batch[w] \ {l})]
              /\ UNCHANGED <<row, cur, left, verdict, dropped>>
           \/ /\ Owns(l)
              /\ row' = [row EXCEPT ![l.id] = Renewed(@)]
              /\ cur' = [cur EXCEPT ![w] = l]
              /\ \/ /\ pc' = [pc EXCEPT ![w] = "close"]
                    /\ verdict' = [verdict EXCEPT ![w] = [NoVerdict EXCEPT !.permanent = TRUE]]
                    /\ UNCHANGED <<left, dropped>>
                 \/ /\ pc' = [pc EXCEPT ![w] = "close"]
                    /\ verdict' = [verdict EXCEPT ![w] = [NoVerdict EXCEPT !.ok = TRUE]]
                    /\ dropped' = [dropped EXCEPT ![l.id] = @ \cup {l.rev}]
                    /\ UNCHANGED left
                 \/ /\ pc' = [pc EXCEPT ![w] = "deliver"]
                    /\ left' = [left EXCEPT ![w] = HandlerTime]
                    /\ UNCHANGED <<verdict, dropped>>
  BY Zenon DEF Renew
<1>2. l \in Leases /\ l.id \in Ids /\ l.rev \in Nat
  BY DEF TInv, TypeOK, Leases
<1>3. row[l.id] \in Rows /\ Renewed(row[l.id]) \in Rows
      /\ Renewed(row[l.id]).status = row[l.id].status
      /\ Renewed(row[l.id]).attempts = row[l.id].attempts
  <2>1. row[l.id] \in Rows /\ Lease \in Nat
    BY <1>2, OutboxConstants DEF TInv, TypeOK
  <2> QED
    BY <2>1 DEF Renewed, Rows
<1>4. row' \in [Ids -> Rows] /\ Tried'
  <2>1. row' = row \/ row' = [row EXCEPT ![l.id] = Renewed(@)]
    BY <1>1
  <2>2. row' \in [Ids -> Rows]
    BY <2>1, <1>2, <1>3 DEF TInv, TypeOK
  <2>3. Tried'
    BY <2>1, <1>2, <1>3 DEF TInv, TypeOK, Tried
  <2> QED
    BY <2>2, <2>3
<1>5. verdict' \in [Workers -> [ok : BOOLEAN, permanent : BOOLEAN, retryAfter : Nat]]
  <2>1. /\ [NoVerdict EXCEPT !.permanent = TRUE] \in
             [ok : BOOLEAN, permanent : BOOLEAN, retryAfter : Nat]
        /\ [NoVerdict EXCEPT !.ok = TRUE] \in
             [ok : BOOLEAN, permanent : BOOLEAN, retryAfter : Nat]
    BY DEF NoVerdict
  <2>2. \/ verdict' = verdict
        \/ verdict' = [verdict EXCEPT ![w] = [NoVerdict EXCEPT !.permanent = TRUE]]
        \/ verdict' = [verdict EXCEPT ![w] = [NoVerdict EXCEPT !.ok = TRUE]]
    BY <1>1
  <2> QED
    BY <2>1, <2>2 DEF TInv, TypeOK
<1>6. /\ batch' \in [Workers -> SUBSET Leases]
      /\ cur' \in [Workers -> Leases \cup {NoLease}]
      /\ left' \in [Workers -> Nat]
      /\ dropped' \in [Ids -> SUBSET Nat]
  <2>1. batch' \in [Workers -> SUBSET Leases]
    BY <1>1 DEF TInv, TypeOK
  <2>2. cur' \in [Workers -> Leases \cup {NoLease}]
    BY <1>1, <1>2 DEF TInv, TypeOK
  <2>3. left' \in [Workers -> Nat]
    BY <1>1, OutboxConstants DEF TInv, TypeOK
  <2>4. dropped' = dropped \/ dropped' = [dropped EXCEPT ![l.id] = @ \cup {l.rev}]
    BY <1>1
  <2>5. dropped' \in [Ids -> SUBSET Nat]
    BY <2>4, <1>2 DEF TInv, TypeOK
  <2> QED
    BY <2>1, <2>2, <2>3, <2>5
<1>7. pc' \in [Workers -> {"idle", "produce", "claim", "next", "deliver", "close"}]
  BY <1>1 DEF TInv, TypeOK, EndOfRound
<1>8. Holding'
  BY <1>1, <1>2 DEF TInv, TypeOK, Holding, EndOfRound
<1> QED
  BY <1>4, <1>5, <1>6, <1>7, <1>8 DEF Renew, TInv, TypeOK

LEMMA HandleTInv ==
  ASSUME TInv, NEW w \in Workers, Handle(w)
  PROVE  TInv'
<1>1. cur[w] \in Leases
  BY DEF Handle, TInv, Holding
<1>2. delivered' \in [Ids -> SUBSET Nat]
  BY <1>1 DEF Handle, TInv, TypeOK, Leases
<1>3. verdict' \in [Workers -> [ok : BOOLEAN, permanent : BOOLEAN, retryAfter : Nat]]
  BY OutboxConstants DEF Handle, TInv, TypeOK
<1> QED
  BY <1>1, <1>2, <1>3 DEF Handle, TInv, TypeOK, Tried, Holding

(* Leaving a message is well-typed; what happened to the row is the         *)
(* caller's.                                                                *)
LEMMA LeaveTInv ==
  ASSUME TInv, NEW w \in Workers, NEW b \in SUBSET Leases, LeaveClose(w, b),
         row' \in [Ids -> Rows], Tried'
  PROVE  TInv'
<1>1. verdict' \in [Workers -> [ok : BOOLEAN, permanent : BOOLEAN, retryAfter : Nat]]
  BY DEF LeaveClose, TInv, TypeOK, NoVerdict
<1>2. /\ pc' \in [Workers -> {"idle", "produce", "claim", "next", "deliver", "close"}]
      /\ Holding'
  BY DEF LeaveClose, TInv, TypeOK, Holding, EndOfRound
<1> QED
  BY <1>1, <1>2 DEF LeaveClose, TInv, TypeOK

LEMMA CompleteTInv ==
  ASSUME TInv, NEW w \in Workers, Complete(w)
  PROVE  TInv'
<1>1. cur[w] \in Leases /\ cur[w].id \in Ids
  BY DEF Complete, TInv, Holding, Leases
<1>2. row[cur[w].id] \in Rows
  BY <1>1 DEF TInv, TypeOK
<1>3. [row[cur[w].id] EXCEPT !.status = "sent", !.token = 0] \in Rows
  BY <1>2 DEF Rows, Statuses
<1>4. row' = row \/ row' = [row EXCEPT ![cur[w].id] = [@ EXCEPT !.status = "sent", !.token = 0]]
  BY <1>1 DEF Complete, TInv, TypeOK
<1>5. row' \in [Ids -> Rows]
  BY <1>1, <1>3, <1>4 DEF TInv, TypeOK
<1>6. Tried'
  <2>1. CASE row' = row
    BY <2>1 DEF TInv, Tried
  <2>2. CASE row' = [row EXCEPT ![cur[w].id] = [@ EXCEPT !.status = "sent", !.token = 0]]
    <3>1. [row[cur[w].id] EXCEPT !.status = "sent", !.token = 0].status = "sent"
      BY <1>2 DEF Rows
    <3> QED
      BY <3>1, <2>2, <1>1 DEF TInv, TypeOK, Tried
  <2> QED
    BY <2>1, <2>2, <1>4
<1>7. batch[w] \in SUBSET Leases
  BY DEF TInv, TypeOK
<1> QED
  BY <1>5, <1>6, <1>7, LeaveTInv DEF Complete

LEMMA FailTInv ==
  ASSUME TInv, NEW w \in Workers, Fail(w)
  PROVE  TInv'
<1> DEFINE i == cur[w].id
<1>1. cur[w] \in Leases /\ i \in Ids
  BY DEF Fail, TInv, Holding, Leases
<1>2. row[i] \in Rows /\ verdict[w].retryAfter \in Nat
  BY <1>1 DEF TInv, TypeOK
<1>3. row' \in [Ids -> Rows] /\ Tried'
  <2>1. CASE ~Owns(cur[w])
    BY <2>1 DEF Fail, TInv, TypeOK, Tried
  <2>2. CASE Owns(cur[w]) /\ Exhausted(w)
    <3>1. row' = [row EXCEPT ![i] = [@ EXCEPT !.status = "dead", !.token = 0, !.wait = 0]]
      BY <2>2, <1>1 DEF Fail, TInv, TypeOK
    <3>2. [row[i] EXCEPT !.status = "dead", !.token = 0, !.wait = 0] \in Rows
      BY <1>2 DEF Rows, Statuses
    <3> QED
      BY <3>1, <3>2, <1>1, <1>2 DEF TInv, TypeOK, Tried, Rows
  <2>3. CASE Owns(cur[w]) /\ ~Exhausted(w)
    <3> DEFINE d == Delay(row[i].attempts, verdict[w].retryAfter)
    <3>1. row[i].attempts \in Nat /\ row[i].attempts # 0
      BY <2>3, <1>1, <1>2 DEF Owns, TInv, Tried, Rows
    <3>2. d \in Nat
      BY <3>1, <1>2, DelayType
    <3>3. row' = [row EXCEPT ![i] = [@ EXCEPT !.status = "pending", !.token = 0,
                                       !.wait = d]]
      BY <2>3, <1>1 DEF Fail, TInv, TypeOK
    <3>4. [row[i] EXCEPT !.status = "pending", !.token = 0, !.wait = d] \in Rows
      BY <3>2, <1>2 DEF Rows, Statuses
    <3> QED
      BY <3>3, <3>4, <1>1, <1>2 DEF TInv, TypeOK, Tried, Rows
  <2> QED
    BY <2>1, <2>2, <2>3
<1>4. batch[w] \in SUBSET Leases
  BY DEF TInv, TypeOK
<1> QED
  BY <1>3, <1>4, LeaveTInv DEF Fail

LEMMA FailRaisesTInv ==
  ASSUME TInv, NEW w \in Workers, FailRaises(w)
  PROVE  TInv'
<1>1. row' \in [Ids -> Rows] /\ Tried' /\ {} \in SUBSET Leases
  BY DEF FailRaises, TInv, TypeOK, Tried
<1> QED
  BY <1>1, LeaveTInv DEF FailRaises

LEMMA CrashTInv ==
  ASSUME TInv, NEW w \in Workers, Crash(w)
  PROVE  TInv'
<1>1. verdict' \in [Workers -> [ok : BOOLEAN, permanent : BOOLEAN, retryAfter : Nat]]
  BY DEF Crash, TInv, TypeOK, NoVerdict
<1>2. seen' \in [Workers -> [enabled : SUBSET Channels, fresh : SUBSET Alerts]]
  BY DEF Crash, TInv, TypeOK
<1>3. env' \in Nat
  BY DEF Crash, Budget, TInv, TypeOK
<1>4. Tried' /\ Holding'
  BY DEF Crash, TInv, TypeOK, Tried, Holding
<1> QED
  BY <1>1, <1>2, <1>3, <1>4 DEF Crash, TInv, TypeOK

LEMMA SwitchTInv ==
  ASSUME TInv, NEW c \in Channels, Switch(c)
  PROVE  TInv'
BY DEF Switch, Budget, TInv, TypeOK, Tried, Holding

LEMMA RequeueTInv ==
  ASSUME TInv, NEW i \in Ids, Requeue(i)
  PROVE  TInv'
<1>1. row[i] \in Rows
  BY DEF TInv, TypeOK
<1>2. [row[i] EXCEPT !.status = "pending", !.attempts = 0, !.wait = 0] \in Rows
  BY <1>1 DEF Rows, Statuses
<1>3. row' = [row EXCEPT ![i] = [@ EXCEPT !.status = "pending", !.attempts = 0, !.wait = 0]]
  BY DEF Requeue, TInv, TypeOK
<1>4. row' \in [Ids -> Rows] /\ Tried'
  BY <1>1, <1>2, <1>3 DEF TInv, TypeOK, Tried, Rows
<1> QED
  BY <1>4 DEF Requeue, Budget, TInv, TypeOK, Holding

LEMMA TickTInv ==
  ASSUME TInv, Tick
  PROVE  TInv'
<1>1. ASSUME NEW n \in Nat PROVE Down(n) \in Nat
  BY DEF Down
<1> DEFINE aged(i) == [row[i] EXCEPT !.wait = Down(@)]
<1>2. ASSUME NEW i \in Ids
      PROVE  /\ aged(i) \in Rows
             /\ aged(i).status = row[i].status /\ aged(i).attempts = row[i].attempts
  <2>1. row[i] \in Rows
    BY DEF TInv, TypeOK
  <2> QED
    BY <2>1, <1>1 DEF Rows
<1>3. row' = [i \in Ids |-> aged(i)]
  BY DEF Tick
<1>4. row' \in [Ids -> Rows] /\ Tried'
  <2> HIDE DEF aged
  <2> QED
    BY <1>2, <1>3 DEF TInv, Tried
<1>5. left' \in [Workers -> Nat]
  BY <1>1 DEF Tick, TInv, TypeOK
<1> QED
  BY <1>4, <1>5 DEF Tick, TInv, TypeOK, Holding

LEMMA NextTInv ==
  ASSUME TInv, [Next]_vars
  PROVE  TInv'
<1>1. CASE UNCHANGED vars
  BY <1>1 DEF vars, TInv, TypeOK, Tried, Holding
<1>2. CASE Next
  BY <1>2, EnqueueTInv, UnknownTInv, StartTickTInv, ProduceTInv, ClaimTInv, RenewTInv,
     HandleTInv, CompleteTInv, FailTInv, FailRaisesTInv, CrashTInv, SwitchTInv,
     RequeueTInv, TickTInv DEF Next, Step, WorkerStep
<1> QED
  BY <1>1, <1>2

(* Every variable keeps its type, in every behaviour of any instance.       *)
THEOREM TypeCorrect == Spec => []TypeOK
<1>1. Init => TInv
  BY InitTInv
<1>2. TInv /\ [Next]_vars => TInv'
  BY NextTInv
<1>3. TInv => TypeOK
  BY DEF TInv
<1> QED
  BY <1>1, <1>2, <1>3, PTL DEF Spec

-----------------------------------------------------------------------------
(* The lease discipline.  The token of a row in flight is the ordinal of    *)
(* its last claim, and nobody holds a token beyond that ordinal; so a claim *)
(* makes a token nobody has.                                                *)
Counted == /\ \A i \in Ids : row[i].status = "sending" => row[i].token = row[i].gen
           /\ \A i \in Ids : row[i].status = "absent" => row[i].gen = 0
           /\ \A w \in Workers : \A l \in Held(w) : l.token <= row[l.id].gen

(* A worker about to complete a message sent its content, or saw its        *)
(* channel off.                                                             *)
Vouched == \A w \in Workers : pc[w] = "close" /\ verdict[w].ok
             => cur[w].rev \in delivered[cur[w].id] \cup dropped[cur[w].id]

LInv == TInv /\ Counted /\ LeaseIsExclusive /\ Vouched /\ SentMeansDelivered

LEMMA InitLInv == Init => LInv
<1> SUFFICES ASSUME Init PROVE LInv
  OBVIOUS
<1>1. TInv
  BY InitTInv
<1>2. \A w \in Workers : Held(w) = {}
  BY DEF Init, Held
<1> QED
  BY <1>1, <1>2 DEF Init, LInv, Counted, LeaseIsExclusive, Vouched, SentMeansDelivered, NoRow

LEMMA HeldType == ASSUME TInv, NEW w \in Workers PROVE Held(w) \subseteq Leases
BY DEF TInv, TypeOK, Held

(* A step that claims nothing keeps the lease discipline: nobody holds more *)
(* than before, and a row in flight keeps its token and its content.        *)
LEMMA NothingClaimed ==
  ASSUME LInv, TInv',
         \A w \in Workers : Held(w)' \subseteq Held(w),
         \A i \in Ids : row'[i].gen = row[i].gen,
         \A i \in Ids : row'[i].status # "absent" \/ row[i].status = "absent",
         \A i \in Ids : row'[i].status = "sending"
           => /\ row[i].status = "sending"
              /\ row'[i].token = row[i].token /\ row'[i].rev = row[i].rev
  PROVE  Counted' /\ LeaseIsExclusive'
<1>1. \A w \in Workers : \A l \in Held(w)' : l \in Held(w) /\ l \in Leases /\ l.id \in Ids
  BY HeldType DEF LInv, Leases
<1>2. Counted'
  BY <1>1 DEF LInv, Counted
<1>3. LeaseIsExclusive'
  <2> SUFFICES ASSUME NEW v \in Workers, NEW w \in Workers,
                      NEW l \in Held(v)', NEW m \in Held(w)'
               PROVE  /\ l.id = m.id /\ l.token = m.token => v = w /\ l = m
                      /\ Owns(l)' => row'[l.id].rev = l.rev
    BY DEF LeaseIsExclusive
  <2>1. l \in Held(v) /\ m \in Held(w) /\ l.id \in Ids
    BY <1>1
  <2>2. Owns(l)' => Owns(l)
    BY <2>1 DEF Owns
  <2> QED
    BY <2>1, <2>2 DEF LInv, LeaseIsExclusive, Owns
<1> QED
  BY <1>2, <1>3

(* A step that completes nothing keeps the account of what was delivered.   *)
LEMMA NothingCompleted ==
  ASSUME LInv, TInv',
         \A i \in Ids : delivered[i] \subseteq delivered'[i] /\ dropped[i] \subseteq dropped'[i],
         \A i \in Ids : row'[i].status = "sent"
           => row[i].status = "sent" /\ row'[i].rev = row[i].rev,
         \A w \in Workers : pc'[w] = "close" /\ verdict'[w].ok
           => pc[w] = "close" /\ verdict[w].ok /\ cur'[w] = cur[w]
  PROVE  Vouched' /\ SentMeansDelivered'
<1>1. Vouched'
  <2> SUFFICES ASSUME NEW w \in Workers, pc'[w] = "close", verdict'[w].ok
               PROVE  cur'[w].rev \in delivered'[cur'[w].id] \cup dropped'[cur'[w].id]
    BY DEF Vouched
  <2>1. pc[w] = "close" /\ verdict[w].ok /\ cur'[w] = cur[w]
    OBVIOUS
  <2>2. cur[w].id \in Ids
    BY <2>1 DEF LInv, TInv, Holding, Leases
  <2> QED
    BY <2>1, <2>2 DEF LInv, Vouched
<1>2. SentMeansDelivered'
  BY DEF LInv, SentMeansDelivered
<1> QED
  BY <1>1, <1>2

LEMMA EnqueueLInv ==
  ASSUME LInv, NEW e \in Entities, EnqueueWebPush(e)
  PROVE  LInv'
<1>1. TInv'
  BY EnqueueTInv DEF LInv
<1>2. row \in [Ids -> Rows]
  BY DEF LInv, TInv, TypeOK
<1>3. PICK i \in Ids : /\ \A j \in Ids : j # i => row'[j] = row[j]
                       /\ row'[i].status = "pending" /\ row'[i].gen = row[i].gen
  <2>1. CASE Pending("push", e) # {}
    <3>1. PICK i \in Pending("push", e) : row' = [row EXCEPT ![i] = Amended(@, rev[e] + 1)]
      BY <2>1 DEF EnqueueWebPush
    <3>2. i \in Ids /\ row[i].status = "pending"
      BY DEF Pending
    <3>3. row'[i].status = "pending" /\ row'[i].gen = row[i].gen
      BY <1>2, <3>1, <3>2 DEF Amended, Rows
    <3> QED
      BY <1>2, <3>1, <3>2, <3>3
  <2>2. CASE Pending("push", e) = {}
    <3>1. PICK i \in Absent : row' = [row EXCEPT ![i] = NewRow("push", e, rev[e] + 1)]
      BY <2>2 DEF EnqueueWebPush
    <3>2. i \in Ids /\ row[i].gen = 0
      BY DEF Absent, LInv, Counted
    <3>3. row'[i].status = "pending" /\ row'[i].gen = 0
      BY <1>2, <3>1, <3>2 DEF NewRow, NoRow
    <3> QED
      BY <1>2, <3>1, <3>2, <3>3
  <2> QED
    BY <2>1, <2>2
<1>4. \A w \in Workers : Held(w)' = Held(w)
  BY DEF EnqueueWebPush, Held
<1>5. Counted' /\ LeaseIsExclusive'
  BY <1>1, <1>3, <1>4, NothingClaimed
<1>6. Vouched' /\ SentMeansDelivered'
  BY <1>1, <1>3, NothingCompleted DEF EnqueueWebPush
<1> QED
  BY <1>1, <1>5, <1>6 DEF LInv

LEMMA UnknownLInv ==
  ASSUME LInv, EnqueueUnknown
  PROVE  LInv'
<1>1. TInv' /\ row \in [Ids -> Rows]
  BY UnknownTInv DEF LInv, TInv, TypeOK
<1>2. PICK i \in Absent : row' = [row EXCEPT ![i] = NewRow("unknown", NoKey, 1)]
  BY DEF EnqueueUnknown
<1>3. i \in Ids /\ row[i].gen = 0
  BY DEF Absent, LInv, Counted
<1>4. /\ \A j \in Ids : j # i => row'[j] = row[j]
      /\ row'[i].status = "pending" /\ row'[i].gen = row[i].gen
  BY <1>1, <1>2, <1>3 DEF NewRow, NoRow
<1>5. \A w \in Workers : Held(w)' = Held(w)
  BY DEF EnqueueUnknown, Held
<1>6. Counted' /\ LeaseIsExclusive'
  BY <1>1, <1>3, <1>4, <1>5, NothingClaimed
<1>7. Vouched' /\ SentMeansDelivered'
  BY <1>1, <1>3, <1>4, NothingCompleted DEF EnqueueUnknown
<1> QED
  BY <1>1, <1>6, <1>7 DEF LInv

LEMMA StartTickLInv ==
  ASSUME LInv, NEW w \in Workers, StartTick(w)
  PROVE  LInv'
<1>1. TInv' /\ pc \in [Workers -> {"idle", "produce", "claim", "next", "deliver", "close"}]
  BY StartTickTInv DEF LInv, TInv, TypeOK
<1>2. \A v \in Workers : Held(v)' = Held(v)
  BY DEF StartTick, Held
<1>3. Counted' /\ LeaseIsExclusive'
  BY <1>1, <1>2, NothingClaimed DEF StartTick
<1>4. \A v \in Workers : pc'[v] = "close" => pc[v] = "close"
  BY <1>1 DEF StartTick
<1>5. Vouched' /\ SentMeansDelivered'
  BY <1>1, <1>4, NothingCompleted DEF StartTick
<1> QED
  BY <1>1, <1>3, <1>5 DEF LInv

LEMMA ProduceLInv ==
  ASSUME LInv, NEW w \in Workers, Produce(w)
  PROVE  LInv'
<1>1. /\ TInv' /\ row \in [Ids -> Rows]
      /\ pc \in [Workers -> {"idle", "produce", "claim", "next", "deliver", "close"}]
  BY ProduceTInv DEF LInv, TInv, TypeOK
<1>2. \A i \in Ids : \/ row'[i] = row[i]
                     \/ /\ row[i].gen = 0
                        /\ row'[i].gen = 0 /\ row'[i].status = "pending"
  <2>1. CASE row' = row
    BY <2>1
  <2>2. CASE row' # row
    <3>1. PICK new \in [seen[w].fresh -> Absent] :
            row' = [i \in Ids |->
                       IF \E a \in seen[w].fresh : new[a] = i
                       THEN NewRow("alert", CHOOSE a \in seen[w].fresh : new[a] = i, 1)
                       ELSE row[i]]
      BY <2>2 DEF Produce
    <3>2. ASSUME NEW i \in Ids, \E a \in seen[w].fresh : new[a] = i
          PROVE  row[i].gen = 0 /\ row'[i].gen = 0 /\ row'[i].status = "pending"
      <4>1. i \in Absent
        BY <3>2
      <4>2. row[i].gen = 0
        BY <4>1 DEF Absent, LInv, Counted
      <4>3. row'[i] = NewRow("alert", CHOOSE a \in seen[w].fresh : new[a] = i, 1)
        BY <3>1, <3>2
      <4> QED
        BY <4>2, <4>3 DEF NewRow, NoRow
    <3>3. ASSUME NEW i \in Ids, ~\E a \in seen[w].fresh : new[a] = i
          PROVE  row'[i] = row[i]
      BY <3>1, <3>3
    <3> QED
      BY <3>2, <3>3
  <2> QED
    BY <2>1, <2>2
<1>3. \A v \in Workers : Held(v)' = Held(v)
  BY DEF Produce, Held
<1>4. Counted' /\ LeaseIsExclusive'
  BY <1>1, <1>2, <1>3, NothingClaimed
<1>5. \A v \in Workers : pc'[v] = "close" => pc[v] = "close"
  BY <1>1 DEF Produce
<1>6. Vouched' /\ SentMeansDelivered'
  BY <1>1, <1>2, <1>5, NothingCompleted DEF Produce
<1> QED
  BY <1>1, <1>4, <1>6 DEF LInv

(* The step that hands out tokens: every claimed row gets the ordinal after *)
(* the largest anybody holds for it.                                        *)
LEMMA ClaimLInv ==
  ASSUME LInv, NEW w \in Workers, Claim(w)
  PROVE  LInv'
<1>1. /\ TInv' /\ row \in [Ids -> Rows] /\ batch \in [Workers -> SUBSET Leases]
      /\ pc \in [Workers -> {"idle", "produce", "claim", "next", "deliver", "close"}]
  BY ClaimTInv DEF LInv, TInv, TypeOK
<1>2. PICK S \in SUBSET Due(w) :
        /\ row' = [i \in Ids |-> IF i \in S THEN Claimed(i) ELSE row[i]]
        /\ batch' = [batch EXCEPT ![w] = {LeaseOn(i) : i \in S}]
        /\ pc' = [pc EXCEPT ![w] = IF S = {} THEN "idle" ELSE "next"]
  BY DEF Claim
<1>3. S \subseteq Ids /\ \A i \in S : row[i].status \in {"pending", "sending"}
  BY <1>2 DEF Due
<1>4. ASSUME NEW i \in S
      PROVE  /\ row'[i].status = "sending" /\ row'[i].rev = row[i].rev
             /\ row'[i].token = row[i].gen + 1 /\ row'[i].gen = row[i].gen + 1
             /\ row[i].gen \in Nat
  <2>1. row[i] \in Rows /\ row'[i] = Claimed(i)
    BY <1>1, <1>2, <1>3
  <2> QED
    BY <2>1 DEF Claimed, NextToken, Rows
<1>5. ASSUME NEW i \in Ids \ S PROVE row'[i] = row[i]
  BY <1>2
<1>6. ASSUME NEW v \in Workers, NEW l \in Held(v)'
      PROVE  \/ /\ l \in Held(v) /\ l \in Leases /\ l.token <= row[l.id].gen
             \/ v = w /\ \E i \in S : l = LeaseOn(i)
  <2>1. l \in Held(v) \/ (v = w /\ \E i \in S : l = LeaseOn(i))
    BY <1>1, <1>2 DEF Claim, Held
  <2>2. l \in Held(v) => l \in Leases /\ l.token <= row[l.id].gen
    BY HeldType DEF LInv, Counted
  <2> QED
    BY <2>1, <2>2
<1>7. ASSUME NEW i \in S
      PROVE  /\ LeaseOn(i).id = i /\ LeaseOn(i).rev = row[i].rev
             /\ LeaseOn(i).token = row[i].gen + 1
  BY DEF LeaseOn, NextToken
<1>8. Counted'
  <2>1. \A i \in Ids : row'[i].status = "sending" => row'[i].token = row'[i].gen
    BY <1>4, <1>5 DEF LInv, Counted
  <2>2. \A i \in Ids : row'[i].status = "absent" => row'[i].gen = 0
    BY <1>4, <1>5 DEF LInv, Counted
  <2>3. ASSUME NEW v \in Workers, NEW l \in Held(v)' PROVE l.token <= row'[l.id].gen
    <3>1. CASE l \in Held(v) /\ l \in Leases /\ l.token <= row[l.id].gen
      <4>1. l.id \in Ids /\ l.token \in Nat
        BY <3>1 DEF Leases
      <4> QED
        BY <3>1, <4>1, <1>4, <1>5
    <3>2. CASE \E i \in S : l = LeaseOn(i)
      BY <3>2, <1>4, <1>7
    <3> QED
      BY <1>6, <3>1, <3>2
  <2> QED
    BY <2>1, <2>2, <2>3 DEF Counted
<1>9. LeaseIsExclusive'
  <2>1. ASSUME NEW v \in Workers, NEW l \in Held(v)', Owns(l)'
        PROVE  row'[l.id].rev = l.rev
    <3>1. CASE l \in Held(v) /\ l \in Leases /\ l.token <= row[l.id].gen
      <4>1. l.id \in Ids /\ l.token \in Nat
        BY <3>1 DEF Leases
      <4>2. l.id \notin S
        BY <2>1, <3>1, <4>1, <1>4 DEF Owns
      <4>3. Owns(l) /\ row'[l.id] = row[l.id]
        BY <2>1, <4>1, <4>2, <1>5 DEF Owns
      <4> QED
        BY <3>1, <4>3 DEF LInv, LeaseIsExclusive
    <3>2. CASE \E i \in S : l = LeaseOn(i)
      BY <3>2, <1>4, <1>7
    <3> QED
      BY <1>6, <3>1, <3>2
  <2>2. ASSUME NEW v \in Workers, NEW u \in Workers, NEW l \in Held(v)', NEW m \in Held(u)',
               l.id = m.id, l.token = m.token
        PROVE  v = u /\ l = m
    <3>1. CASE l \in Held(v) /\ m \in Held(u)
      BY <2>2, <3>1 DEF LInv, LeaseIsExclusive
    <3>2. CASE v = w /\ u = w /\ (\E i \in S : l = LeaseOn(i)) /\ (\E i \in S : m = LeaseOn(i))
      BY <2>2, <3>2, <1>7
    <3>3. CASE l \in Leases /\ l.token <= row[l.id].gen /\ (\E i \in S : m = LeaseOn(i))
      <4>1. PICK i \in S : m = LeaseOn(i)
        BY <3>3
      <4>2. l.id = i /\ l.token = row[i].gen + 1 /\ l.token <= row[i].gen /\ row[i].gen \in Nat
        BY <2>2, <3>3, <4>1, <1>4, <1>7
      <4> QED
        BY <4>2
    <3>4. CASE m \in Leases /\ m.token <= row[m.id].gen /\ (\E i \in S : l = LeaseOn(i))
      <4>1. PICK i \in S : l = LeaseOn(i)
        BY <3>4
      <4>2. m.id = i /\ m.token = row[i].gen + 1 /\ m.token <= row[i].gen /\ row[i].gen \in Nat
        BY <2>2, <3>4, <4>1, <1>4, <1>7
      <4> QED
        BY <4>2
    <3> QED
      BY <1>6, <3>1, <3>2, <3>3, <3>4
  <2> QED
    BY <2>1, <2>2, Zenon DEF LeaseIsExclusive
<1>10. \A v \in Workers : pc'[v] = "close" => pc[v] = "close"
  BY <1>1, <1>2
<1>11. \A i \in Ids : row'[i].status = "sent" => row'[i] = row[i]
  BY <1>4, <1>5
<1>12. Vouched' /\ SentMeansDelivered'
  BY <1>1, <1>10, <1>11, NothingCompleted DEF Claim
<1> QED
  BY <1>1, <1>8, <1>9, <1>12 DEF LInv

LEMMA RenewLInv ==
  ASSUME LInv, NEW w \in Workers, Renew(w)
  PROVE  LInv'
<1>1. /\ TInv' /\ row \in [Ids -> Rows] /\ batch \in [Workers -> SUBSET Leases]
      /\ cur \in [Workers -> Leases \cup {NoLease}] /\ dropped \in [Ids -> SUBSET Nat]
      /\ pc \in [Workers -> {"idle", "produce", "claim", "next", "deliver", "close"}]
      /\ verdict \in [Workers -> [ok : BOOLEAN, permanent : BOOLEAN, retryAfter : Nat]]
  BY RenewTInv DEF LInv, TInv, TypeOK
<1>2. PICK l \in batch[w] :
        /\ batch' = [batch EXCEPT ![w] = batch[w] \ {l}]
        /\ \/ /\ pc' = [pc EXCEPT ![w] = EndOfRound(w, batch[w] \ {l})]
              /\ UNCHANGED <<row, cur, left, verdict, dropped>>
           \/ /\ Owns(l)
              /\ row' = [row EXCEPT ![l.id] = Renewed(@)]
              /\ cur' = [cur EXCEPT ![w] = l]
              /\ \/ /\ pc' = [pc EXCEPT ![w] = "close"]
                    /\ verdict' = [verdict EXCEPT ![w] = [NoVerdict EXCEPT !.permanent = TRUE]]
                    /\ UNCHANGED <<left, dropped>>
                 \/ /\ pc' = [pc EXCEPT ![w] = "close"]
                    /\ verdict' = [verdict EXCEPT ![w] = [NoVerdict EXCEPT !.ok = TRUE]]
                    /\ dropped' = [dropped EXCEPT ![l.id] = @ \cup {l.rev}]
                    /\ UNCHANGED left
                 \/ /\ pc' = [pc EXCEPT ![w] = "deliver"]
                    /\ left' = [left EXCEPT ![w] = HandlerTime]
                    /\ UNCHANGED <<verdict, dropped>>
  BY Zenon DEF Renew
<1>3. l \in Leases /\ l.id \in Ids /\ l \in Held(w)
  BY <1>1, <1>2 DEF Leases, Held, NoLease
<1>4. \A i \in Ids : /\ row'[i].status = row[i].status /\ row'[i].rev = row[i].rev
                     /\ row'[i].token = row[i].token /\ row'[i].gen = row[i].gen
  <2>1. row' = row \/ row' = [row EXCEPT ![l.id] = Renewed(@)]
    BY <1>2
  <2>2. ASSUME NEW i \in Ids
        PROVE  /\ Renewed(row[i]).status = row[i].status /\ Renewed(row[i]).rev = row[i].rev
               /\ Renewed(row[i]).token = row[i].token /\ Renewed(row[i]).gen = row[i].gen
    <3>1. row[i] \in Rows
      BY <1>1
    <3> QED
      BY <3>1 DEF Renewed, Rows
  <2> QED
    BY <2>1, <2>2, <1>1, <1>3
<1>5. \A v \in Workers : Held(v)' \subseteq Held(v)
  <2>1. cur' = cur \/ cur' = [cur EXCEPT ![w] = l]
    BY <1>2
  <2> QED
    BY <2>1, <1>1, <1>2, <1>3 DEF Held
<1>6. Counted' /\ LeaseIsExclusive'
  BY <1>1, <1>4, <1>5, NothingClaimed
<1>7. SentMeansDelivered'
  <2>1. \A i \in Ids : delivered[i] \subseteq delivered'[i] /\ dropped[i] \subseteq dropped'[i]
    <3>1. dropped' = dropped \/ dropped' = [dropped EXCEPT ![l.id] = @ \cup {l.rev}]
      BY <1>2
    <3> QED
      BY <3>1, <1>1 DEF Renew
  <2> QED
    BY <2>1, <1>4 DEF LInv, SentMeansDelivered
<1>8. Vouched'
  <2>1. CASE pc' = [pc EXCEPT ![w] = EndOfRound(w, batch[w] \ {l})]
             /\ UNCHANGED <<row, cur, left, verdict, dropped>>
    <3>1. \A v \in Workers : pc'[v] = "close" => pc[v] = "close"
      BY <2>1, <1>1 DEF EndOfRound
    <3> QED
      BY <3>1, <2>1 DEF Renew, LInv, Vouched
  <2>2. CASE /\ cur' = [cur EXCEPT ![w] = l] /\ pc' = [pc EXCEPT ![w] = "close"]
             /\ verdict' = [verdict EXCEPT ![w] = [NoVerdict EXCEPT !.permanent = TRUE]]
             /\ UNCHANGED dropped
    <3>1. ~verdict'[w].ok
      BY <2>2, <1>1 DEF NoVerdict
    <3>2. \A v \in Workers : v # w =>
            cur'[v] = cur[v] /\ pc'[v] = pc[v] /\ verdict'[v] = verdict[v]
      BY <2>2, <1>1
    <3> QED
      BY <3>1, <3>2, <2>2 DEF Renew, LInv, Vouched
  <2>3. CASE /\ cur' = [cur EXCEPT ![w] = l] /\ pc' = [pc EXCEPT ![w] = "close"]
             /\ verdict' = [verdict EXCEPT ![w] = [NoVerdict EXCEPT !.ok = TRUE]]
             /\ dropped' = [dropped EXCEPT ![l.id] = @ \cup {l.rev}]
    <3>1. cur'[w].rev \in dropped'[cur'[w].id]
      BY <2>3, <1>1, <1>3
    <3>2. ASSUME NEW v \in Workers, v # w, pc'[v] = "close", verdict'[v].ok
          PROVE  cur'[v].rev \in delivered'[cur'[v].id] \cup dropped'[cur'[v].id]
      <4>1. cur'[v] = cur[v] /\ pc[v] = "close" /\ verdict[v].ok
        BY <2>3, <3>2, <1>1
      <4>2. cur[v].id \in Ids
        BY <4>1 DEF LInv, TInv, Holding, Leases
      <4>3. cur[v].rev \in delivered[cur[v].id] \cup dropped[cur[v].id]
        BY <4>1 DEF LInv, Vouched
      <4>4. dropped[cur[v].id] \subseteq dropped'[cur[v].id] /\ delivered' = delivered
        BY <4>2, <2>3, <1>1 DEF Renew
      <4> QED
        BY <4>1, <4>3, <4>4
    <3> QED
      BY <3>1, <3>2 DEF Vouched
  <2>4. CASE /\ cur' = [cur EXCEPT ![w] = l] /\ pc' = [pc EXCEPT ![w] = "deliver"]
             /\ UNCHANGED <<verdict, dropped>>
    <3>1. \A v \in Workers : pc'[v] = "close" => v # w /\ pc[v] = "close" /\ cur'[v] = cur[v]
      BY <2>4, <1>1
    <3> QED
      BY <3>1, <2>4 DEF Renew, LInv, Vouched
  <2> QED
    BY <1>2, <2>1, <2>2, <2>3, <2>4
<1> QED
  BY <1>1, <1>6, <1>7, <1>8 DEF LInv

LEMMA HandleLInv ==
  ASSUME LInv, NEW w \in Workers, Handle(w)
  PROVE  LInv'
<1>1. /\ TInv' /\ delivered \in [Ids -> SUBSET Nat] /\ cur[w] \in Leases /\ cur[w].id \in Ids
      /\ pc \in [Workers -> {"idle", "produce", "claim", "next", "deliver", "close"}]
      /\ verdict \in [Workers -> [ok : BOOLEAN, permanent : BOOLEAN, retryAfter : Nat]]
  BY HandleTInv DEF LInv, TInv, TypeOK, Handle, Holding, Leases
<1>2. PICK ok \in BOOLEAN, reached \in BOOLEAN, permanent \in BOOLEAN, r \in RetryAfters :
       /\ ok => reached
       /\ verdict' = [verdict EXCEPT ![w] =
                        [ok |-> ok, permanent |-> permanent, retryAfter |-> r]]
       /\ delivered' = IF reached
                       THEN [delivered EXCEPT ![cur[w].id] = @ \cup {cur[w].rev}]
                       ELSE delivered
  BY DEF Handle
<1>3. \A v \in Workers : Held(v)' = Held(v)
  BY DEF Handle, Held
<1>4. Counted' /\ LeaseIsExclusive'
  BY <1>1, <1>3, NothingClaimed DEF Handle
<1>5. \A i \in Ids : delivered[i] \subseteq delivered'[i]
  BY <1>1, <1>2
<1>6. SentMeansDelivered'
  BY <1>5 DEF Handle, LInv, SentMeansDelivered
<1>7. Vouched'
  <2>1. ASSUME NEW v \in Workers, v # w, pc'[v] = "close", verdict'[v].ok
        PROVE  cur'[v].rev \in delivered'[cur'[v].id] \cup dropped'[cur'[v].id]
    <3>1. cur'[v] = cur[v] /\ pc[v] = "close" /\ verdict[v].ok
      BY <2>1, <1>1, <1>2 DEF Handle
    <3>2. cur[v].id \in Ids /\ cur[v].rev \in delivered[cur[v].id] \cup dropped[cur[v].id]
      BY <3>1 DEF LInv, TInv, Holding, Leases, Vouched
    <3> QED
      BY <3>1, <3>2, <1>5 DEF Handle
  <2>2. verdict'[w].ok => cur'[w].rev \in delivered'[cur'[w].id]
    <3>1. verdict'[w].ok => reached
      BY <1>1, <1>2
    <3> QED
      BY <3>1, <1>1, <1>2 DEF Handle
  <2> QED
    BY <2>1, <2>2 DEF Vouched
<1> QED
  BY <1>1, <1>4, <1>6, <1>7 DEF LInv

(* What leaving a message does to the worker's hands.                       *)
LEMMA Left ==
  ASSUME LInv, NEW w \in Workers, NEW b \in SUBSET batch[w], LeaveClose(w, b)
  PROVE  /\ \A v \in Workers : Held(v)' \subseteq Held(v)
         /\ \A v \in Workers : pc'[v] = "close" => pc[v] = "close" /\ cur'[v] = cur[v]
                                                   /\ verdict'[v] = verdict[v]
         /\ \A i \in Ids : delivered'[i] = delivered[i] /\ dropped'[i] = dropped[i]
<1>1. /\ batch \in [Workers -> SUBSET Leases] /\ cur \in [Workers -> Leases \cup {NoLease}]
      /\ pc \in [Workers -> {"idle", "produce", "claim", "next", "deliver", "close"}]
      /\ verdict \in [Workers -> [ok : BOOLEAN, permanent : BOOLEAN, retryAfter : Nat]]
  BY DEF LInv, TInv, TypeOK
<1>2. \A v \in Workers : Held(v)' \subseteq Held(v)
  BY <1>1 DEF LeaveClose, Held
<1>3. \A v \in Workers : pc'[v] = "close" => v # w
  BY <1>1 DEF LeaveClose, EndOfRound
<1> QED
  BY <1>1, <1>2, <1>3 DEF LeaveClose

LEMMA CompleteLInv ==
  ASSUME LInv, NEW w \in Workers, Complete(w)
  PROVE  LInv'
<1> DEFINE i == cur[w].id
<1>1. TInv' /\ row \in [Ids -> Rows] /\ cur[w] \in Leases /\ i \in Ids
  BY CompleteTInv DEF LInv, TInv, TypeOK, Complete, Holding, Leases
<1>2. LeaveClose(w, batch[w])
  BY DEF Complete
<1>3. /\ \A j \in Ids : j # i => row'[j] = row[j]
      /\ row'[i].gen = row[i].gen /\ row'[i].rev = row[i].rev
      /\ row'[i] = row[i] \/ (row'[i].status = "sent" /\ Owns(cur[w]))
  <2>1. row[i] \in Rows
    BY <1>1
  <2>2. /\ [row[i] EXCEPT !.status = "sent", !.token = 0].gen = row[i].gen
        /\ [row[i] EXCEPT !.status = "sent", !.token = 0].rev = row[i].rev
        /\ [row[i] EXCEPT !.status = "sent", !.token = 0].status = "sent"
    BY <2>1 DEF Rows
  <2>3. \/ row' = row
        \/ Owns(cur[w]) /\ row' = [row EXCEPT ![i] = [@ EXCEPT !.status = "sent", !.token = 0]]
    BY <1>1 DEF Complete
  <2> QED
    BY <2>2, <2>3, <1>1
<1>4. Counted' /\ LeaseIsExclusive'
  BY <1>1, <1>2, <1>3, Left, NothingClaimed
<1>5. Vouched'
  <2> SUFFICES ASSUME NEW v \in Workers, pc'[v] = "close", verdict'[v].ok
               PROVE  cur'[v].rev \in delivered'[cur'[v].id] \cup dropped'[cur'[v].id]
    BY DEF Vouched
  <2>1. pc[v] = "close" /\ cur'[v] = cur[v] /\ verdict'[v] = verdict[v] /\ cur[v].id \in Ids
    BY <1>2, Left DEF LInv, TInv, Holding, Leases
  <2> QED
    BY <2>1, <1>2, Left DEF LInv, Vouched
<1>6. SentMeansDelivered'
  <2>1. row'[i].status = "sent" => row'[i].rev \in delivered'[i] \cup dropped'[i]
    <3>1. CASE row'[i] = row[i]
      BY <3>1, <1>1, <1>2, Left DEF LInv, SentMeansDelivered
    <3>2. CASE Owns(cur[w])
      <4>1. cur[w] \in Held(w)
        BY <1>1, OutboxConstants DEF Held, NoLease, NoKey
      <4>2. row[i].rev = cur[w].rev
        BY <3>2, <4>1 DEF LInv, LeaseIsExclusive
      <4>3. cur[w].rev \in delivered[i] \cup dropped[i]
        BY DEF Complete, LInv, Vouched
      <4> QED
        BY <4>2, <4>3, <1>1, <1>2, <1>3, Left
    <3> QED
      BY <1>3, <3>1, <3>2
  <2> QED
    BY <2>1, <1>2, <1>3, Left DEF LInv, SentMeansDelivered
<1> QED
  BY <1>1, <1>4, <1>5, <1>6 DEF LInv

LEMMA FailLInv ==
  ASSUME LInv, NEW w \in Workers, Fail(w)
  PROVE  LInv'
<1> DEFINE i == cur[w].id
<1>1. TInv' /\ row \in [Ids -> Rows] /\ i \in Ids
  BY FailTInv DEF LInv, TInv, TypeOK, Fail, Holding, Leases
<1>2. LeaveClose(w, batch[w])
  BY DEF Fail
<1>3. /\ \A j \in Ids : j # i => row'[j] = row[j]
      /\ row'[i].gen = row[i].gen
      /\ row'[i] = row[i] \/ row'[i].status \in {"pending", "dead"}
  <2>1. row[i] \in Rows
    BY <1>1
  <2> DEFINE r == verdict[w].retryAfter
             d == Delay(row[i].attempts, r)
  <2>2. /\ [row[i] EXCEPT !.status = "dead", !.token = 0, !.wait = 0].gen = row[i].gen
        /\ [row[i] EXCEPT !.status = "dead", !.token = 0, !.wait = 0].status = "dead"
    BY <2>1 DEF Rows
  <2>3. /\ [row[i] EXCEPT !.status = "pending", !.token = 0, !.wait = d].gen
             = row[i].gen
        /\ [row[i] EXCEPT !.status = "pending", !.token = 0, !.wait = d].status
             = "pending"
    <3> HIDE DEF r, d
    <3> QED
      BY <2>1 DEF Rows
  <2>4. \/ row' = row
        \/ row' = [row EXCEPT ![i] = [@ EXCEPT !.status = "dead", !.token = 0, !.wait = 0]]
        \/ row' = [row EXCEPT ![i] = [@ EXCEPT !.status = "pending", !.token = 0,
                                                !.wait = d]]
    BY <1>1 DEF Fail
  <2> HIDE DEF r, d
  <2> QED
    BY <2>2, <2>3, <2>4, <1>1
<1>4. Counted' /\ LeaseIsExclusive'
  BY <1>1, <1>2, <1>3, Left, NothingClaimed
<1>5. Vouched' /\ SentMeansDelivered'
  BY <1>1, <1>2, <1>3, Left, NothingCompleted
<1> QED
  BY <1>1, <1>4, <1>5 DEF LInv

LEMMA FailRaisesLInv ==
  ASSUME LInv, NEW w \in Workers, FailRaises(w)
  PROVE  LInv'
<1>1. TInv' /\ LeaveClose(w, {}) /\ row' = row /\ {} \in SUBSET batch[w]
  BY FailRaisesTInv DEF LInv, FailRaises
<1>2. Counted' /\ LeaseIsExclusive'
  BY <1>1, Left, NothingClaimed
<1>3. Vouched' /\ SentMeansDelivered'
  BY <1>1, Left, NothingCompleted
<1> QED
  BY <1>1, <1>2, <1>3 DEF LInv

LEMMA CrashLInv ==
  ASSUME LInv, NEW w \in Workers, Crash(w)
  PROVE  LInv'
<1>1. /\ TInv' /\ batch \in [Workers -> SUBSET Leases] /\ cur \in [Workers -> Leases \cup {NoLease}]
      /\ pc \in [Workers -> {"idle", "produce", "claim", "next", "deliver", "close"}]
      /\ verdict \in [Workers -> [ok : BOOLEAN, permanent : BOOLEAN, retryAfter : Nat]]
  BY CrashTInv DEF LInv, TInv, TypeOK
<1>2. \A v \in Workers : Held(v)' \subseteq Held(v)
  BY <1>1 DEF Crash, Held
<1>3. Counted' /\ LeaseIsExclusive'
  BY <1>1, <1>2, NothingClaimed DEF Crash
<1>4. \A v \in Workers : pc'[v] = "close" => /\ pc[v] = "close" /\ cur'[v] = cur[v]
                                             /\ verdict'[v] = verdict[v]
  BY <1>1 DEF Crash
<1>5. Vouched' /\ SentMeansDelivered'
  BY <1>1, <1>4, NothingCompleted DEF Crash
<1> QED
  BY <1>1, <1>3, <1>5 DEF LInv

LEMMA SwitchLInv ==
  ASSUME LInv, NEW c \in Channels, Switch(c)
  PROVE  LInv'
<1>1. TInv' /\ \A v \in Workers : Held(v)' = Held(v)
  BY SwitchTInv DEF LInv, Switch, Held
<1>2. Counted' /\ LeaseIsExclusive'
  BY <1>1, NothingClaimed DEF Switch
<1>3. Vouched' /\ SentMeansDelivered'
  BY <1>1, NothingCompleted DEF Switch
<1> QED
  BY <1>1, <1>2, <1>3 DEF LInv

LEMMA RequeueLInv ==
  ASSUME LInv, NEW i \in Ids, Requeue(i)
  PROVE  LInv'
<1>1. TInv' /\ row \in [Ids -> Rows] /\ \A v \in Workers : Held(v)' = Held(v)
  BY RequeueTInv DEF LInv, TInv, TypeOK, Requeue, Held
<1>2. /\ \A j \in Ids : j # i => row'[j] = row[j]
      /\ row'[i].gen = row[i].gen /\ row'[i].status = "pending"
  <2>1. row[i] \in Rows
    BY <1>1
  <2>2. /\ [row[i] EXCEPT !.status = "pending", !.attempts = 0, !.wait = 0].gen = row[i].gen
        /\ [row[i] EXCEPT !.status = "pending", !.attempts = 0, !.wait = 0].status = "pending"
    BY <2>1 DEF Rows
  <2>3. row' = [row EXCEPT ![i] = [@ EXCEPT !.status = "pending", !.attempts = 0, !.wait = 0]]
    BY <1>1 DEF Requeue
  <2> QED
    BY <2>2, <2>3, <1>1
<1>3. Counted' /\ LeaseIsExclusive'
  BY <1>1, <1>2, NothingClaimed
<1>4. Vouched' /\ SentMeansDelivered'
  BY <1>1, <1>2, NothingCompleted DEF Requeue
<1> QED
  BY <1>1, <1>3, <1>4 DEF LInv

LEMMA TickLInv ==
  ASSUME LInv, Tick
  PROVE  LInv'
<1>1. TInv' /\ \A v \in Workers : Held(v)' = Held(v)
  BY TickTInv DEF LInv, Tick, Held
<1>2. \A i \in Ids : /\ row'[i].gen = row[i].gen /\ row'[i].status = row[i].status
                     /\ row'[i].token = row[i].token /\ row'[i].rev = row[i].rev
  <2> SUFFICES ASSUME NEW i \in Ids
               PROVE  /\ row'[i].gen = row[i].gen /\ row'[i].status = row[i].status
                      /\ row'[i].token = row[i].token /\ row'[i].rev = row[i].rev
    OBVIOUS
  <2>1. row[i] \in Rows /\ row'[i] = [row[i] EXCEPT !.wait = Down(@)]
    BY DEF Tick, LInv, TInv, TypeOK
  <2> QED
    BY <2>1 DEF Rows
<1>3. Counted' /\ LeaseIsExclusive'
  BY <1>1, <1>2, NothingClaimed
<1>4. Vouched' /\ SentMeansDelivered'
  BY <1>1, <1>2, NothingCompleted DEF Tick
<1> QED
  BY <1>1, <1>3, <1>4 DEF LInv

LEMMA NextLInv ==
  ASSUME LInv, [Next]_vars
  PROVE  LInv'
<1>1. CASE UNCHANGED vars
  <2>1. TInv' /\ \A v \in Workers : Held(v)' = Held(v)
    BY <1>1, NextTInv DEF LInv, vars, Held
  <2>2. Counted' /\ LeaseIsExclusive'
    BY <1>1, <2>1, NothingClaimed DEF vars
  <2>3. Vouched' /\ SentMeansDelivered'
    BY <1>1, <2>1, NothingCompleted DEF vars
  <2> QED
    BY <2>1, <2>2, <2>3 DEF LInv
<1>2. CASE Next
  BY <1>2, EnqueueLInv, UnknownLInv, StartTickLInv, ProduceLInv, ClaimLInv, RenewLInv,
     HandleLInv, CompleteLInv, FailLInv, FailRaisesLInv, CrashLInv, SwitchLInv,
     RequeueLInv, TickLInv DEF Next, Step, WorkerStep
<1> QED
  BY <1>1, <1>2

LEMMA LeaseInvariant == Spec => []LInv
<1>1. Init => LInv
  BY InitLInv
<1>2. LInv /\ [Next]_vars => LInv'
  BY NextLInv
<1> QED
  BY <1>1, <1>2, PTL DEF Spec

(* A claim token never has two holders, and whoever owns a row holds its    *)
(* present content: for any number of workers, whatever crashes, expires    *)
(* and is requeued.                                                         *)
THEOREM TokenProtects == Spec => []LeaseIsExclusive
<1>1. LInv => LeaseIsExclusive
  BY DEF LInv
<1> QED
  BY <1>1, LeaseInvariant, PTL

(* Every message marked sent was delivered with the content it holds, or    *)
(* dropped with its channel.                                                *)
THEOREM NothingSentIsLost == Spec => []SentMeansDelivered
<1>1. LInv => SentMeansDelivered
  BY DEF LInv
<1> QED
  BY <1>1, LeaseInvariant, PTL

(* A worker whose lease was taken over never takes a message out of         *)
(* 'sending'.                                                               *)
LEMMA OwnerOnly ==
  ASSUME LInv, Next, NEW i \in Ids, row[i].status = "sending", row'[i].status # "sending"
  PROVE  \E w \in Workers : /\ pc[w] = "close" /\ pc'[w] # "close"
                            /\ cur[w].id = i /\ cur[w].token = row[i].token
<1>1. row \in [Ids -> Rows] /\ row[i] \in Rows
      /\ pc \in [Workers -> {"idle", "produce", "claim", "next", "deliver", "close"}]
  BY DEF LInv, TInv, TypeOK
<1>2. CASE \E w \in Workers : Complete(w) \/ Fail(w)
  <2>1. PICK w \in Workers : Complete(w) \/ Fail(w)
    BY <1>2
  <2>2. pc[w] = "close" /\ pc'[w] # "close"
    BY <2>1, <1>1 DEF Complete, Fail, LeaveClose, EndOfRound
  <2>3. Owns(cur[w]) /\ cur[w].id = i
    BY <2>1, <1>1 DEF Complete, Fail
  <2> QED
    BY <2>2, <2>3 DEF Owns
<1>3. CASE \E e \in Entities : EnqueueWebPush(e)
  BY <1>1, <1>3 DEF EnqueueWebPush, Pending, Absent
<1>4. CASE EnqueueUnknown
  BY <1>1, <1>4 DEF EnqueueUnknown, Absent
<1>5. CASE \E w \in Workers : Produce(w)
  <2>1. PICK w \in Workers : Produce(w)
    BY <1>5
  <2>2. row' # row
    OBVIOUS
  <2>3. PICK new \in [seen[w].fresh -> Absent] :
          row' = [j \in Ids |->
                     IF \E a \in seen[w].fresh : new[a] = j
                     THEN NewRow("alert", CHOOSE a \in seen[w].fresh : new[a] = j, 1)
                     ELSE row[j]]
    BY <2>1, <2>2 DEF Produce
  <2>4. i \notin Absent
    BY DEF Absent
  <2> QED
    BY <2>3, <2>4
<1>6. CASE \E w \in Workers : Claim(w)
  <2>1. PICK w \in Workers : Claim(w)
    BY <1>6
  <2>2. Claimed(i).status = "sending"
    BY <1>1 DEF Claimed, Rows
  <2>3. row'[i] = Claimed(i) \/ row'[i] = row[i]
    BY <2>1 DEF Claim
  <2> QED
    BY <2>2, <2>3
<1>7. CASE \E w \in Workers : Renew(w)
  <2>1. PICK w \in Workers : Renew(w)
    BY <1>7
  <2>2. row' = row \/ \E l \in batch[w] : row' = [row EXCEPT ![l.id] = Renewed(@)]
    BY <2>1, Zenon DEF Renew
  <2>3. Renewed(row[i]).status = "sending"
    BY <1>1 DEF Renewed, Rows
  <2> QED
    BY <2>2, <2>3, <1>1
<1>8. CASE \E j \in Ids : Requeue(j)
  BY <1>1, <1>8 DEF Requeue, Requeueable
<1>9. CASE Tick
  BY <1>1, <1>9 DEF Tick, Rows
<1>10. CASE \/ \E w \in Workers : StartTick(w) \/ Handle(w) \/ FailRaises(w) \/ Crash(w)
            \/ \E c \in Channels : Switch(c)
  BY <1>10 DEF StartTick, Handle, FailRaises, Crash, Switch
<1> QED
  BY <1>2, <1>3, <1>4, <1>5, <1>6, <1>7, <1>8, <1>9, <1>10 DEF Next, Step, WorkerStep

(* No worker whose lease went to another closes a message: what leaves       *)
(* 'sending' is closed by the holder of its present token (100:184-242).      *)
THEOREM StaleOwnerHarmless == Spec => StaleOwnerChangesNothing
<1>1. LInv /\ [Next]_vars =>
        [\A i \in Ids : row[i].status = "sending" /\ row'[i].status # "sending"
           => \E w \in Workers : /\ pc[w] = "close" /\ pc'[w] # "close"
                                 /\ cur[w].id = i /\ cur[w].token = row[i].token]_vars
  BY OwnerOnly
<1> QED
  BY <1>1, LeaseInvariant, PTL DEF Spec, StaleOwnerChangesNothing

-----------------------------------------------------------------------------
(* What each step does to the rows, and to nothing else of them.            *)

(* A message keeps what it asks to deliver.                                 *)
Kept(i) == /\ row'[i].topic = row[i].topic /\ row'[i].key = row[i].key
           /\ row'[i].rev = row[i].rev

(* Nobody touches the row of i except to keep or change it in hand.         *)
OthersSame(i) == \A j \in Ids : j # i => row'[j] = row[j]

LEMMA NewRowFields ==
  ASSUME NEW t, NEW k, NEW n
  PROVE  /\ NewRow(t, k, n).status = "pending" /\ NewRow(t, k, n).topic = t
         /\ NewRow(t, k, n).key = k /\ NewRow(t, k, n).rev = n
BY DEF NewRow, NoRow

LEMMA EnqueueShape ==
  ASSUME TInv, NEW e \in Entities, EnqueueWebPush(e)
  PROVE  \E i \in Ids :
           /\ OthersSame(i)
           /\ row'[i].status = "pending" /\ row'[i].topic = "push"
           /\ row'[i].key = e /\ row'[i].rev = rev[e] + 1
           /\ \/ row[i].status = "absent"
              \/ /\ row[i].status = "pending" /\ row[i].topic = "push"
                 /\ row[i].key = e
<1>1. row \in [Ids -> Rows]
  BY DEF TInv, TypeOK
<1>2. CASE Pending("push", e) # {}
  <2>1. PICK i \in Pending("push", e) : row' = [row EXCEPT ![i] = Amended(@, rev[e] + 1)]
    BY <1>2 DEF EnqueueWebPush
  <2>2. /\ i \in Ids /\ row[i] \in Rows /\ row[i].status = "pending"
        /\ row[i].topic = "push" /\ row[i].key = e
    BY <1>1 DEF Pending
  <2>3. row'[i] = Amended(row[i], rev[e] + 1) /\ OthersSame(i)
    BY <1>1, <2>1, <2>2 DEF OthersSame
  <2> QED
    BY <2>2, <2>3 DEF Amended, Rows
<1>3. CASE Pending("push", e) = {}
  <2>1. PICK i \in Absent : row' = [row EXCEPT ![i] = NewRow("push", e, rev[e] + 1)]
    BY <1>3 DEF EnqueueWebPush
  <2>2. i \in Ids /\ row[i].status = "absent"
    BY DEF Absent
  <2>3. row'[i] = NewRow("push", e, rev[e] + 1) /\ OthersSame(i)
    BY <1>1, <2>1, <2>2 DEF OthersSame
  <2> QED
    BY <2>2, <2>3 DEF NewRow, NoRow
<1> QED
  BY <1>2, <1>3

LEMMA UnknownShape ==
  ASSUME TInv, EnqueueUnknown
  PROVE  \E i \in Ids : /\ OthersSame(i) /\ row[i].status = "absent"
                        /\ row'[i] = NewRow("unknown", NoKey, 1)
<1>1. PICK i \in Absent : row' = [row EXCEPT ![i] = NewRow("unknown", NoKey, 1)]
  BY DEF EnqueueUnknown
<1> QED
  BY <1>1 DEF Absent, TInv, TypeOK, OthersSame

(* The rows a producing round fills are absent ones, one for each key of    *)
(* its snapshot.                                                            *)
LEMMA ProduceShape ==
  ASSUME TInv, NEW w \in Workers, Produce(w)
  PROVE  \E S \in SUBSET Absent :
           /\ \A i \in Ids \ S : row'[i] = row[i]
           /\ \A i \in S : /\ row'[i].status = "pending" /\ row'[i].topic = "alert"
                           /\ row'[i].key \in seen[w].fresh /\ row'[i].rev = 1
           /\ \A i, j \in S : row'[i].key = row'[j].key => i = j
<1>1. CASE row' = row
  <2> WITNESS {} \in SUBSET Absent
  <2> QED
    BY <1>1
<1>2. CASE row' # row
  <2> DEFINE keyed(new, i) == CHOOSE a \in seen[w].fresh : new[a] = i
  <2>1. PICK new \in [seen[w].fresh -> Absent] :
          /\ \A a, b \in seen[w].fresh : a # b => new[a] # new[b]
          /\ row' = [i \in Ids |-> IF \E a \in seen[w].fresh : new[a] = i
                                   THEN NewRow("alert", keyed(new, i), 1) ELSE row[i]]
    BY <1>2 DEF Produce
  <2> DEFINE S == {i \in Absent : \E a \in seen[w].fresh : new[a] = i}
  <2>2. ASSUME NEW i \in S
        PROVE  keyed(new, i) \in seen[w].fresh /\ new[keyed(new, i)] = i
    BY <2>2
  <2>3. ASSUME NEW i \in S PROVE row'[i] = NewRow("alert", keyed(new, i), 1)
    BY <2>1, <2>3 DEF Absent
  <2>4. ASSUME NEW i \in S
        PROVE  /\ row'[i].status = "pending" /\ row'[i].topic = "alert"
               /\ row'[i].key = keyed(new, i) /\ row'[i].rev = 1
    <3> HIDE DEF keyed, S
    <3> QED
      BY <2>3, NewRowFields
  <2>5. \A i \in Ids \ S : row'[i] = row[i]
    BY <2>1
  <2>6. S \in SUBSET Absent
    OBVIOUS
  <2> HIDE DEF keyed, S
  <2> QED
    BY <2>2, <2>4, <2>5, <2>6
<1> QED
  BY <1>1, <1>2

LEMMA ClaimShape ==
  ASSUME TInv, NEW w \in Workers, Claim(w)
  PROVE  \E S \in SUBSET Ids :
           /\ \A i \in Ids \ S : row'[i] = row[i]
           /\ \A i \in S : /\ row[i].status \in {"pending", "sending"} /\ row[i].wait = 0
                           /\ row'[i].status = "sending" /\ Kept(i)
<1>1. PICK S \in SUBSET Due(w) : row' = [i \in Ids |-> IF i \in S THEN Claimed(i) ELSE row[i]]
  BY DEF Claim
<1>2. S \subseteq Ids /\ \A i \in S : row[i].status \in {"pending", "sending"} /\ row[i].wait = 0
  BY <1>1 DEF Due
<1>3. ASSUME NEW i \in S PROVE row'[i].status = "sending" /\ Kept(i)
  <2>1. row[i] \in Rows /\ row'[i] = Claimed(i)
    BY <1>1, <1>2 DEF TInv, TypeOK
  <2> QED
    BY <2>1 DEF Claimed, Rows, Kept
<1> QED
  BY <1>1, <1>2, <1>3

(* Renewing skips a lost message, or takes an owned one in hand with a      *)
(* whole lease: to close it unsent, or to hand it to the topic's handler.   *)
LEMMA RenewShape ==
  ASSUME TInv, NEW w \in Workers, Renew(w)
  PROVE  /\ \A i \in Ids : /\ row'[i].status = row[i].status /\ row'[i].token = row[i].token
                          /\ Kept(i) /\ (row'[i] = row[i] \/ row'[i].wait = Lease)
         /\ \A v \in Workers : v # w => /\ pc'[v] = pc[v] /\ cur'[v] = cur[v]
                                        /\ left'[v] = left[v]
         /\ \/ pc'[w] # "deliver" /\ row' = row /\ dropped' = dropped
            \/ /\ pc'[w] # "deliver"
               /\ \E l \in batch[w] : /\ Owns(l)
                                      /\ dropped' = [dropped EXCEPT ![l.id] = @ \cup {l.rev}]
            \/ pc'[w] # "deliver" /\ dropped' = dropped
            \/ /\ pc'[w] = "deliver" /\ dropped' = dropped
               /\ cur'[w] \in batch[w] /\ Owns(cur'[w])
               /\ row'[cur'[w].id].wait = Lease /\ left'[w] = HandlerTime
<1>1. /\ row \in [Ids -> Rows] /\ cur \in [Workers -> Leases \cup {NoLease}]
      /\ pc \in [Workers -> {"idle", "produce", "claim", "next", "deliver", "close"}]
      /\ left \in [Workers -> Nat] /\ batch \in [Workers -> SUBSET Leases]
  BY DEF TInv, TypeOK
<1>2. PICK l \in batch[w] :
         \/ /\ pc' = [pc EXCEPT ![w] = EndOfRound(w, batch[w] \ {l})]
            /\ UNCHANGED <<row, cur, left, verdict, dropped>>
         \/ /\ Owns(l)
            /\ row' = [row EXCEPT ![l.id] = Renewed(@)]
            /\ cur' = [cur EXCEPT ![w] = l]
            /\ \/ /\ pc' = [pc EXCEPT ![w] = "close"]
                  /\ UNCHANGED <<left, dropped>>
               \/ /\ pc' = [pc EXCEPT ![w] = "close"]
                  /\ dropped' = [dropped EXCEPT ![l.id] = @ \cup {l.rev}]
                  /\ UNCHANGED left
               \/ /\ pc' = [pc EXCEPT ![w] = "deliver"]
                  /\ left' = [left EXCEPT ![w] = HandlerTime]
                  /\ UNCHANGED dropped
  BY Zenon DEF Renew
<1>3. l.id \in Ids
  BY <1>1 DEF Leases
<1>4. ASSUME NEW i \in Ids
      PROVE  /\ Renewed(row[i]).status = row[i].status /\ Renewed(row[i]).token = row[i].token
             /\ Renewed(row[i]).topic = row[i].topic /\ Renewed(row[i]).key = row[i].key
             /\ Renewed(row[i]).rev = row[i].rev /\ Renewed(row[i]).wait = Lease
  <2>1. row[i] \in Rows
    BY <1>1
  <2> QED
    BY <2>1 DEF Renewed, Rows
<1>5. \A i \in Ids : row'[i] = row[i] \/ row'[i] = Renewed(row[i])
  <2>1. row' = row \/ row' = [row EXCEPT ![l.id] = Renewed(@)]
    BY <1>2
  <2> QED
    BY <1>1, <1>3, <2>1
<1>6. \A i \in Ids : /\ row'[i].status = row[i].status /\ row'[i].token = row[i].token
                    /\ Kept(i) /\ (row'[i] = row[i] \/ row'[i].wait = Lease)
  BY <1>4, <1>5 DEF Kept
<1>7. \A v \in Workers : v # w => /\ pc'[v] = pc[v] /\ cur'[v] = cur[v]
                                /\ left'[v] = left[v]
  BY <1>1, <1>2
<1>8. CASE /\ pc' = [pc EXCEPT ![w] = EndOfRound(w, batch[w] \ {l})]
           /\ UNCHANGED <<row, dropped>>
  BY <1>1, <1>6, <1>7, <1>8 DEF EndOfRound
<1>9. CASE /\ Owns(l) /\ pc' = [pc EXCEPT ![w] = "close"]
           /\ \/ dropped' = dropped
              \/ dropped' = [dropped EXCEPT ![l.id] = @ \cup {l.rev}]
  BY <1>1, <1>6, <1>7, <1>9
<1>10. CASE /\ Owns(l) /\ row' = [row EXCEPT ![l.id] = Renewed(@)]
            /\ cur' = [cur EXCEPT ![w] = l] /\ pc' = [pc EXCEPT ![w] = "deliver"]
            /\ left' = [left EXCEPT ![w] = HandlerTime] /\ dropped' = dropped
  BY <1>1, <1>3, <1>4, <1>6, <1>7, <1>10
<1> QED
  BY <1>2, <1>8, <1>9, <1>10

(* Closing a message touches at most the row it is about, and that one only *)
(* for its owner.                                                           *)
LEMMA CloseShape ==
  ASSUME TInv, NEW w \in Workers, Complete(w) \/ Fail(w) \/ FailRaises(w)
  PROVE  /\ cur[w].id \in Ids /\ OthersSame(cur[w].id)
         /\ \/ row' = row
            \/ /\ Owns(cur[w]) /\ Kept(cur[w].id)
               /\ \/ Complete(w) /\ verdict[w].ok /\ row'[cur[w].id].status = "sent"
                  \/ Fail(w) /\ row'[cur[w].id].status \in {"pending", "dead"}
<1> DEFINE i == cur[w].id
<1>1. i \in Ids /\ row \in [Ids -> Rows] /\ row[i] \in Rows
  BY DEF TInv, TypeOK, Holding, Leases, Complete, Fail, FailRaises
<1>2. CASE Complete(w)
  <2>1. \/ row' = row
        \/ /\ Owns(cur[w])
           /\ row' = [row EXCEPT ![i] = [@ EXCEPT !.status = "sent", !.token = 0]]
    BY <1>1, <1>2 DEF Complete
  <2> QED
    BY <1>1, <1>2, <2>1 DEF Rows, Kept, OthersSame, Complete
<1>3. CASE Fail(w)
  <2> DEFINE d == Delay(row[i].attempts, verdict[w].retryAfter)
  <2>1. \/ row' = row
        \/ /\ Owns(cur[w])
           /\ \/ row' = [row EXCEPT ![i] = [@ EXCEPT !.status = "dead", !.token = 0, !.wait = 0]]
              \/ row' = [row EXCEPT ![i] = [@ EXCEPT !.status = "pending", !.token = 0,
                                                      !.wait = d]]
    BY <1>1, <1>3 DEF Fail
  <2> HIDE DEF d
  <2>2. OthersSame(i)
    BY <1>1, <2>1 DEF OthersSame
  <2> DEFINE dead == [row[i] EXCEPT !.status = "dead", !.token = 0, !.wait = 0]
             waiting == [row[i] EXCEPT !.status = "pending", !.token = 0, !.wait = d]
  <2>3. row' = row \/ (Owns(cur[w]) /\ row'[i] \in {dead, waiting})
    BY <1>1, <2>1
  <2>4. /\ dead.topic = row[i].topic /\ dead.key = row[i].key /\ dead.rev = row[i].rev
        /\ dead.status = "dead"
    BY <1>1 DEF Rows
  <2>5. /\ waiting.topic = row[i].topic /\ waiting.key = row[i].key
        /\ waiting.rev = row[i].rev /\ waiting.status = "pending"
    BY <1>1 DEF Rows
  <2> HIDE DEF dead, waiting
  <2>6. row' = row \/ (Owns(cur[w]) /\ Kept(i) /\ row'[i].status \in {"pending", "dead"})
    BY <2>3, <2>4, <2>5 DEF Kept
  <2> QED
    BY <1>1, <1>3, <2>2, <2>6
<1>4. CASE FailRaises(w)
  BY <1>1, <1>4 DEF FailRaises, OthersSame
<1> QED
  BY <1>2, <1>3, <1>4

LEMMA RequeueShape ==
  ASSUME TInv, NEW i \in Ids, Requeue(i)
  PROVE  /\ OthersSame(i) /\ Kept(i)
         /\ row[i].status = "dead" /\ row'[i].status = "pending"
<1>1. row \in [Ids -> Rows] /\ row[i] \in Rows
  BY DEF TInv, TypeOK
<1>2. row' = [row EXCEPT ![i] = [@ EXCEPT !.status = "pending", !.attempts = 0, !.wait = 0]]
  BY <1>1 DEF Requeue
<1> QED
  BY <1>1, <1>2 DEF Requeue, Requeueable, Rows, OthersSame, Kept

LEMMA TickShape ==
  ASSUME TInv, Tick
  PROVE  \A i \in Ids : /\ Kept(i) /\ row'[i].status = row[i].status
                        /\ row'[i].token = row[i].token /\ row'[i].wait = Down(row[i].wait)
<1> SUFFICES ASSUME NEW i \in Ids
             PROVE  /\ Kept(i) /\ row'[i].status = row[i].status
                    /\ row'[i].token = row[i].token /\ row'[i].wait = Down(row[i].wait)
  OBVIOUS
<1>1. row[i] \in Rows /\ row'[i] = [row[i] EXCEPT !.wait = Down(@)]
  BY DEF Tick, TInv, TypeOK
<1> QED
  BY <1>1 DEF Rows, Kept

(* The steps that touch no row at all.                                      *)
LEMMA QuietShape ==
  ASSUME \/ \E w \in Workers : StartTick(w) \/ Handle(w) \/ Crash(w)
         \/ \E c \in Channels : Switch(c)
  PROVE  row' = row /\ rev' = rev
BY DEF StartTick, Handle, Crash, Switch

-----------------------------------------------------------------------------
(* A handler never outlives its lease: while it runs its worker owns the    *)
(* row, and the lease has longer to go than the handler.                    *)
Timed == \A w \in Workers : pc[w] = "deliver" =>
           /\ Owns(cur[w])
           /\ left[w] <= HandlerTime /\ left[w] < row[cur[w].id].wait

(* The message in hand is among what its worker holds.                      *)
LEMMA InHand ==
  ASSUME TInv, NEW w \in Workers, pc[w] \in {"deliver", "close"}
  PROVE  cur[w] \in Leases /\ cur[w].id \in Ids /\ cur[w] \in Held(w)
BY OutboxConstants DEF TInv, Holding, Leases, Held, NoLease, NoKey

(* A step that starts no handler keeps it so, when it leaves the rows being *)
(* delivered in flight under the same token and their leases as long.       *)
LEMMA NothingStarted ==
  ASSUME LInv, Timed,
         \A w \in Workers : pc'[w] = "deliver" =>
            pc[w] = "deliver" /\ cur'[w] = cur[w] /\ left'[w] = left[w],
         \A w \in Workers : pc[w] = "deliver" =>
            LET i == cur[w].id IN
            \/ row'[i] = row[i]
            \/ /\ row'[i].status = row[i].status /\ row'[i].token = row[i].token
               /\ row'[i].wait = Lease
  PROVE  Timed'
<1> SUFFICES ASSUME NEW w \in Workers, pc'[w] = "deliver"
             PROVE  /\ Owns(cur[w])'
                    /\ left'[w] <= HandlerTime /\ left'[w] < row'[cur'[w].id].wait
  BY DEF Timed
<1>1. pc[w] = "deliver" /\ cur'[w] = cur[w] /\ left'[w] = left[w]
  OBVIOUS
<1>2. left[w] \in Nat /\ HandlerTime \in Nat /\ Lease \in Nat /\ HandlerTime < Lease
  BY OutboxConstants DEF LInv, TInv, TypeOK
<1> QED
  BY <1>1, <1>2 DEF Timed, Owns

LEMMA EnqueueTimed ==
  ASSUME LInv, Timed, EnqueueUnknown \/ \E e \in Entities : EnqueueWebPush(e)
  PROVE  Timed'
<1>1. ASSUME NEW w \in Workers, pc[w] = "deliver" PROVE row'[cur[w].id] = row[cur[w].id]
  <2>1. row[cur[w].id].status = "sending" /\ cur[w].id \in Ids
    BY <1>1, InHand DEF LInv, Timed, Owns
  <2> QED
    BY <2>1, EnqueueShape, UnknownShape DEF LInv, OthersSame
<1> QED
  BY <1>1, NothingStarted DEF EnqueueUnknown, EnqueueWebPush

LEMMA ProduceTimed ==
  ASSUME LInv, Timed, NEW w \in Workers, Produce(w)
  PROVE  Timed'
<1>1. ASSUME NEW v \in Workers, pc[v] = "deliver" PROVE row'[cur[v].id] = row[cur[v].id]
  <2>1. cur[v].id \in Ids \ Absent
    BY <1>1, InHand DEF LInv, Timed, Owns, Absent
  <2> QED
    BY <2>1, ProduceShape DEF LInv
<1>2. \A v \in Workers : pc'[v] = "deliver" =>
         pc[v] = "deliver" /\ cur'[v] = cur[v] /\ left'[v] = left[v]
  BY DEF Produce, LInv, TInv, TypeOK
<1> QED
  BY <1>1, <1>2, NothingStarted

LEMMA ClaimTimed ==
  ASSUME LInv, Timed, NEW w \in Workers, Claim(w)
  PROVE  Timed'
<1>1. ASSUME NEW v \in Workers, pc[v] = "deliver" PROVE row'[cur[v].id] = row[cur[v].id]
  <2>1. cur[v].id \in Ids /\ row[cur[v].id].wait # 0
    BY <1>1, InHand DEF LInv, TInv, TypeOK, Timed
  <2> QED
    BY <2>1, ClaimShape DEF LInv
<1>2. \A v \in Workers : pc'[v] = "deliver" =>
         pc[v] = "deliver" /\ cur'[v] = cur[v] /\ left'[v] = left[v]
  BY DEF Claim, LInv, TInv, TypeOK
<1> QED
  BY <1>1, <1>2, NothingStarted

(* The step that starts a handler gives it a whole lease.                   *)
LEMMA RenewTimed ==
  ASSUME LInv, Timed, NEW w \in Workers, Renew(w)
  PROVE  Timed'
<1>1. ASSUME NEW v \in Workers, v # w, pc'[v] = "deliver"
      PROVE  /\ Owns(cur[v])'
             /\ left'[v] <= HandlerTime /\ left'[v] < row'[cur'[v].id].wait
  <2>1. pc[v] = "deliver" /\ cur'[v] = cur[v] /\ left'[v] = left[v] /\ left[v] \in Nat
    BY <1>1, RenewShape DEF LInv, TInv, TypeOK
  <2>2. cur[v].id \in Ids
    BY <2>1, InHand DEF LInv
  <2>3. HandlerTime \in Nat /\ Lease \in Nat /\ HandlerTime < Lease
    BY OutboxConstants
  <2>4. LET i == cur[v].id IN
        /\ row'[i].status = row[i].status /\ row'[i].token = row[i].token
        /\ row'[i] = row[i] \/ row'[i].wait = Lease
    BY <2>2, RenewShape DEF LInv
  <2> QED
    BY <2>1, <2>3, <2>4 DEF Timed, Owns
<1>2. ASSUME pc'[w] = "deliver"
      PROVE  /\ Owns(cur[w])'
             /\ left'[w] <= HandlerTime /\ left'[w] < row'[cur'[w].id].wait
  <2>1. /\ cur'[w] \in batch[w] /\ Owns(cur'[w])
        /\ row'[cur'[w].id].wait = Lease /\ left'[w] = HandlerTime
    BY <1>2, RenewShape DEF LInv
  <2>2. cur'[w].id \in Ids
    BY <2>1 DEF LInv, TInv, TypeOK, Leases
  <2>3. /\ row'[cur'[w].id].status = row[cur'[w].id].status
        /\ row'[cur'[w].id].token = row[cur'[w].id].token
    BY <2>2, RenewShape DEF LInv
  <2> QED
    BY <2>1, <2>3, OutboxConstants DEF Owns
<1> QED
  BY <1>1, <1>2 DEF Timed

(* A worker that closes a message owns its row or changes nothing, so no    *)
(* other worker is delivering that row.                                     *)
LEMMA CloseTimed ==
  ASSUME LInv, Timed, NEW w \in Workers, Complete(w) \/ Fail(w) \/ FailRaises(w)
  PROVE  Timed'
<1>1. pc[w] = "close" /\ cur[w] \in Held(w) /\ cur[w].id \in Ids
  BY InHand DEF LInv, Complete, Fail, FailRaises
<1>2. ASSUME NEW v \in Workers, pc[v] = "deliver" PROVE row'[cur[v].id] = row[cur[v].id]
  <2>1. cur[v] \in Held(v) /\ cur[v].id \in Ids /\ Owns(cur[v]) /\ v # w
    BY <1>1, <1>2, InHand DEF LInv, Timed
  <2>2. CASE cur[v].id # cur[w].id
    BY <2>1, <2>2, CloseShape DEF LInv, OthersSame
  <2>3. CASE cur[v].id = cur[w].id
    <3>1. ~Owns(cur[w])
      BY <1>1, <2>1, <2>3 DEF LInv, LeaseIsExclusive, Owns
    <3> QED
      BY <3>1, CloseShape DEF LInv
  <2> QED
    BY <2>2, <2>3
<1>3. \A v \in Workers : pc'[v] = "deliver" =>
         pc[v] = "deliver" /\ cur'[v] = cur[v] /\ left'[v] = left[v]
  BY DEF Complete, Fail, FailRaises, LeaveClose, EndOfRound, LInv, TInv, TypeOK
<1> QED
  BY <1>2, <1>3, NothingStarted

LEMMA RequeueTimed ==
  ASSUME LInv, Timed, NEW i \in Ids, Requeue(i)
  PROVE  Timed'
<1>1. ASSUME NEW w \in Workers, pc[w] = "deliver" PROVE row'[cur[w].id] = row[cur[w].id]
  <2>1. row[cur[w].id].status = "sending" /\ cur[w].id \in Ids
    BY <1>1, InHand DEF LInv, Timed, Owns
  <2> QED
    BY <2>1, RequeueShape DEF LInv, OthersSame
<1> QED
  BY <1>1, NothingStarted DEF Requeue

LEMMA QuietTimed ==
  ASSUME LInv, Timed,
         \/ \E w \in Workers : StartTick(w) \/ Handle(w) \/ Crash(w)
         \/ \E c \in Channels : Switch(c)
  PROVE  Timed'
<1>1. row' = row
  BY QuietShape
<1>2. \A v \in Workers : pc'[v] = "deliver" =>
         pc[v] = "deliver" /\ cur'[v] = cur[v] /\ left'[v] = left[v]
  BY DEF StartTick, Handle, Crash, Switch, LInv, TInv, TypeOK
<1> QED
  BY <1>1, <1>2, NothingStarted

(* Time takes as much from the lease as from the handler, and stops for a   *)
(* handler at its end.                                                      *)
LEMMA TickTimed ==
  ASSUME LInv, Timed, Tick
  PROVE  Timed'
<1> SUFFICES ASSUME NEW w \in Workers, pc'[w] = "deliver"
             PROVE  /\ Owns(cur[w])'
                    /\ left'[w] <= HandlerTime /\ left'[w] < row'[cur'[w].id].wait
  BY DEF Timed
<1>1. /\ pc[w] = "deliver" /\ cur'[w] = cur[w] /\ left'[w] = Down(left[w])
      /\ left[w] \in Nat /\ left[w] > 0 /\ HandlerTime \in Nat
  BY OutboxConstants DEF Tick, LInv, TInv, TypeOK
<1> DEFINE i == cur[w].id
<1>2. i \in Ids /\ row[i].wait \in Nat
  BY <1>1, InHand DEF LInv, TInv, TypeOK, Rows
<1>3. /\ row'[i].status = row[i].status /\ row'[i].token = row[i].token
      /\ row'[i].wait = Down(row[i].wait)
  BY <1>2, TickShape DEF LInv
<1> QED
  BY <1>1, <1>2, <1>3 DEF Timed, Owns, Down

LEMMA NextTimed ==
  ASSUME LInv, Timed, [Next]_vars
  PROVE  Timed'
<1>1. CASE UNCHANGED vars
  BY <1>1 DEF vars, Timed, Owns
<1>2. CASE Next
  BY <1>2, EnqueueTimed, ProduceTimed, ClaimTimed, RenewTimed, CloseTimed, RequeueTimed,
     QuietTimed, TickTimed DEF Next, Step, WorkerStep
<1> QED
  BY <1>1, <1>2

LEMMA TimedInvariant == Spec => []Timed
<1>1. Init => Timed
  BY DEF Init, Timed
<1>2. LInv /\ Timed /\ [Next]_vars => Timed'
  BY NextTimed
<1> QED
  BY <1>1, <1>2, LeaseInvariant, PTL DEF Spec

(* Two workers are never inside the handler of one message: both would own  *)
(* its row, and a token has one holder.                                     *)
THEOREM OneHandlerPerMessage == Spec => []NoConcurrentDelivery
<1>1. LInv /\ Timed => NoConcurrentDelivery
  <2> SUFFICES ASSUME LInv, Timed, NEW v \in Workers, NEW w \in Workers,
                      pc[v] = "deliver", pc[w] = "deliver", cur[v].id = cur[w].id
               PROVE  v = w
    BY DEF NoConcurrentDelivery
  <2>1. cur[v] \in Held(v) /\ cur[w] \in Held(w)
    BY InHand DEF LInv
  <2>2. cur[v].token = cur[w].token
    BY DEF Timed, Owns
  <2> QED
    BY <2>1, <2>2 DEF LInv, LeaseIsExclusive
<1> QED
  BY <1>1, LeaseInvariant, TimedInvariant, PTL

-----------------------------------------------------------------------------
(* The versions.  A row of an entity never asks for more than the version   *)
(* last enqueued, and some row asks for exactly that one.                   *)
Behind == \A i \in Ids : row[i].topic = "push" =>
            row[i].key \in Entities /\ row[i].rev <= rev[row[i].key]
Newest == \A e \in Entities : rev[e] > 0 =>
            \E i \in Ids : /\ row[i].status # "absent" /\ row[i].topic = "push"
                           /\ row[i].key = e /\ row[i].rev = rev[e]
VInv == TInv /\ Behind /\ Newest

(* Only a push changes what a message asks for: any other step leaves every *)
(* message as it is, or fills an absent row with one of another topic.      *)
LEMMA ContentsKept ==
  ASSUME TInv, Next, ~\E e \in Entities : EnqueueWebPush(e)
  PROVE  /\ rev' = rev
         /\ \A i \in Ids : \/ Kept(i) /\ (row[i].status # "absent" => row'[i].status # "absent")
                           \/ /\ row[i].status = "absent"
                              /\ \/ row'[i].topic = "unknown"
                                 \/ row'[i].topic = "alert" /\ \E w \in Workers : Produce(w)
<1>1. CASE EnqueueUnknown
  <2>1. rev' = rev
    BY <1>1 DEF EnqueueUnknown
  <2>2. PICK j \in Ids : /\ OthersSame(j) /\ row[j].status = "absent"
                         /\ row'[j] = NewRow("unknown", NoKey, 1)
    BY <1>1, UnknownShape
  <2>3. row'[j].topic = "unknown"
    BY <2>2, NewRowFields
  <2>4. ASSUME NEW i \in Ids, i # j PROVE Kept(i) /\ row'[i] = row[i]
    <3>1. row'[i] = row[i]
      BY <2>2, <2>4 DEF OthersSame
    <3> QED
      BY <3>1 DEF Kept
  <2> QED
    BY <2>1, <2>2, <2>3, <2>4
<1>2. CASE \E w \in Workers : Produce(w)
  <2>1. PICK w \in Workers : Produce(w)
    BY <1>2
  <2>2. rev' = rev
    BY <2>1 DEF Produce
  <2>3. PICK S \in SUBSET Absent :
          /\ \A i \in Ids \ S : row'[i] = row[i]
          /\ \A i \in S : row'[i].topic = "alert"
    BY <2>1, ProduceShape
  <2> QED
    BY <2>1, <2>2, <2>3 DEF Kept, Absent
<1>3. CASE \E w \in Workers : Claim(w)
  <2>1. PICK w \in Workers : Claim(w)
    BY <1>3
  <2>2. rev' = rev
    BY <2>1 DEF Claim
  <2>3. PICK S \in SUBSET Ids :
           /\ \A i \in Ids \ S : row'[i] = row[i]
           /\ \A i \in S : row'[i].status = "sending" /\ Kept(i)
    BY <2>1, ClaimShape
  <2> QED
    BY <2>2, <2>3 DEF Kept
<1>4. CASE \E w \in Workers : Renew(w)
  <2>1. rev' = rev
    BY <1>4, Zenon DEF Renew
  <2> QED
    BY <1>4, <2>1, RenewShape
<1>5. CASE \E w \in Workers : Complete(w) \/ Fail(w) \/ FailRaises(w)
  <2>1. PICK w \in Workers : Complete(w) \/ Fail(w) \/ FailRaises(w)
    BY <1>5
  <2>2. rev' = rev
    BY <2>1 DEF Complete, Fail, FailRaises, LeaveClose
  <2> QED
    BY <2>1, <2>2, CloseShape DEF Kept, OthersSame
<1>6. CASE \E i \in Ids : Requeue(i)
  <2>1. rev' = rev
    BY <1>6 DEF Requeue
  <2> QED
    BY <1>6, <2>1, RequeueShape DEF Kept, OthersSame
<1>7. CASE Tick
  <2>1. rev' = rev
    BY <1>7 DEF Tick
  <2> QED
    BY <1>7, <2>1, TickShape
<1>8. CASE \/ \E w \in Workers : StartTick(w) \/ Handle(w) \/ Crash(w)
           \/ \E c \in Channels : Switch(c)
  BY <1>8, QuietShape DEF Kept
<1> QED
  BY <1>1, <1>2, <1>3, <1>4, <1>5, <1>6, <1>7, <1>8 DEF Next, Step, WorkerStep

LEMMA NextVInv ==
  ASSUME VInv, [Next]_vars
  PROVE  VInv'
<1>1. TInv' /\ row \in [Ids -> Rows] /\ rev \in [Entities -> Nat]
  BY NextTInv DEF VInv, TInv, TypeOK
<1>2. CASE UNCHANGED vars
  BY <1>1, <1>2 DEF vars, VInv, Behind, Newest
<1>3. CASE \E e \in Entities : EnqueueWebPush(e)
  <2>1. PICK e \in Entities : EnqueueWebPush(e)
    BY <1>3
  <2>2. rev' = [rev EXCEPT ![e] = @ + 1]
    BY <2>1 DEF EnqueueWebPush
  <2>3. PICK i \in Ids :
           /\ OthersSame(i)
           /\ row'[i].status = "pending" /\ row'[i].topic = "push"
           /\ row'[i].key = e /\ row'[i].rev = rev[e] + 1
           /\ \/ row[i].status = "absent"
              \/ /\ row[i].status = "pending" /\ row[i].topic = "push"
                 /\ row[i].key = e
    BY <2>1, EnqueueShape DEF VInv
  <2>4. Behind'
    <3>1. ASSUME NEW j \in Ids, j # i, row'[j].topic = "push"
          PROVE  row'[j].key \in Entities /\ row'[j].rev <= rev'[row'[j].key]
      <4>1. row'[j] = row[j] /\ row[j] \in Rows
        BY <1>1, <2>3, <3>1 DEF OthersSame
      <4>2. row[j].key \in Entities /\ row[j].rev <= rev[row[j].key] /\ row[j].rev \in Nat
        BY <3>1, <4>1 DEF VInv, Behind, Rows
      <4> QED
        BY <1>1, <2>2, <4>1, <4>2
    <3>2. row'[i].key \in Entities /\ row'[i].rev <= rev'[row'[i].key]
      BY <1>1, <2>2, <2>3
    <3> QED
      BY <3>1, <3>2 DEF Behind
  <2>5. Newest'
    <3> SUFFICES ASSUME NEW f \in Entities, rev'[f] > 0
                 PROVE  \E j \in Ids : /\ row'[j].status # "absent" /\ row'[j].topic = "push"
                                       /\ row'[j].key = f /\ row'[j].rev = rev'[f]
      BY DEF Newest
    <3>1. CASE f = e
      BY <1>1, <2>2, <2>3, <3>1
    <3>2. CASE f # e
      <4>1. rev'[f] = rev[f]
        BY <1>1, <2>2, <3>2
      <4>2. PICK j \in Ids : /\ row[j].status # "absent" /\ row[j].topic = "push"
                             /\ row[j].key = f /\ row[j].rev = rev[f]
        BY <4>1 DEF VInv, Newest
      <4>3. row'[j] = row[j]
        BY <2>3, <3>2, <4>2 DEF OthersSame
      <4> QED
        BY <4>1, <4>2, <4>3
    <3> QED
      BY <3>1, <3>2
  <2> QED
    BY <1>1, <2>4, <2>5 DEF VInv
<1>4. CASE Next /\ ~\E e \in Entities : EnqueueWebPush(e)
  <2>1. /\ rev' = rev
        /\ \A i \in Ids : \/ Kept(i) /\ (row[i].status # "absent" => row'[i].status # "absent")
                          \/ row[i].status = "absent" /\ row'[i].topic # "push"
    BY <1>4, ContentsKept DEF VInv
  <2>2. Behind'
    BY <2>1 DEF VInv, Behind, Kept
  <2>3. Newest'
    BY <2>1 DEF VInv, Newest, Kept
  <2> QED
    BY <1>1, <2>2, <2>3 DEF VInv
<1> QED
  BY <1>2, <1>3, <1>4

LEMMA VersionInvariant == Spec => []VInv
<1>1. Init => VInv
  BY InitTInv DEF Init, VInv, Behind, Newest, NoRow
<1>2. VInv /\ [Next]_vars => VInv'
  BY NextVInv
<1> QED
  BY <1>1, <1>2, PTL DEF Spec

(* The newest version of an entity is never lost, however the row that      *)
(* carries it is amended, taken over, given up or requeued.                 *)
THEOREM NewestNeverLost == Spec => []LatestIsTracked
<1>1. LInv /\ VInv => LatestIsTracked
  <2> SUFFICES ASSUME LInv, VInv, NEW e \in Entities, rev[e] > 0
               PROVE  \E i \in Ids :
                         /\ row[i].topic = "push" /\ row[i].key = e /\ row[i].rev = rev[e]
                         /\ \/ row[i].status \in {"pending", "sending", "dead"}
                            \/ rev[e] \in delivered[i] \cup dropped[i]
    BY DEF LatestIsTracked
  <2>1. PICK i \in Ids : /\ row[i].status # "absent" /\ row[i].topic = "push"
                         /\ row[i].key = e /\ row[i].rev = rev[e]
    BY DEF VInv, Newest
  <2>2. row[i].status \in {"pending", "sending", "dead"} \/ row[i].status = "sent"
    BY <2>1 DEF LInv, TInv, TypeOK, Rows, Statuses
  <2>3. row[i].status = "sent" => rev[e] \in delivered[i] \cup dropped[i]
    BY <2>1 DEF LInv, SentMeansDelivered
  <2> QED
    BY <2>1, <2>2, <2>3
<1> QED
  BY <1>1, LeaseInvariant, VersionInvariant, PTL

-----------------------------------------------------------------------------
(* The refinement: what each step is to a reader of Delivery.               *)

LEMMA PhaseIs ==
  ASSUME TInv, NEW i \in Ids
  PROVE  /\ row[i].status = "absent" <=> Phase(i) = "none"
         /\ row[i].status \in {"pending", "sending"} <=> Phase(i) = "open"
         /\ row[i].status = "sent" <=> Phase(i) = "sent"
         /\ row[i].status = "dead" <=> Phase(i) = "dead"
<1>1. row[i].status \in Statuses
  BY DEF TInv, TypeOK, Rows
<1> QED
  BY <1>1 DEF Phase, Statuses

Unreached == delivered' = delivered /\ dropped' = dropped

(* A step within a phase that asks for nothing new is a stutter.            *)
LEMMA Stutters ==
  ASSUME Unreached, \A i \in Ids : Phase(i)' = Phase(i) /\ row'[i].rev = row[i].rev
  PROVE  UNCHANGED AtLeastOnce!vars
BY DEF Unreached, AtLeastOnce!vars

LEMMA Posts ==
  ASSUME TInv, TInv', Unreached, NEW S \in SUBSET Ids,
         \A i \in S : row[i].status = "absent" /\ row'[i].status = "pending",
         \A i \in Ids \ S : row'[i] = row[i]
  PROVE  AtLeastOnce!Post
<1>1. S \subseteq {i \in Ids : [j \in Ids |-> Phase(j)][i] = "none"}
  BY PhaseIs
<1>2. [i \in Ids |-> Phase(i)]' = [i \in Ids |-> IF i \in S THEN "open" ELSE [j \in Ids |-> Phase(j)][i]]
  BY DEF Phase
<1>3. \A i \in Ids \ S : [j \in Ids |-> row[j].rev]'[i] = [j \in Ids |-> row[j].rev][i]
  OBVIOUS
<1>4. [i \in Ids |-> row[i].rev]' \in [Ids -> Nat]
  BY DEF TInv, TypeOK, Rows
<1>5. [i \in Ids |-> delivered[i] \cup dropped[i]]' = [i \in Ids |-> delivered[i] \cup dropped[i]]
  BY DEF Unreached
<1> QED
  BY <1>1, <1>2, <1>3, <1>4, <1>5 DEF AtLeastOnce!Post

LEMMA Moves ==
  ASSUME TInv, TInv', Unreached, NEW i \in Ids, OthersSame(i), Kept(i),
         NEW to, Phase(i)' = to
  PROVE  AtLeastOnce!Move(i, Phase(i), to)
<1>1. [j \in Ids |-> Phase(j)]' = [[j \in Ids |-> Phase(j)] EXCEPT ![i] = to]
  BY DEF OthersSame, Phase
<1>2. [j \in Ids |-> row[j].rev]' = [j \in Ids |-> row[j].rev]
  BY DEF OthersSame, Kept
<1>3. [j \in Ids |-> delivered[j] \cup dropped[j]]' = [j \in Ids |-> delivered[j] \cup dropped[j]]
  BY DEF Unreached
<1> QED
  BY <1>1, <1>2, <1>3 DEF AtLeastOnce!Move

LEMMA Reaches ==
  ASSUME TInv, NEW i \in Ids, row[i].status = "sending",
         \A j \in Ids : Phase(j)' = Phase(j) /\ row'[j].rev = row[j].rev,
         \/ dropped' = dropped /\ delivered' = [delivered EXCEPT ![i] = @ \cup {row[i].rev}]
         \/ delivered' = delivered /\ dropped' = [dropped EXCEPT ![i] = @ \cup {row[i].rev}]
  PROVE  AtLeastOnce!Reach(i)
<1> DEFINE got == [j \in Ids |-> delivered[j] \cup dropped[j]]
           wanted == [j \in Ids |-> row[j].rev]
<1>1. [j \in Ids |-> Phase(j)][i] # "none"
  BY PhaseIs
<1>2. row[i].rev \in 0..wanted[i]
  BY DEF TInv, TypeOK, Rows
<1>3. got' = [got EXCEPT ![i] = @ \cup {row[i].rev}]
  BY DEF TInv, TypeOK
<1>4. /\ [j \in Ids |-> Phase(j)]' = [j \in Ids |-> Phase(j)]
      /\ wanted' = wanted
  OBVIOUS
<1> QED
  BY <1>1, <1>2, <1>3, <1>4 DEF AtLeastOnce!Reach
LEMMA EnqueueMaps ==
  ASSUME TInv, Behind, TInv', NEW e \in Entities, EnqueueWebPush(e)
  PROVE  AtLeastOnce!Next
<1>1. PICK i \in Ids :
         /\ OthersSame(i)
         /\ row'[i].status = "pending" /\ row'[i].topic = "push"
         /\ row'[i].key = e /\ row'[i].rev = rev[e] + 1
         /\ \/ row[i].status = "absent"
            \/ /\ row[i].status = "pending" /\ row[i].topic = "push"
               /\ row[i].key = e
  BY EnqueueShape
<1>2. Unreached
  BY DEF EnqueueWebPush, Unreached
<1>3. CASE row[i].status = "absent"
  <2>1. {i} \in SUBSET Ids
    OBVIOUS
  <2>2. AtLeastOnce!Post
    BY <1>1, <1>2, <1>3, <2>1, Posts DEF OthersSame
  <2> QED
    BY <2>2 DEF AtLeastOnce!Next
<1>4. CASE row[i].status = "pending" /\ row[i].topic = "push" /\ row[i].key = e
  <2>1. row[i].rev \in Nat /\ rev[e] \in Nat /\ row[i].rev <= rev[e]
    BY <1>4 DEF TInv, TypeOK, Rows, Behind
  <2>2. row'[i].rev > row[i].rev
    BY <1>1, <2>1
  <2>3. \A j \in Ids : Phase(j)' = Phase(j) /\ (j # i => row'[j].rev = row[j].rev)
    BY <1>1, <1>4 DEF OthersSame, Phase
  <2>4. [j \in Ids |-> Phase(j)][i] = "open"
    BY <1>4, PhaseIs
  <2>5. [j \in Ids |-> row[j].rev]' \in [Ids -> Nat]
    BY DEF TInv, TypeOK, Rows
  <2>6. AtLeastOnce!Amend(i)
    BY <1>2, <2>2, <2>3, <2>4, <2>5 DEF AtLeastOnce!Amend, Unreached
  <2> QED
    BY <2>6 DEF AtLeastOnce!Next
<1> QED
  BY <1>1, <1>3, <1>4

LEMMA UnknownMaps ==
  ASSUME TInv, TInv', EnqueueUnknown
  PROVE  AtLeastOnce!Next
<1>1. PICK i \in Ids : /\ OthersSame(i) /\ row[i].status = "absent"
                       /\ row'[i] = NewRow("unknown", NoKey, 1)
  BY UnknownShape
<1>2. row'[i].status = "pending"
  BY <1>1 DEF NewRow, NoRow
<1>3. Unreached /\ {i} \in SUBSET Ids
  BY DEF EnqueueUnknown, Unreached
<1>4. AtLeastOnce!Post
  BY <1>1, <1>2, <1>3, Posts DEF OthersSame
<1> QED
  BY <1>4 DEF AtLeastOnce!Next

LEMMA ProduceMaps ==
  ASSUME TInv, TInv', NEW w \in Workers, Produce(w)
  PROVE  AtLeastOnce!Next
<1>1. PICK S \in SUBSET Absent :
         /\ \A i \in Ids \ S : row'[i] = row[i]
         /\ \A i \in S : row'[i].status = "pending"
  BY ProduceShape
<1>2. Unreached /\ S \in SUBSET Ids /\ \A i \in S : row[i].status = "absent"
  BY DEF Produce, Unreached, Absent
<1>3. AtLeastOnce!Post
  BY <1>1, <1>2, Posts
<1> QED
  BY <1>3 DEF AtLeastOnce!Next

(* Claiming and the passing of time stay within a phase.                    *)
LEMMA OpenStaysOpen ==
  ASSUME TInv, Tick \/ \E w \in Workers : Claim(w)
  PROVE  UNCHANGED AtLeastOnce!vars
<1>1. Unreached
  BY DEF Tick, Claim, Unreached
<1>2. CASE Tick
  BY <1>1, <1>2, TickShape, Stutters DEF Kept, Phase
<1>3. CASE \E w \in Workers : Claim(w)
  <2>1. PICK w \in Workers : Claim(w)
    BY <1>3
  <2>2. PICK S \in SUBSET Ids :
           /\ \A i \in Ids \ S : row'[i] = row[i]
           /\ \A i \in S : /\ row[i].status \in {"pending", "sending"}
                           /\ row'[i].status = "sending" /\ Kept(i)
    BY <2>1, ClaimShape
  <2>3. ASSUME NEW i \in Ids PROVE Phase(i)' = Phase(i) /\ row'[i].rev = row[i].rev
    <3>1. CASE i \in S
      BY <2>2, <3>1 DEF Phase, Kept
    <3>2. CASE i \notin S
      BY <2>2, <3>2 DEF Phase
    <3> QED
      BY <3>1, <3>2
  <2> QED
    BY <1>1, <2>3, Stutters
<1> QED
  BY <1>2, <1>3

(* Closing a message unsent because its channel is off excuses the content  *)
(* the row has now: its owner holds that one.                               *)
LEMMA RenewMaps ==
  ASSUME LInv, NEW w \in Workers, Renew(w)
  PROVE  [AtLeastOnce!Next]_(AtLeastOnce!vars)
<1>1. \A i \in Ids : Phase(i)' = Phase(i) /\ row'[i].rev = row[i].rev
  BY RenewShape DEF LInv, Phase, Kept
<1>2. delivered' = delivered
  BY DEF Renew
<1>3. CASE dropped' = dropped
  BY <1>1, <1>2, <1>3, Stutters DEF Unreached
<1>4. CASE dropped' # dropped
  <2>1. PICK l \in batch[w] : Owns(l) /\ dropped' = [dropped EXCEPT ![l.id] = @ \cup {l.rev}]
    BY <1>4, RenewShape DEF LInv
  <2>2. l \in Held(w) /\ l.id \in Ids
    BY DEF LInv, TInv, TypeOK, Leases, Held
  <2>3. row[l.id].rev = l.rev /\ row[l.id].status = "sending"
    BY <2>1, <2>2 DEF LInv, LeaseIsExclusive, Owns
  <2>4. AtLeastOnce!Reach(l.id)
    BY <1>1, <1>2, <2>1, <2>2, <2>3, Reaches DEF LInv
  <2> QED
    BY <2>2, <2>4 DEF AtLeastOnce!Next
<1> QED
  BY <1>3, <1>4

(* A handler still owns its row when it reaches the recipient, so what it   *)
(* sends is what the row asks for.                                          *)
LEMMA HandleMaps ==
  ASSUME LInv, Timed, NEW w \in Workers, Handle(w)
  PROVE  [AtLeastOnce!Next]_(AtLeastOnce!vars)
<1>1. row' = row /\ dropped' = dropped /\ pc[w] = "deliver"
  BY DEF Handle
<1>2. \A i \in Ids : Phase(i)' = Phase(i) /\ row'[i].rev = row[i].rev
  BY <1>1 DEF Phase
<1>3. CASE delivered' = delivered
  BY <1>1, <1>2, <1>3, Stutters DEF Unreached
<1>4. CASE delivered' # delivered
  <2>1. delivered' = [delivered EXCEPT ![cur[w].id] = @ \cup {cur[w].rev}]
    BY <1>4 DEF Handle
  <2>2. cur[w].id \in Ids /\ cur[w] \in Held(w) /\ Owns(cur[w])
    BY <1>1, InHand DEF LInv, Timed
  <2>3. PICK i \in Ids : i = cur[w].id
    BY <2>2
  <2>4. row[i].rev = cur[w].rev /\ row[i].status = "sending"
    BY <2>2, <2>3 DEF LInv, LeaseIsExclusive, Owns
  <2>5. AtLeastOnce!Reach(i)
    BY <1>1, <1>2, <2>1, <2>3, <2>4, Reaches DEF LInv
  <2> QED
    BY <2>5 DEF AtLeastOnce!Next
<1> QED
  BY <1>3, <1>4

(* Only a message whose content got through is finished.                    *)
LEMMA CloseMaps ==
  ASSUME LInv, TInv', NEW w \in Workers, Complete(w) \/ Fail(w) \/ FailRaises(w)
  PROVE  [AtLeastOnce!Next]_(AtLeastOnce!vars)
<1>0. PICK i \in Ids : i = cur[w].id
  BY CloseShape DEF LInv
<1>1. /\ OthersSame(i) /\ cur[w] \in Held(w) /\ pc[w] = "close"
      /\ Unreached
  BY <1>0, CloseShape, InHand
     DEF LInv, Complete, Fail, FailRaises, LeaveClose, Unreached
<1>2. CASE row' = row
  BY <1>1, <1>2, Stutters DEF Phase
<1>3. CASE row' # row
  <2>1. /\ Owns(cur[w]) /\ Kept(i)
        /\ \/ Complete(w) /\ verdict[w].ok /\ row'[i].status = "sent"
           \/ Fail(w) /\ row'[i].status \in {"pending", "dead"}
    BY <1>0, <1>3, CloseShape DEF LInv
  <2>2. row[i].status = "sending" /\ row[i].rev = cur[w].rev
    BY <1>0, <1>1, <2>1 DEF LInv, LeaseIsExclusive, Owns
  <2>3. Phase(i) = "open"
    BY <1>1, <2>2, PhaseIs DEF LInv
  <2>4. CASE verdict[w].ok /\ row'[i].status = "sent"
    <3>1. row[i].rev \in delivered[i] \cup dropped[i]
      BY <1>0, <1>1, <2>2, <2>4 DEF LInv, Vouched
    <3>2. Phase(i)' = "sent"
      BY <2>4 DEF Phase
    <3>3. AtLeastOnce!Move(i, "open", "sent")
      BY <1>1, <2>1, <2>3, <3>2, Moves DEF LInv
    <3>4. AtLeastOnce!Finish(i)
      BY <1>1, <3>1, <3>3 DEF AtLeastOnce!Finish
    <3> QED
      BY <1>1, <3>4 DEF AtLeastOnce!Next
  <2>5. CASE row'[i].status = "pending"
    <3>1. \A j \in Ids : Phase(j)' = Phase(j) /\ row'[j].rev = row[j].rev
      BY <1>1, <2>1, <2>3, <2>5 DEF Phase, OthersSame, Kept
    <3> QED
      BY <1>1, <3>1, Stutters
  <2>6. CASE row'[i].status = "dead"
    <3>1. Phase(i)' = "dead"
      BY <2>6 DEF Phase
    <3>2. AtLeastOnce!GiveUp(i)
      BY <1>1, <2>1, <2>3, <3>1, Moves DEF LInv, AtLeastOnce!GiveUp
    <3> QED
      BY <1>1, <3>2 DEF AtLeastOnce!Next
  <2> QED
    BY <2>1, <2>4, <2>5, <2>6
<1> QED
  BY <1>2, <1>3

LEMMA RequeueMaps ==
  ASSUME TInv, TInv', NEW i \in Ids, Requeue(i)
  PROVE  AtLeastOnce!Next
<1>1. Unreached
  BY DEF Requeue, Unreached
<1>2. Phase(i) = "dead" /\ Phase(i)' = "open"
  BY RequeueShape DEF Phase
<1>3. AtLeastOnce!Revive(i)
  BY <1>1, <1>2, RequeueShape, Moves DEF AtLeastOnce!Revive
<1> QED
  BY <1>3 DEF AtLeastOnce!Next

LEMMA NextMaps ==
  ASSUME LInv, Timed, VInv, [Next]_vars
  PROVE  [AtLeastOnce!Next]_(AtLeastOnce!vars)
<1>1. TInv /\ TInv' /\ Behind
  BY NextTInv DEF VInv
<1>2. CASE UNCHANGED vars
  BY <1>2, Stutters DEF vars, Unreached, Phase
<1>3. CASE \/ \E w \in Workers : StartTick(w) \/ Crash(w)
           \/ \E c \in Channels : Switch(c)
  <2>1. row' = row
    BY <1>3, QuietShape
  <2>2. Unreached
    BY <1>3 DEF StartTick, Crash, Switch, Unreached
  <2> QED
    BY <2>1, <2>2, Stutters DEF Phase
<1>4. CASE \/ EnqueueUnknown \/ \E e \in Entities : EnqueueWebPush(e)
           \/ \E w \in Workers : Produce(w)
           \/ \E i \in Ids : Requeue(i)
  BY <1>1, <1>4, EnqueueMaps, UnknownMaps, ProduceMaps, RequeueMaps
<1>5. CASE Tick \/ \E w \in Workers : Claim(w)
  BY <1>1, <1>5, OpenStaysOpen
<1>6. CASE \E w \in Workers : Renew(w) \/ Handle(w) \/ Complete(w) \/ Fail(w) \/ FailRaises(w)
  BY <1>1, <1>6, RenewMaps, HandleMaps, CloseMaps
<1> QED
  BY <1>2, <1>3, <1>4, <1>5, <1>6 DEF Next, Step, WorkerStep

(* The outbox implements at-least-once delivery: every behaviour of its     *)
(* workers, leases and clock is one of Delivery.                            *)
THEOREM OutboxImplementsDelivery == Spec => DeliversAtLeastOnce
<1>1. Init => AtLeastOnce!Init
  BY DEF Init, AtLeastOnce!Init, Phase, NoRow
<1>2. LInv /\ Timed /\ VInv /\ [Next]_vars => [AtLeastOnce!Next]_(AtLeastOnce!vars)
  BY NextMaps
<1> QED
  BY <1>1, <1>2, LeaseInvariant, TimedInvariant, VersionInvariant, PTL
     DEF Spec, DeliversAtLeastOnce, AtLeastOnce!Spec
-----------------------------------------------------------------------------
(* Alerts.  The NOT EXISTS of the producing statement is read before the    *)
(* rows are inserted, so it guards against a second round only when no two  *)
(* workers produce.                                                         *)
OneProducer == \A v, w \in Workers : LaneOf[v] # "web" /\ LaneOf[w] # "web" => v = w

(* No key has two messages, and what a round is about to produce has none.  *)
Once == /\ \A i, j \in Ids :
             row[i].topic = "alert" /\ row[j].topic = "alert" /\ row[i].key = row[j].key
               => i = j
        /\ \A w \in Workers : \A a \in seen[w].fresh : LaneOf[w] # "web" /\ ~Announced(a)

(* Outside the producing step nobody gets a message for an alert, and only  *)
(* the start of a round takes a snapshot.                                   *)
LEMMA AlertsKept ==
  ASSUME TInv, Once, Next, ~\E w \in Workers : Produce(w)
  PROVE  Once'
<1>1. ASSUME NEW i \in Ids, row'[i].topic = "alert"
      PROVE  row[i].topic = "alert" /\ row'[i].key = row[i].key
  <2>1. CASE \E e \in Entities : EnqueueWebPush(e)
    <3>1. PICK k \in Ids : OthersSame(k) /\ row'[k].topic = "push"
      BY <2>1, EnqueueShape
    <3> QED
      BY <1>1, <3>1 DEF OthersSame
  <2>2. CASE ~\E e \in Entities : EnqueueWebPush(e)
    BY <1>1, <2>2, ContentsKept DEF Kept
  <2> QED
    BY <2>1, <2>2
<1>2. \A a : Announced(a)' => Announced(a)
  BY <1>1 DEF Announced
<1>3. ASSUME NEW w \in Workers, NEW a \in seen'[w].fresh
      PROVE  LaneOf[w] # "web" /\ ~Announced(a)
  <2>1. seen \in [Workers -> [enabled : SUBSET Channels, fresh : SUBSET Alerts]]
    BY DEF TInv, TypeOK
  <2>2. CASE \E v \in Workers : StartTick(v)
    <3>1. PICK v \in Workers : StartTick(v)
      BY <2>2
    <3>2. PICK made \in BOOLEAN :
            seen' = [seen EXCEPT ![v] =
                      [enabled |-> enabled,
                       fresh |-> IF LaneOf[v] # "web" /\ made
                                 THEN {b \in Alerts : ~Announced(b)} ELSE {}]]
      BY <3>1 DEF StartTick
    <3> QED
      BY <1>3, <2>1, <3>2 DEF Once
  <2>3. CASE ~\E v \in Workers : StartTick(v)
    <3>1. seen'[w].fresh \subseteq seen[w].fresh
      <4>1. seen' = seen \/ \E v \in Workers : seen' = [seen EXCEPT ![v].fresh = {}]
        BY <2>3, Zenon DEF Next, Step, WorkerStep, EnqueueWebPush, EnqueueUnknown, Claim, Renew,
           Handle, Complete, Fail, FailRaises, LeaveClose, Crash, Switch, Requeue, Tick
      <4> QED
        BY <2>1, <4>1
    <3> QED
      BY <1>3, <3>1 DEF Once
  <2> QED
    BY <2>2, <2>3
<1> QED
  BY <1>1, <1>2, <1>3 DEF Once

LEMMA ProduceOnce ==
  ASSUME OneProducer, TInv, Once, NEW w \in Workers, Produce(w)
  PROVE  Once'
<1>1. PICK S \in SUBSET Absent :
         /\ \A i \in Ids \ S : row'[i] = row[i]
         /\ \A i \in S : row'[i].topic = "alert" /\ row'[i].key \in seen[w].fresh
         /\ \A i, j \in S : row'[i].key = row'[j].key => i = j
  BY ProduceShape
<1>2. ASSUME NEW v \in Workers, NEW a \in seen'[v].fresh
      PROVE  LaneOf[v] # "web" /\ ~Announced(a)'
  <2>1. /\ seen' = [seen EXCEPT ![w].fresh = {}]
        /\ seen \in [Workers -> [enabled : SUBSET Channels, fresh : SUBSET Alerts]]
    BY DEF Produce, TInv, TypeOK
  <2>2. v # w /\ seen'[v] = seen[v]
    BY <1>2, <2>1
  <2>3. LaneOf[v] # "web" /\ ~Announced(a)
    BY <1>2, <2>2 DEF Once
  <2>4. seen[w].fresh = {}
    BY <2>2, <2>3 DEF Once, OneProducer
  <2>5. \A i \in Ids : row'[i] = row[i]
    BY <1>1, <2>4
  <2> QED
    BY <2>3, <2>5 DEF Announced
<1>3. ASSUME NEW i \in Ids, NEW j \in Ids, row'[i].topic = "alert", row'[j].topic = "alert",
             row'[i].key = row'[j].key
      PROVE  i = j
  <2>1. CASE i \in S /\ j \in S
    BY <1>1, <1>3, <2>1
  <2>2. CASE i \notin S /\ j \notin S
    BY <1>1, <1>3, <2>2 DEF Once
  <2>3. CASE i \in S /\ j \notin S
    BY <1>1, <1>3, <2>3 DEF Once, Announced
  <2>4. CASE i \notin S /\ j \in S
    BY <1>1, <1>3, <2>4 DEF Once, Announced
  <2> QED
    BY <2>1, <2>2, <2>3, <2>4
<1> QED
  BY <1>2, <1>3 DEF Once

(* With one producing worker an alert is made at most once per key, however *)
(* often it restarts in the middle of a round.                              *)
THEOREM AlertedOnce ==
  ASSUME OneProducer
  PROVE  Spec => []OneAlertPerKey
<1>1. Init => Once
  BY DEF Init, Once, NoRow
<1>2. TInv /\ Once /\ [Next]_vars => Once'
  <2>1. TInv /\ Once /\ Next => Once'
    BY AlertsKept, ProduceOnce
  <2>2. Once /\ UNCHANGED vars => Once'
    BY DEF vars, Once, Announced
  <2> QED
    BY <2>1, <2>2
<1>3. Once => OneAlertPerKey
  <2> SUFFICES ASSUME Once, NEW a \in Alerts
               PROVE  Cardinality({i \in Ids : row[i].topic = "alert" /\ row[i].key = a}) <= 1
    BY DEF OneAlertPerKey
  <2> DEFINE T == {i \in Ids : row[i].topic = "alert" /\ row[i].key = a}
  <2>1. CASE T = {}
    BY <2>1, FS_EmptySet
  <2>2. CASE T # {}
    <3>1. PICK i : i \in T
      BY <2>2
    <3>2. T = {i}
      BY <3>1 DEF Once
    <3>3. Cardinality(T) = 1
      BY <3>2, FS_Singleton
    <3> QED
      BY <3>3
  <2> QED
    BY <2>1, <2>2
<1>4. VInv => TInv
  BY DEF VInv
<1> QED
  BY <1>1, <1>2, <1>3, <1>4, VersionInvariant, PTL DEF Spec
=============================================================================
