------------------------------- MODULE Outbox -------------------------------
(***************************************************************************)
(* The transactional outbox (platform.outbox_message) and the workers that *)
(* drain it.  A producer's transaction inserts a message; a worker claims  *)
(* a batch under a lease, renews the lease before each message, runs the   *)
(* topic's handler, and closes the message by compare-and-swap on the      *)
(* lease token.  The SQL functions are those in force after migration 100; *)
(* the worker is apps/api/src/worker/loop.ts.                              *)
(*                                                                         *)
(* Time is a set of countdowns: row.wait is next_attempt_at - now() cut    *)
(* at 0, left[w] is what remains of the longest time a handler may take    *)
(* (every network call in a handler carries a timeout).  claim_token is a  *)
(* fresh uuid per claimed row; the ordinal of the claim within its row     *)
(* stands for it, because every comparison is of (id, token) together.     *)
(***************************************************************************)
EXTENDS Naturals, FiniteSets

CONSTANTS
  Workers,      \* worker processes
  LaneOf,       \* WORKER_LANE of each worker
  Ids,          \* the rows the bigserial can hand out in this instance
  Entities,     \* variations whose stock or price is pushed
  Alerts,       \* (cheque or alarm, business date) keys that are due
  MaxAttempts,  \* notify.max_attempts
  BatchSize,    \* WORKER_BATCH
  Lease,        \* WORKER_LEASE_SECONDS
  HandlerTime,  \* longest run of a handler, below the lease
  Backoff,      \* delay after the n-th attempt, n capped by BackoffSteps
  BackoffSteps,
  RetryAfters,  \* Retry-After answers the site gives; 0 is none
  MaxRev,       \* bound: versions per entity
  MaxEnv,       \* bound: crashes, switch flips and requeues together
  MaxClaims     \* bound: claims of one row

Lanes == {"all", "web", "notify"}
Topics == {"push", "alert", "unknown"}
Channels == {"push", "alert"}
WebTopics == {"push"}

ASSUME OutboxConstants ==
  /\ LaneOf \in [Workers -> Lanes]
  /\ Lease \in Nat \ {0} /\ HandlerTime \in Nat /\ HandlerTime < Lease
  /\ MaxAttempts \in Nat \ {0} /\ BatchSize \in Nat \ {0}
  /\ BackoffSteps \in Nat \ {0} /\ Backoff \in [1..BackoffSteps -> Nat]
  /\ RetryAfters \subseteq Nat /\ MaxRev \in Nat /\ MaxEnv \in Nat /\ MaxClaims \in Nat
  /\ IsFiniteSet(Ids) /\ "none" \notin Ids    \* NoKey names no row

VARIABLES
  row,        \* platform.outbox_message, by id
  rev,        \* the version of each entity last enqueued
  enabled,    \* channels switched on in platform.setting
  pc, batch, cur, left, verdict, seen,   \* the workers, see TypeOK
  delivered,  \* history: contents of each row that reached the recipient
  dropped,    \* history: contents closed unsent because the channel was off
  env         \* crashes, switch flips and requeues so far

vars == <<row, rev, enabled, pc, batch, cur, left, verdict, seen,
          delivered, dropped, env>>
workerVars == <<pc, batch, cur, left, verdict, seen>>
history == <<delivered, dropped>>

NoKey == "none"
Keys == Entities \cup Alerts \cup {NoKey}
NoLease == [id |-> NoKey, token |-> 0, rev |-> 0, topic |-> "unknown"]
NoRow == [status |-> "absent", topic |-> "unknown", key |-> NoKey, rev |-> 0,
          attempts |-> 0, wait |-> 0, token |-> 0, gen |-> 0]
NoVerdict == [ok |-> FALSE, permanent |-> FALSE, retryAfter |-> 0]

Statuses == {"absent", "pending", "sending", "sent", "dead"}
Rows == [status : Statuses, topic : Topics, key : Keys, rev : Nat,
         attempts : Nat, wait : Nat, token : Nat, gen : Nat]
Leases == [id : Ids, token : Nat, rev : Nat, topic : Topics]

TypeOK ==
  /\ row \in [Ids -> Rows]
  /\ rev \in [Entities -> Nat]
  /\ enabled \in SUBSET Channels
  /\ pc \in [Workers -> {"idle", "produce", "claim", "next", "deliver", "close"}]
  /\ batch \in [Workers -> SUBSET Leases]        \* claimed, not yet started
  /\ cur \in [Workers -> Leases \cup {NoLease}]  \* the message in hand
  /\ left \in [Workers -> Nat]                   \* handler time remaining
  /\ verdict \in [Workers -> [ok : BOOLEAN, permanent : BOOLEAN, retryAfter : Nat]]
  /\ seen \in [Workers -> [enabled : SUBSET Channels, fresh : SUBSET Alerts]]
  /\ delivered \in [Ids -> SUBSET Nat]
  /\ dropped \in [Ids -> SUBSET Nat]
  /\ env \in Nat

Init ==
  /\ row = [i \in Ids |-> NoRow]
  /\ rev = [e \in Entities |-> 0]
  /\ enabled = Channels
  /\ pc = [w \in Workers |-> "idle"]
  /\ batch = [w \in Workers |-> {}]
  /\ cur = [w \in Workers |-> NoLease]
  /\ left = [w \in Workers |-> 0]
  /\ verdict = [w \in Workers |-> NoVerdict]
  /\ seen = [w \in Workers |-> [enabled |-> Channels, fresh |-> {}]]
  /\ delivered = [i \in Ids |-> {}]
  /\ dropped = [i \in Ids |-> {}]
  /\ env = 0

-----------------------------------------------------------------------------
Absent == {i \in Ids : row[i].status = "absent"}
Pending(t, k) == {i \in Ids : /\ row[i].status = "pending"
                              /\ row[i].topic = t /\ row[i].key = k}

NewRow(t, k, n) == [NoRow EXCEPT !.status = "pending", !.topic = t,
                                 !.key = k, !.rev = n]

(* wrong: ON CONFLICT DO NOTHING *)
AmendedNothing(r, n) == r
Amended(r, n) == [r EXCEPT !.rev = n, !.attempts = 0, !.wait = 0]

(* enqueue_web_push: INSERT .. ON CONFLICT on the partial unique index over *)
(* the pending rows of (topic, variationId); the conflicting row takes the  *)
(* new content and becomes due at once.  It runs inside the transaction     *)
(* that changed the stock row, whose lock orders the versions of an entity. *)
EnqueueWebPush(e) ==
  /\ "push" \in enabled
  /\ rev[e] < MaxRev
  /\ rev' = [rev EXCEPT ![e] = @ + 1]
  /\ IF Pending("push", e) # {}
     THEN \E i \in Pending("push", e) :
            row' = [row EXCEPT ![i] = Amended(@, rev[e] + 1)]
     ELSE \E i \in Absent : row' = [row EXCEPT ![i] = NewRow("push", e, rev[e] + 1)]
  /\ UNCHANGED <<enabled, workerVars, history, env>>

(* A plain INSERT by a producer of a topic no handler is registered for.    *)
EnqueueUnknown ==
  /\ \E i \in Absent : row' = [row EXCEPT ![i] = NewRow("unknown", NoKey, 1)]
  /\ UNCHANGED <<rev, enabled, workerVars, history, env>>

-----------------------------------------------------------------------------
(* One round of a worker: tick().                                           *)

(* wrong: only messages still on their way count *)
AnnouncedOpen(a) == \E i \in Ids : /\ row[i].topic = "alert" /\ row[i].key = a
                                   /\ row[i].status \in {"pending", "sending"}
Announced(a) == \E i \in Ids : row[i].topic = "alert" /\ row[i].key = a

(* Settings are read first and used for the whole round.  In a producing    *)
(* lane the statement of enqueue_due_cheque_alerts / enqueue_health_alerts   *)
(* takes its snapshot: the keys no message exists for.  Health alerts are   *)
(* made only while switched on, cheque alerts always.                       *)
StartTick(w) ==
  /\ pc[w] = "idle"
  /\ \E made \in BOOLEAN :
       /\ "alert" \in enabled => made
       /\ seen' = [seen EXCEPT ![w] =
                     [enabled |-> enabled,
                      fresh |-> IF LaneOf[w] # "web" /\ made
                                THEN {a \in Alerts : ~Announced(a)} ELSE {}]]
  /\ pc' = [pc EXCEPT ![w] = IF LaneOf[w] = "web" THEN "claim" ELSE "produce"]
  /\ UNCHANGED <<row, rev, enabled, batch, cur, left, verdict, history, env>>

(* ... and then inserts one message per key of that snapshot; when the      *)
(* instance has no ids left for them the round goes on without.             *)
Produce(w) ==
  /\ pc[w] = "produce"
  /\ \/ /\ Cardinality(Absent) < Cardinality(seen[w].fresh)
        /\ row' = row
     \/ \E new \in [seen[w].fresh -> Absent] :
          /\ \A a, b \in seen[w].fresh : a # b => new[a] # new[b]
          /\ row' = [i \in Ids |->
                       IF \E a \in seen[w].fresh : new[a] = i
                       THEN NewRow("alert", CHOOSE a \in seen[w].fresh : new[a] = i, 1)
                       ELSE row[i]]
  /\ seen' = [seen EXCEPT ![w].fresh = {}]
  /\ pc' = [pc EXCEPT ![w] = "claim"]
  /\ UNCHANGED <<rev, enabled, batch, cur, left, verdict, history, env>>

(* wrong: the notify lane as a list of topics, not the complement of web *)
InListedLane(w, t) == CASE LaneOf[w] = "all" -> TRUE
                        [] LaneOf[w] = "web" -> t \in WebTopics
                        [] LaneOf[w] = "notify" -> t = "alert"

InLane(w, t) == CASE LaneOf[w] = "all" -> TRUE
                  [] LaneOf[w] = "web" -> t \in WebTopics
                  [] LaneOf[w] = "notify" -> t \notin WebTopics

Due(w) == {i \in Ids : /\ row[i].status \in {"pending", "sending"}
                       /\ row[i].wait = 0 /\ row[i].gen < MaxClaims
                       /\ InLane(w, row[i].topic)}

(* wrong: the attempt number as the token; a requeue starts it over *)
AttemptAsToken(i) == row[i].attempts + 1
NextToken(i) == row[i].gen + 1

Claimed(i) == [row[i] EXCEPT !.status = "sending", !.attempts = @ + 1, !.gen = @ + 1,
                             !.token = NextToken(i), !.wait = Lease]
LeaseOn(i) == [id |-> i, token |-> NextToken(i), rev |-> row[i].rev,
               topic |-> row[i].topic]

(* claim_outbox: up to p_limit due rows, expired leases included, each with *)
(* a fresh token.  Rows are taken oldest first; the countdowns do not       *)
(* remember age, so any choice of that many due rows is allowed.            *)
Claim(w) ==
  /\ pc[w] = "claim"
  /\ \E S \in SUBSET Due(w) :
       /\ Cardinality(S) = BatchSize \/ (S = Due(w) /\ Cardinality(S) < BatchSize)
       /\ row' = [i \in Ids |-> IF i \in S THEN Claimed(i) ELSE row[i]]
       /\ batch' = [batch EXCEPT ![w] = {LeaseOn(i) : i \in S}]
       /\ pc' = [pc EXCEPT ![w] = IF S = {} THEN "idle" ELSE "next"]
  /\ UNCHANGED <<rev, enabled, cur, left, verdict, seen, history, env>>

(* wrong: the contract before migration 100, any holder may close *)
OwnsBySending(l) == row[l.id].status = "sending"
Owns(l) == row[l.id].status = "sending" /\ row[l.id].token = l.token

EndOfRound(w, b) == IF b = {} THEN "idle" ELSE "next"

(* wrong: ownership is checked and the lease not extended *)
CheckedOnly(r) == r
Renewed(r) == [r EXCEPT !.wait = Lease]

(* renew_outbox before each message.  A lease that was taken over is        *)
(* skipped; an unknown topic goes straight to a permanent failure; a topic  *)
(* whose channel the round saw switched off is closed without sending.      *)
Renew(w) ==
  /\ pc[w] = "next"
  /\ \E l \in batch[w] :
       LET b == batch[w] \ {l} IN
       /\ batch' = [batch EXCEPT ![w] = b]
       /\ \/ /\ ~Owns(l)
             /\ pc' = [pc EXCEPT ![w] = EndOfRound(w, b)]
             /\ UNCHANGED <<row, cur, left, verdict, dropped>>
          \/ /\ Owns(l)
             /\ row' = [row EXCEPT ![l.id] = Renewed(@)]
             /\ cur' = [cur EXCEPT ![w] = l]
             /\ \/ /\ l.topic = "unknown"
                   /\ pc' = [pc EXCEPT ![w] = "close"]
                   /\ verdict' = [verdict EXCEPT ![w] = [NoVerdict EXCEPT !.permanent = TRUE]]
                   /\ UNCHANGED <<left, dropped>>
                \/ /\ l.topic \in Channels \ seen[w].enabled
                   /\ pc' = [pc EXCEPT ![w] = "close"]
                   /\ verdict' = [verdict EXCEPT ![w] = [NoVerdict EXCEPT !.ok = TRUE]]
                   /\ dropped' = [dropped EXCEPT ![l.id] = @ \cup {l.rev}]
                   /\ UNCHANGED left
                \/ /\ l.topic \in seen[w].enabled
                   /\ pc' = [pc EXCEPT ![w] = "deliver"]
                   /\ left' = [left EXCEPT ![w] = HandlerTime]
                   /\ UNCHANGED <<verdict, dropped>>
  /\ UNCHANGED <<rev, enabled, seen, delivered, env>>

(* The handler sends the content it was handed at the claim.  An error may  *)
(* come after the recipient got it: a timeout on the answer, or the second  *)
(* of two sends failing.                                                    *)
Handle(w) ==
  /\ pc[w] = "deliver"
  /\ \E ok, reached, permanent \in BOOLEAN, r \in RetryAfters :
       /\ ok => reached /\ ~permanent /\ r = 0
       /\ permanent => r = 0
       /\ verdict' = [verdict EXCEPT ![w] =
                        [ok |-> ok, permanent |-> permanent, retryAfter |-> r]]
       /\ delivered' = IF reached
                       THEN [delivered EXCEPT ![cur[w].id] = @ \cup {cur[w].rev}]
                       ELSE delivered
  /\ pc' = [pc EXCEPT ![w] = "close"]
  /\ left' = [left EXCEPT ![w] = 0]
  /\ UNCHANGED <<row, rev, enabled, batch, cur, seen, dropped, env>>

LeaveClose(w, b) ==
  /\ batch' = [batch EXCEPT ![w] = b]
  /\ pc' = [pc EXCEPT ![w] = EndOfRound(w, b)]
  /\ cur' = [cur EXCEPT ![w] = NoLease]
  /\ verdict' = [verdict EXCEPT ![w] = NoVerdict]
  /\ UNCHANGED <<rev, enabled, left, seen, history, env>>

(* complete_outbox: nothing changes unless the token still owns the row.    *)
Complete(w) ==
  /\ pc[w] = "close" /\ verdict[w].ok
  /\ row' = IF Owns(cur[w])
            THEN [row EXCEPT ![cur[w].id].status = "sent", ![cur[w].id].token = 0]
            ELSE row
  /\ LeaveClose(w, batch[w])

Larger(a, b) == IF a > b THEN a ELSE b
Delay(n, r) == Larger(Backoff[IF n < BackoffSteps THEN n ELSE BackoffSteps], r)

Exhausted(w) == verdict[w].permanent \/ row[cur[w].id].attempts >= MaxAttempts

(* The UPDATE back to pending meets the unique index when a newer message   *)
(* of the same entity is already waiting.                                   *)
Collides(w) == /\ ~Exhausted(w)
               /\ cur[w].topic = "push"
               /\ Pending("push", row[cur[w].id].key) # {}

(* fail_outbox: 'lost' without the token, 'dead' when exhausted, otherwise  *)
(* 'pending' after max(backoff, Retry-After).                               *)
Fail(w) ==
  /\ pc[w] = "close" /\ ~verdict[w].ok /\ ~(Owns(cur[w]) /\ Collides(w))
  /\ LET i == cur[w].id
         r == verdict[w].retryAfter IN
     row' = IF ~Owns(cur[w]) THEN row
            ELSE IF Exhausted(w)
            THEN [row EXCEPT ![i].status = "dead", ![i].token = 0, ![i].wait = 0]
            ELSE [row EXCEPT ![i].status = "pending", ![i].token = 0,
                             ![i].wait = Delay(row[i].attempts, r)]
  /\ LeaveClose(w, batch[w])

(* The collision raises in fail_outbox; tick() has no handler for it, the   *)
(* loop logs the failed round and the rest of the batch waits for its lease. *)
FailRaises(w) ==
  /\ pc[w] = "close" /\ ~verdict[w].ok /\ Owns(cur[w]) /\ Collides(w)
  /\ row' = row
  /\ LeaveClose(w, {})

-----------------------------------------------------------------------------
(* The surroundings.                                                        *)

Budget == env < MaxEnv /\ env' = env + 1

(* A worker dies, or its round fails on a lost database connection: what it *)
(* held is forgotten and it comes back at the start of a round.             *)
Crash(w) ==
  /\ Budget
  /\ pc[w] # "idle"
  /\ pc' = [pc EXCEPT ![w] = "idle"]
  /\ batch' = [batch EXCEPT ![w] = {}]
  /\ cur' = [cur EXCEPT ![w] = NoLease]
  /\ left' = [left EXCEPT ![w] = 0]
  /\ verdict' = [verdict EXCEPT ![w] = NoVerdict]
  /\ seen' = [seen EXCEPT ![w].fresh = {}]
  /\ UNCHANGED <<row, rev, enabled, history>>

(* The owner flips notify.* or web.push_enabled.                            *)
Switch(c) ==
  /\ Budget
  /\ enabled' = IF c \in enabled THEN enabled \ {c} ELSE enabled \cup {c}
  /\ UNCHANGED <<row, rev, workerVars, history>>

(* wrong: any closed message may be sent again *)
RequeueableClosed(i) == row[i].status \in {"dead", "sent"}
Requeueable(i) == row[i].status = "dead"

(* requeue_dead_letter, by an administrator.  Going back to pending meets   *)
(* the same unique index as fail_outbox; then it raises and nothing changes. *)
Requeue(i) ==
  /\ Budget
  /\ Requeueable(i)
  /\ row[i].topic = "push" => Pending("push", row[i].key) = {}
  /\ row' = [row EXCEPT ![i].status = "pending", ![i].attempts = 0, ![i].wait = 0]
  /\ UNCHANGED <<rev, enabled, workerVars, history>>

Down(n) == IF n = 0 THEN 0 ELSE n - 1

(* Time passes, but never beyond the time a running handler may take.       *)
Tick ==
  /\ \E i \in Ids : row[i].wait > 0
  /\ \A w \in Workers : pc[w] = "deliver" => left[w] > 0
  /\ row' = [i \in Ids |-> [row[i] EXCEPT !.wait = Down(@)]]
  /\ left' = [w \in Workers |-> Down(left[w])]
  /\ UNCHANGED <<rev, enabled, pc, batch, cur, verdict, seen, history, env>>

WorkerStep(w) == \/ StartTick(w) \/ Produce(w) \/ Claim(w) \/ Renew(w)
                 \/ Handle(w) \/ Complete(w) \/ Fail(w) \/ FailRaises(w)

Step == \/ \E e \in Entities : EnqueueWebPush(e)
        \/ EnqueueUnknown
        \/ \E w \in Workers : WorkerStep(w) \/ Crash(w)
        \/ \E c \in Channels : Switch(c)
        \/ \E i \in Ids : Requeue(i)

Next == Step \/ Tick

Spec == Init /\ [][Next]_vars

(* runLoop keeps every worker going and survives a failed round; the clock  *)
(* runs.  Nothing is assumed of producers, operators or crashes.  One claim *)
(* of timing is needed: renewing and closing take less than a unit of the   *)
(* clock, so time passes for a worker in its sleep, a poll or a handler.    *)
(* Without it two slow workers could take a lease from each other forever.  *)
PromptTick == Tick /\ \A w \in Workers : pc[w] \notin {"next", "close"}

FairSpec == /\ Init /\ [][Step \/ PromptTick]_vars
            /\ WF_vars(PromptTick) /\ \A w \in Workers : WF_vars(WorkerStep(w))

-----------------------------------------------------------------------------
(* What the outbox promises.                                                *)

Held(w) == batch[w] \cup ({cur[w]} \ {NoLease})

(* A claim token names one holder: no two workers ever hold the same token  *)
(* of a row, and whoever still owns a row holds the content the row has now *)
(* (claim_outbox, renew_outbox; a row in 'sending' is never amended).       *)
LeaseIsExclusive ==
  \A v, w \in Workers : \A l \in Held(v), m \in Held(w) :
    /\ l.id = m.id /\ l.token = m.token => v = w /\ l = m
    /\ Owns(l) => row[l.id].rev = l.rev

(* A message marked 'sent' reached its recipient with the content it holds, *)
(* or its channel was off: no late worker closes a message whose newer      *)
(* content it never sent (complete_outbox).                                 *)
SentMeansDelivered ==
  \A i \in Ids : row[i].status = "sent" => row[i].rev \in delivered[i] \cup dropped[i]

(* Two workers are never inside the handler of one message at once: the     *)
(* renewal before each message gives it a whole lease, longer than the      *)
(* handler may run (loop.ts:MESSAGE_BUDGET_SECONDS, assertLease).           *)
NoConcurrentDelivery ==
  \A v, w \in Workers : pc[v] = "deliver" /\ pc[w] = "deliver" /\ v # w
                          => cur[v].id # cur[w].id

(* The newest version of an entity is never lost: it is waiting, in flight, *)
(* in the dead letters, or was delivered (or dropped with its channel off). *)
LatestIsTracked ==
  \A e \in Entities : rev[e] > 0 =>
    \E i \in Ids : /\ row[i].topic = "push" /\ row[i].key = e /\ row[i].rev = rev[e]
                   /\ \/ row[i].status \in {"pending", "sending", "dead"}
                      \/ rev[e] \in delivered[i] \cup dropped[i]

(* An alert is made once per key, however often the producer runs, as long  *)
(* as one worker produces at a time (the NOT EXISTS of                       *)
(* enqueue_due_cheque_alerts looks at closed messages too).                  *)
OneAlertPerKey ==
  \A a \in Alerts :
    Cardinality({i \in Ids : row[i].topic = "alert" /\ row[i].key = a}) <= 1

(* A message in flight leaves 'sending' only by the hand of the worker that *)
(* holds its current token: a worker whose lease was taken over changes     *)
(* nothing (the compare-and-swap of complete_outbox and fail_outbox).       *)
StaleOwnerChangesNothing ==
  [][\A i \in Ids : row[i].status = "sending" /\ row'[i].status # "sending"
       => \E w \in Workers : /\ pc[w] = "close" /\ pc'[w] # "close"
                             /\ cur[w].id = i /\ cur[w].token = row[i].token]_vars

(* Every message ends: once enqueued it is eventually sent or put among the *)
(* dead letters, whatever fails, as long as the workers run.                *)
EveryMessageEnds ==
  \A i \in Ids : row[i].status \in {"pending", "sending"}
                   ~> row[i].status \in {"sent", "dead"}

(* The outbox is at-least-once delivery: seen without its workers it takes  *)
(* only the steps of Delivery.  A sent message is never reopened, a message *)
(* is finished only with its content delivered, and only dead letters come  *)
(* back (the contract in the header of 031_outbox_worker.sql and 100).      *)
Phase(i) == CASE row[i].status = "absent" -> "none"
              [] row[i].status \in {"pending", "sending"} -> "open"
              [] OTHER -> row[i].status

AtLeastOnce == INSTANCE Delivery WITH
  state  <- [i \in Ids |-> Phase(i)],
  wanted <- [i \in Ids |-> row[i].rev],
  got    <- [i \in Ids |-> delivered[i] \cup dropped[i]]

DeliversAtLeastOnce == AtLeastOnce!Spec

-----------------------------------------------------------------------------
(* What the repository says and the code does not keep.                     *)

(* fail_outbox answers 'pending', 'dead' or 'lost'                          *)
(* (100_outbox_lease_token.sql, header): its owner is never left with a     *)
(* message that is still 'sending'.                                         *)
FailAlwaysAnswers ==
  [][\A w \in Workers :
       pc[w] = "close" /\ ~verdict[w].ok /\ Owns(cur[w]) /\ pc'[w] # "close" /\ env' = env
         => row'[cur[w].id].status \in {"pending", "dead"}]_vars
=============================================================================
