------------------------------ MODULE Treasury ------------------------------
(***************************************************************************)
(* Cheques and treasury transactions behind their routes.  Each request runs  *)
(* in runOnce: an outer transaction inserts the inbox row of its key, the     *)
(* service does the work in a transaction of ITS OWN (createAndPost, create,  *)
(* postEvent), and only then the outer one commits.  A crash between the two   *)
(* commits loses the inbox row and keeps the work; the client retries under   *)
(* the same key.  Two requests with one key never overlap: the second waits   *)
(* for the unique index.                                                    *)
(***************************************************************************)
EXTENDS Integers

CONSTANTS
  Taken, Given,  \* treasury.cheque of direction received, issued
  Keys,          \* idempotency keys in use at a time
  MaxCrash       \* bound: crashes between the commits

Cheques == Taken \cup Given
ASSUME TreasuryConstants == Taken \cap Given = {} /\ MaxCrash \in Nat

VARIABLES
  cheque,   \* treasury.cheque.status, "none" before it is written
  events,   \* actions in treasury.cheque_event
  balance,  \* ledger: what a cheque left on each account, debit positive
  request,  \* a client's request, by key
  moved,    \* treasury.transaction rows posted for a key
  crashes

tvars == <<cheque, events, balance, request, moved, crashes>>

Actions == {"receive", "deposit", "clear", "bounce", "endorse", "settle",
            "issue", "pay", "cancel"}
Statuses(c) ==
  {"none", "draft", "cleared", "bounced", "cancelled"} \cup
    IF c \in Taken THEN {"in_hand", "deposited", "endorsed", "settled"} ELSE {"issued"}
Accounts == {"party", "hand", "collection", "bank", "supplier", "returned", "promised"}
Ops == [kind : {"move"}] \cup [kind : {"create"}, c : Cheques]
       \cup [kind : {"event"}, c : Cheques, a : Actions]
NoOp == [kind |-> "none"]

TreasuryTypeOK ==
  /\ cheque \in [Cheques -> UNION {Statuses(c) : c \in Cheques}]
  /\ \A c \in Cheques : cheque[c] \in Statuses(c)
  /\ events \in [Cheques -> SUBSET Actions]
  /\ balance \in [Cheques -> [Accounts -> Int]]
  /\ request \in [Keys -> [op : Ops \cup {NoOp},
                           phase : {"none", "began", "committed", "lost", "sealed"}]]
  /\ moved \in [Keys -> Nat]
  /\ crashes \in 0..MaxCrash

Empty == [x \in Accounts |-> 0]

TreasuryInit ==
  /\ cheque = [c \in Cheques |-> "none"]
  /\ events = [c \in Cheques |-> {}]
  /\ balance = [c \in Cheques |-> Empty]
  /\ request = [k \in Keys |-> [op |-> NoOp, phase |-> "none"]]
  /\ moved = [k \in Keys |-> 0]
  /\ crashes = 0

-----------------------------------------------------------------------------
(* post_cheque_event.                                                       *)

TakenSteps ==
  {<<"draft", "receive", "in_hand">>, <<"in_hand", "deposit", "deposited">>,
   <<"deposited", "clear", "cleared">>, <<"deposited", "bounce", "bounced">>,
   <<"endorsed", "bounce", "bounced">>, <<"in_hand", "endorse", "endorsed">>,
   <<"bounced", "settle", "settled">>, <<"draft", "cancel", "cancelled">>}
GivenSteps ==
  {<<"draft", "issue", "issued">>, <<"issued", "pay", "cleared">>,
   <<"bounced", "pay", "cleared">>, <<"issued", "bounce", "bounced">>,
   <<"draft", "cancel", "cancelled">>, <<"issued", "cancel", "cancelled">>,
   <<"bounced", "cancel", "cancelled">>}

(* Which action takes a cheque from which status to which. *)
Steps(c) == IF c \in Taken THEN TakenSteps ELSE GivenSteps

(* wrong: a bounced cheque is always taken out of collection *)
BouncedFromCollection(status) == "collection"
(* A cheque that was passed on bounces back against the supplier it paid. *)
BouncedFrom(status) == IF status = "deposited" THEN "collection" ELSE "supplier"

(* The debit and the credit side of an action's entry; the issued cheque that  *)
(* bounces and the draft that is cancelled have none.                        *)
Entry(c, a, from) ==
  IF c \in Taken
  THEN CASE a = "receive" -> <<"hand", "party">>
         [] a = "deposit" -> <<"collection", "hand">>
         [] a = "clear"   -> <<"bank", "collection">>
         [] a = "endorse" -> <<"supplier", "hand">>
         [] a = "bounce"  -> <<"returned", BouncedFrom(from)>>
         [] a = "settle"  -> <<"party", "returned">>
         [] OTHER         -> <<>>
  ELSE CASE a = "issue" -> <<"party", "promised">>
         [] a = "pay"   -> <<"promised", "bank">>
         [] a = "cancel" /\ from # "draft" -> <<"promised", "party">>
         [] OTHER -> <<>>

Booked(b, entry) ==
  IF entry = <<>> THEN b
  ELSE [b EXCEPT ![entry[1]] = @ + 1, ![entry[2]] = @ - 1]

(* An action already taken that led to this status is answered, not repeated. *)
Repeats(c, a) == /\ \A step \in Steps(c) : step[1] = cheque[c] => step[2] # a
                 /\ a \in events[c]
                 /\ \E step \in Steps(c) : step[2] = a /\ step[3] = cheque[c]

-----------------------------------------------------------------------------
(* The services' own transactions.                                          *)

Phase(k, phase) == request' = [request EXCEPT ![k].phase = phase]
Working(k, kind) == request[k].phase = "began" /\ request[k].op.kind = kind

CreateAndPost(k) ==
  /\ Working(k, "move")
  /\ moved' = [moved EXCEPT ![k] = @ + 1]
  /\ Phase(k, "committed")
  /\ UNCHANGED <<cheque, events, balance, crashes>>

(* A cheque number is unique per bank: writing it again is refused. *)
CreateCheque(k) ==
  LET c == request[k].op.c
  IN /\ Working(k, "create")
     /\ cheque[c] = "none"
     /\ cheque' = [cheque EXCEPT ![c] = "draft"]
     /\ Phase(k, "committed")
     /\ UNCHANGED <<events, balance, moved, crashes>>

PostEvent(k) ==
  LET c == request[k].op.c
      a == request[k].op.a
  IN /\ Working(k, "event")
     /\ \E step \in Steps(c) :
          /\ step[1] = cheque[c] /\ step[2] = a
          /\ cheque' = [cheque EXCEPT ![c] = step[3]]
     /\ events' = [events EXCEPT ![c] = @ \cup {a}]
     /\ balance' = [balance EXCEPT ![c] = Booked(@, Entry(c, a, cheque[c]))]
     /\ Phase(k, "committed")
     /\ UNCHANGED <<moved, crashes>>

RepeatEvent(k) ==
  /\ Working(k, "event") /\ Repeats(request[k].op.c, request[k].op.a)
  /\ Phase(k, "committed")
  /\ UNCHANGED <<cheque, events, balance, moved, crashes>>

(* A status that does not allow the action, a setting or a missing account. *)
Refused(k) ==
  /\ request[k].phase = "began"
  /\ Phase(k, "lost")
  /\ UNCHANGED <<cheque, events, balance, moved, crashes>>

-----------------------------------------------------------------------------
(* runOnce around them.                                                     *)

(* A new request has a new key; it takes the place of one that was answered,   *)
(* or given up, and is not heard of again.                                  *)
Ask(k, op) ==
  /\ request[k].phase \in {"none", "lost", "sealed"}
  /\ request' = [request EXCEPT ![k] = [op |-> op, phase |-> "began"]]
  /\ moved' = [moved EXCEPT ![k] = 0]
  /\ UNCHANGED <<cheque, events, balance, crashes>>

Retry(k) ==
  /\ request[k].phase = "lost"
  /\ Phase(k, "began")
  /\ UNCHANGED <<cheque, events, balance, moved, crashes>>

(* From here on the key only replays its answer. *)
Seal(k) ==
  /\ request[k].phase = "committed"
  /\ Phase(k, "sealed")
  /\ UNCHANGED <<cheque, events, balance, moved, crashes>>

Crash(k) ==
  /\ request[k].phase = "committed" /\ crashes < MaxCrash
  /\ crashes' = crashes + 1
  /\ Phase(k, "lost")
  /\ UNCHANGED <<cheque, events, balance, moved>>

KeySteps(k) ==
  \/ \E op \in Ops : Ask(k, op)
  \/ Retry(k) \/ Refused(k) \/ Seal(k) \/ Crash(k)
  \/ CreateAndPost(k) \/ CreateCheque(k) \/ PostEvent(k) \/ RepeatEvent(k)

TreasuryNext == \E k \in Keys : KeySteps(k)

TreasurySpec == TreasuryInit /\ [][TreasuryNext]_tvars

-----------------------------------------------------------------------------
Sides(debit, credit) == Booked(Empty, <<debit, credit>>)

(* Whatever way a cheque went, with whatever crashes and repeats, the ledger    *)
(* has its amount where its status says it is: a bounced cheque is nowhere    *)
(* but among the returned, a settled or cancelled one left nothing behind     *)
(* (064:251-267, 064:326-421).                                              *)
AccountsFollowCheque ==
  \A c \in Cheques :
    balance[c] =
      IF c \in Taken
      THEN CASE cheque[c] = "in_hand"   -> Sides("hand", "party")
             [] cheque[c] = "deposited" -> Sides("collection", "party")
             [] cheque[c] = "cleared"   -> Sides("bank", "party")
             [] cheque[c] = "endorsed"  -> Sides("supplier", "party")
             [] cheque[c] = "bounced"   -> Sides("returned", "party")
             [] OTHER                   -> Empty
      ELSE CASE cheque[c] \in {"issued", "bounced"} -> Sides("party", "promised")
             [] cheque[c] = "cleared"               -> Sides("party", "bank")
             [] OTHER                               -> Empty

(* lib/idempotency.ts:16-17: the effect and the inbox row commit together, so   *)
(* a retry under the same key moves the money once.                          *)
MoveOnce == \A k \in Keys : moved[k] <= 1

=============================================================================
