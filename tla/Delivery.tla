------------------------------ MODULE Delivery ------------------------------
(***************************************************************************)
(* What an outbox promises its producers, with no worker, lease or clock:  *)
(* a posted message stays open until the content it asks for has reached   *)
(* the recipient at least once, or it is given up among the dead letters.  *)
(* Content is a version: an open message may be amended to a newer one,    *)
(* and an older one may still reach the recipient late.                    *)
(***************************************************************************)
EXTENDS Naturals

CONSTANT Ids

VARIABLES
  state,   \* "none", "open", "sent" or "dead"
  wanted,  \* the content a message asks to deliver
  got      \* the contents that reached its recipient, or were excused

vars == <<state, wanted, got>>

Init == /\ state = [i \in Ids |-> "none"]
        /\ wanted = [i \in Ids |-> 0]
        /\ got = [i \in Ids |-> {}]

(* Messages are posted, several in one transaction if need be.              *)
Post == \E S \in SUBSET {i \in Ids : state[i] = "none"} :
          /\ state' = [i \in Ids |-> IF i \in S THEN "open" ELSE state[i]]
          /\ \A i \in Ids \ S : wanted'[i] = wanted[i]
          /\ wanted' \in [Ids -> Nat]
          /\ got' = got

Amend(i) == /\ state[i] = "open"
            /\ wanted' \in [Ids -> Nat] /\ wanted'[i] > wanted[i]
            /\ \A j \in Ids \ {i} : wanted'[j] = wanted[j]
            /\ UNCHANGED <<state, got>>

Reach(i) == /\ state[i] # "none"
            /\ \E c \in 0..wanted[i] : got' = [got EXCEPT ![i] = @ \cup {c}]
            /\ UNCHANGED <<state, wanted>>

Move(i, from, to) == /\ state[i] = from
                     /\ state' = [state EXCEPT ![i] = to]
                     /\ UNCHANGED <<wanted, got>>

Finish(i) == wanted[i] \in got[i] /\ Move(i, "open", "sent")
GiveUp(i) == Move(i, "open", "dead")
Revive(i) == Move(i, "dead", "open")

Next == Post \/ \E i \in Ids : Amend(i) \/ Reach(i) \/ Finish(i) \/ GiveUp(i) \/ Revive(i)

Spec == Init /\ [][Next]_vars
=============================================================================
