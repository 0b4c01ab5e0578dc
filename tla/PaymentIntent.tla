--------------------------- MODULE PaymentIntent ----------------------------
(***************************************************************************)
(* What the server promises about a payment the cashier meant to take: its *)
(* fate is settled once, and a final verdict is the fate.                  *)
(***************************************************************************)
CONSTANT Keys  \* identities of the payments the cashier meant to take

VARIABLES
  fate,   \* of each intent: open, recorded, or never to be recorded
  heard   \* what the cashier was told of it as final

Fates == {"open", "recorded", "never"}

Init ==
  /\ fate = [k \in Keys |-> "open"]
  /\ heard = [k \in Keys |-> "open"]

\* Any number of open fates may be settled by one step: an invoice that closes
\* settles all its own.
Settle ==
  /\ fate' \in [Keys -> Fates]
  /\ \A k \in Keys : fate[k] # "open" => fate'[k] = fate[k]
  /\ UNCHANGED heard

Tell(k) ==
  /\ fate[k] # "open"
  /\ heard' = [heard EXCEPT ![k] = fate[k]]
  /\ UNCHANGED fate

Next == Settle \/ \E k \in Keys : Tell(k)

Spec == Init /\ [][Next]_<<fate, heard>>
=============================================================================
