------------------------------ MODULE MCOutbox ------------------------------
(* Instances of Outbox for TLC.                                             *)
EXTENDS Outbox, TLC

CONSTANTS w1, w2

BothAll == w1 :> "all" @@ w2 :> "all"
SplitLanes == w1 :> "web" @@ w2 :> "notify"
ShortBackoff == <<1>>
RowSymmetry == Permutations(Ids)
=============================================================================
