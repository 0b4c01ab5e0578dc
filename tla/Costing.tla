------------------------------ MODULE Costing ------------------------------
(***************************************************************************)
(* What inventory.apply_movement and inventory.revalue_to_cost do to one    *)
(* row of inventory.stock_balance and to its cost layers.                   *)
(*                                                                          *)
(* The layers of a row are kept unit by unit: a sequence with the unit cost *)
(* of every unit on hand, oldest first, so a layer of n units is n equal    *)
(* entries and taking units from the oldest layers is dropping a prefix.    *)
(* Quantities are whole pieces; money is whole rials.                       *)
(***************************************************************************)
EXTENDS Integers, Sequences, Functions

CostingMethods == {"last_purchase", "average", "fifo"}

Balances == [on : Nat, value : Nat, layers : Seq(Nat)]
NoStock == [on |-> 0, value |-> 0, layers |-> <<>>]

(* round(a / b) of numeric, for a >= 0 and b > 0. *)
RoundDiv(a, b) == (2 * a + b) \div (2 * b)


(* CHECK value_sign_matches_qty and the refusal of negative stock: a        *)
(* transaction that would leave another row is rolled back.                 *)
Lawful(b) == /\ b.on \in Nat /\ b.value \in Nat
             /\ b.on = 0 => b.value = 0

(* A movement with qty > 0: the row grows by the value given, and a layer at *)
(* the unit cost given is added.                                            *)
Entered(b, n, cost, value) ==
  [on     |-> b.on + n,
   value  |-> b.value + value,
   layers |-> b.layers \o [i \in 1..n |-> cost]]

(* wrong: an exit at a named value leaves the layers alone *)
LeftLayersKept(b, n, value) ==
  [b EXCEPT !.on = @ - n, !.value = @ - value]
(* A movement with qty < 0 takes the oldest units, whatever their value. *)
Left(b, n, value) ==
  [on     |-> b.on - n,
   value  |-> b.value - value,
   layers |-> SubSeq(b.layers, n + 1, Len(b.layers))]

(* The value a movement with qty < 0 takes when the caller names none: that  *)
(* of the oldest layers under fifo, else the average; what empties the row   *)
(* takes all there is.                                                      *)
OldestUnits(b, n) == SumFunctionOnSet(b.layers, 1..n)

(* wrong: valued at the newest rate *)
OutValueNewest(b, n, m) == n * b.layers[Len(b.layers)]
OutValue(b, n, m) ==
  IF n = b.on THEN b.value
  ELSE IF m = "fifo" THEN OldestUnits(b, n)
  ELSE n * RoundDiv(b.value, b.on)

Issued(b, n, m) == Left(b, n, OutValue(b, n, m))

(* revalue_to_cost: what is on hand, if anything, is brought to the rate. *)
Revalued(b, cost) == IF b.on = 0 THEN b ELSE [b EXCEPT !.value = b.on * cost]

=============================================================================
