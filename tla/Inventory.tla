------------------------------ MODULE Inventory ------------------------------
(***************************************************************************)
(* What the shop promises about stock, with carts, sessions and row locks  *)
(* forgotten: a committed order moves units from the shelf                 *)
(* (productvariant.stock) to the sold lines (orderitem.quantity).          *)
(*                                                                         *)
(* Two promises are stated.  ExactSpec is a ledger: what is sold leaves    *)
(* the shelf.  LooseSpec is what remains of it when checkouts overlap: a   *)
(* shelf is written only by an order that has a line for it, never from    *)
(* more than the initial stock, never below zero, and no unit disappears   *)
(* without having been sold.                                               *)
(***************************************************************************)
EXTENDS Integers

CONSTANTS
    Variants,       \* rows of productvariant
    InitialStock    \* their stock when the shop opens, naturals

VARIABLES
    stock,      \* productvariant.stock, as committed
    ordered     \* units per variant over all committed orderitem rows

ledger == <<stock, ordered>>

Opening == /\ stock = InitialStock
           /\ ordered = [v \in Variants |-> 0]

SoldNow(v) == ordered'[v] - ordered[v]

\* An order adds lines, and leaves a whole number of units on every shelf.
OrderShape == /\ stock' \in [Variants -> Nat]
              /\ ordered' \in [Variants -> Nat]
              /\ \A v \in Variants : SoldNow(v) >= 0

ExactOrder == /\ OrderShape
              /\ \A v \in Variants : stock'[v] = stock[v] - SoldNow(v)

LooseOrder ==
    /\ OrderShape
    /\ \A v \in Variants :
         \/ /\ SoldNow(v) = 0
            /\ stock'[v] = stock[v]
         \/ /\ SoldNow(v) > 0
            /\ stock'[v] <= InitialStock[v] - SoldNow(v)
            /\ InitialStock[v] <= stock'[v] + ordered'[v]

ExactSpec == Opening /\ [][ExactOrder]_ledger
LooseSpec == Opening /\ [][LooseOrder]_ledger
=============================================================================
