----------------------------- MODULE MCCheckout -----------------------------
EXTENDS Checkout

CONSTANTS r1, r2, v1, v2

\* Stocks small enough that two carts compete and a third finds nothing.
MCStock == [v \in Variants |-> IF v = v1 THEN 2 ELSE 1]
MCCarts == [Variants -> 0..2]
MCOneVariantCarts == [Variants -> 0..1]
=============================================================================
