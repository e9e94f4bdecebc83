----------------------------- MODULE Storefront -----------------------------
(***************************************************************************)
(* The cart and checkout endpoints of endpoints/ecommerce.py together.     *)
(* /cart/add and /cart take the user from request.state.user_id, which no  *)
(* dependency of these routes sets, and fall back on the session token;    *)
(* /checkout falls back on user 1 instead, so get_cart() inside checkout() *)
(* looks for a cart of that user and never at the token.                   *)
(***************************************************************************)
EXTENDS Cart

CONSTANT FirstUser      \* user_id 1

VARIABLE placed     \* the last order: who sent it, its lines, the cart shown

storeVars == <<vars, placed>>

NoLines == {}

StoreInit == Init /\ placed = [by |-> Null, ordered |-> NoLines, inCart |-> NoLines]

\* if not user_id: user_id = 1
BuyerOf(o) == IF o.user = Null THEN [o EXCEPT !.user = FirstUser] ELSE o

HasOneCart(o) == Cardinality(CartsOf(o)) <= 1

\* POST /checkout reads the buyer's cart; the units it then takes from the
\* shelf are the business of module Checkout.  The cart is left as it is.
PlaceOrder(o) ==
    /\ HasOneCart(BuyerOf(o))
    /\ placed' = [by |-> o, ordered |-> Shown(BuyerOf(o)),
                  inCart |-> IF HasOneCart(o) THEN Shown(o) ELSE NoLines]
    /\ UNCHANGED vars

StoreNext == \/ Next /\ UNCHANGED placed
             \/ \E o \in Owners : PlaceOrder(o)

StoreSpec == StoreInit /\ [][StoreNext]_storeVars

-----------------------------------------------------------------------------
\* A guest's order holds the lines GET /cart shows for the guest's session
\* token: README.md:60-61 documents checkout with "session_token":"guest-1".
OrderHoldsTheCart == placed.ordered = placed.inCart
=============================================================================
