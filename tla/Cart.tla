-------------------------------- MODULE Cart --------------------------------
(***************************************************************************)
(* services/ecommerce.py add_to_cart() and get_cart(), behind POST         *)
(* /cart/add and GET /cart: concurrent calls on the cart and cartitem      *)
(* tables at READ COMMITTED, without row locks.                            *)
(*                                                                         *)
(* add_to_cart() awaits three times: it selects the owner's cart (and      *)
(* inserts one if there is none), it selects the line of the variant, and  *)
(* it commits.  The new quantity is computed in Python from the line as    *)
(* read, so what two calls decide on the same reading is not added up; the *)
(* unique constraint on (cart_id, variant_id) catches two inserts of one   *)
(* line, and nothing catches two inserts of one owner's cart.              *)
(***************************************************************************)
EXTENDS Integers, FiniteSets

CONSTANTS
    Calls,          \* add_to_cart() calls that may be in progress together
    Owners,         \* (user_id, session_token) pairs the endpoints pass
    Variants,       \* rows of productvariant
    UnknownVariants,\* variant ids without a row
    Quantities,     \* quantities asked for, CartAddRequest: gt=0
    MaxInteger,     \* largest value of the quantity column
    CartIds,        \* ids the sequence hands out: bounds the number of carts
    Null,
    NoCall

ASSUME CartAssumption ==
    /\ MaxInteger \in Nat
    /\ Quantities \subseteq Nat \ {0}
    /\ Variants \cap UnknownVariants = {}
    /\ Null \notin Owners

VARIABLES
    carts,      \* committed rows of cart: [CartIds -> owner or Null]
    lines,      \* committed rows of cartitem: quantity, 0 for no row
    acked,      \* sum of the quantities acknowledged with "added", per line
    calls,      \* the arguments of each call, or NoCall
    cart,       \* [c]: cart.id the call works on, Null before it is known
    seen        \* [c]: line quantity as read, Null before it is read

vars == <<carts, lines, acked, calls, cart, seen>>

Arguments == [owner : Owners, variant : Variants \cup UnknownVariants,
              quantity : Quantities]

Init ==
    /\ carts = [k \in CartIds |-> Null]
    /\ lines = [k \in CartIds |-> [v \in Variants |-> 0]]
    /\ acked = lines
    /\ calls = [c \in Calls |-> NoCall]
    /\ cart = [c \in Calls |-> Null]
    /\ seen = [c \in Calls |-> Null]

-----------------------------------------------------------------------------
\* The WHERE clause: user_id when there is one, else session_token, where a
\* missing token becomes IS NULL and matches every cart without a token.
Matches(o, row) == IF o.user # Null THEN row.user = o.user
                                    ELSE row.token = o.token

CartsOf(o) == {k \in CartIds : carts[k] # Null /\ Matches(o, carts[k])}

InProgress(c) == calls[c] # NoCall

Start(c, call) ==
    /\ ~InProgress(c)
    /\ calls' = [calls EXCEPT ![c] = call]
    /\ UNCHANGED <<carts, lines, acked, cart, seen>>

\* The call is over: its transaction is committed or rolled back.
Leave(c) ==
    /\ calls' = [calls EXCEPT ![c] = NoCall]
    /\ cart' = [cart EXCEPT ![c] = Null]
    /\ seen' = [seen EXCEPT ![c] = Null]

Rollback(c) == Leave(c) /\ UNCHANGED <<carts, lines, acked>>

\* scalar_one_or_none() finds the owner's cart.
FindCart(c) ==
    /\ InProgress(c) /\ cart[c] = Null
    /\ \E k \in CartIds :
          /\ CartsOf(calls[c].owner) = {k}
          /\ cart' = [cart EXCEPT ![c] = k]
    /\ UNCHANGED <<carts, lines, acked, calls, seen>>

\* It finds none: a row is added and flushed.  Its id is new, and nobody else
\* sees the row before this call commits.
NewCart(c) ==
    /\ InProgress(c) /\ cart[c] = Null
    /\ CartsOf(calls[c].owner) = {}
    /\ \E k \in CartIds :
          /\ carts[k] = Null
          /\ \A d \in Calls : cart[d] # k
          /\ cart' = [cart EXCEPT ![c] = k]
    /\ UNCHANGED <<carts, lines, acked, calls, seen>>

\* It finds several: MultipleResultsFound.
TooManyCarts(c) ==
    /\ InProgress(c) /\ cart[c] = Null
    /\ Cardinality(CartsOf(calls[c].owner)) > 1
    /\ Rollback(c)

\* The line is selected; a variant without a row has no line.
ReadLine(c) ==
    /\ InProgress(c) /\ cart[c] # Null /\ seen[c] = Null
    /\ seen' = [seen EXCEPT ![c] =
                   IF calls[c].variant \in Variants
                   THEN lines[cart[c]][calls[c].variant] ELSE 0]
    /\ UNCHANGED <<carts, lines, acked, calls, cart>>

\* Mutants: the quantity is added twice, and replaced instead of raised.
NewQuantityTwice(c) == seen[c] + 2 * calls[c].quantity
NewQuantityReplaced(c) == calls[c].quantity

\* item.quantity += quantity
NewQuantity(c) == seen[c] + calls[c].quantity

\* Mutant: the column takes any number.
WritableAnySize(c) ==
    /\ calls[c].variant \in Variants
    /\ seen[c] = 0 => lines[cart[c]][calls[c].variant] = 0

\* COMMIT succeeds: the variant exists, the number fits the column, and the
\* line to insert has not been inserted by someone else meanwhile.
Writable(c) ==
    /\ calls[c].variant \in Variants
    /\ NewQuantity(c) <= MaxInteger
    /\ seen[c] = 0 => lines[cart[c]][calls[c].variant] = 0

Commit(c) ==
    LET k == cart[c]
        v == calls[c].variant
    IN
    /\ InProgress(c) /\ seen[c] # Null
    /\ Writable(c)
    /\ carts' = [carts EXCEPT ![k] = IF @ = Null THEN calls[c].owner ELSE @]
    /\ lines' = [lines EXCEPT ![k][v] = NewQuantity(c)]
    /\ acked' = [acked EXCEPT ![k][v] = @ + calls[c].quantity]
    /\ Leave(c)

\* IntegrityError or DataError: 500, and a cart flushed by this call goes too.
CommitFails(c) ==
    /\ InProgress(c) /\ seen[c] # Null
    /\ ~Writable(c)
    /\ Rollback(c)

\* Any other failure at an await: get_db() rolls back.
Abandon(c) == InProgress(c) /\ Rollback(c)

Step(c) == \/ FindCart(c) \/ NewCart(c) \/ TooManyCarts(c)
           \/ ReadLine(c)
           \/ Commit(c) \/ CommitFails(c)

Next == \E c \in Calls : \/ \E call \in Arguments : Start(c, call)
                         \/ Step(c)
                         \/ Abandon(c)

Spec == Init /\ [][Next]_vars

-----------------------------------------------------------------------------
\* get_cart() when the owner has at most one cart (else the same
\* scalar_one_or_none() raises): no cart shows as no lines.
Shown(o) == {[variant |-> line[2], quantity |-> lines[line[1]][line[2]]] :
                line \in {kv \in CartsOf(o) \X Variants : lines[kv[1]][kv[2]] > 0}}

-----------------------------------------------------------------------------
\* Each variable has its type.
TypeOK ==
    /\ carts \in [CartIds -> Owners \cup {Null}]
    /\ lines \in [CartIds -> [Variants -> 0..MaxInteger]]
    /\ acked \in [CartIds -> [Variants -> Nat]]
    /\ calls \in [Calls -> Arguments \cup {NoCall}]
    /\ cart \in [Calls -> CartIds \cup {Null}]
    /\ seen \in [Calls -> (0..MaxInteger) \cup {Null}]

\* A line never holds more than its owner was told has been added, and it
\* exists as soon as anything was: lost updates lower it but do not drop it.
LinesWithinAcked ==
    \A k \in CartIds, v \in Variants :
        /\ lines[k][v] <= acked[k][v]
        /\ lines[k][v] = 0 <=> acked[k][v] = 0
        /\ lines[k][v] > 0 => carts[k] # Null

\* Two calls in progress for one owner.
OneCallPerOwner ==
    \A c, d \in Calls :
        (c # d /\ InProgress(c) /\ InProgress(d)) =>
            calls[c].owner # calls[d].owner

OneCartPerOwner == \A o \in Owners : Cardinality(CartsOf(o)) <= 1

LinesAreAcked == \A k \in CartIds, v \in Variants : lines[k][v] = acked[k][v]

\* No owner's cart is found for another: so with guests, of whom the token is
\* all there is, but not if one user came with several tokens.
OwnersApart == \A o, p \in Owners : Matches(o, p) => o = p

\* If no owner has two calls in progress, every owner keeps a single cart and
\* every acknowledged quantity is in it.
ExactUnlessOverlapping ==
    []OneCallPerOwner => [](OneCartPerOwner /\ LinesAreAcked)

\* A committed call changes one line of a cart of its own owner, by inserting
\* or raising it with respect to what it read.
WritesOwnLine ==
    [][\A k \in CartIds : lines'[k] # lines[k] =>
          \E c \in Calls :
              /\ InProgress(c) /\ ~InProgress(c)'
              /\ carts'[k] # Null /\ Matches(calls[c].owner, carts'[k])
              /\ \A v \in Variants \ {calls[c].variant} :
                    lines'[k][v] = lines[k][v]
              /\ lines'[k][calls[c].variant] > seen[c]]_vars
=============================================================================
