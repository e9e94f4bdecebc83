------------------------------ MODULE Checkout ------------------------------
(***************************************************************************)
(* services/ecommerce.py checkout(): overlapping requests turn a cart into *)
(* an order inside one database session each.                              *)
(*                                                                         *)
(* A session first reads the cart joined with its variants (get_cart),     *)
(* which loads every variant's stock into the session's identity map.  It  *)
(* then asks for each variant row again, this time FOR UPDATE.  The row    *)
(* lock is real, but Session.get() does not overwrite attributes that are  *)
(* already loaded (there is no populate_existing), so the stock that is    *)
(* compared and decremented is the one read before the lock; COMMIT writes *)
(* that absolute number.  PostgreSQL runs at READ COMMITTED.               *)
(*                                                                         *)
(* The cart itself is the business of module Cart: here a session may find *)
(* any cart of the constant Carts, the empty one included.  checkout()     *)
(* does not empty the cart, so a request may order the same lines again.   *)
(***************************************************************************)
EXTENDS Integers, FiniteSets

CONSTANTS
    Requests,       \* checkout requests that may be in progress together
    Variants,
    InitialStock,
    Carts,          \* carts a session may find: quantity per variant, 0: no line
    NoRequest,
    NoVariant

ASSUME CheckoutAssumption ==
    /\ InitialStock \in [Variants -> Nat]
    /\ Carts \subseteq [Variants -> Nat]
    /\ NoRequest \notin Requests
    /\ NoVariant \notin Variants

VARIABLES
    stock,      \* productvariant.stock, as committed
    ordered,    \* units per variant over all committed orderitem rows
    lockedBy,   \* the session holding the row lock of each variant
    sessions,   \* requests inside checkout() with an open transaction
    items,      \* [r][v]: quantity of the cart line the session read
    loaded,     \* [r][v]: stock in the session's identity map
    todo,       \* [r]: lines the for loop has not reached
    waitsFor    \* [r]: variant whose FOR UPDATE the session awaits

vars == <<stock, ordered, lockedBy, sessions, items, loaded, todo, waitsFor>>

NoCart == [v \in Variants |-> 0]
Lines(cart) == {v \in Variants : cart[v] > 0}

Init ==
    /\ stock = InitialStock
    /\ ordered = NoCart
    /\ lockedBy = [v \in Variants |-> NoRequest]
    /\ sessions = {}
    /\ items = [r \in Requests |-> NoCart]
    /\ loaded = [r \in Requests |-> NoCart]
    /\ todo = [r \in Requests |-> {}]
    /\ waitsFor = [r \in Requests |-> NoVariant]

-----------------------------------------------------------------------------
\* get_cart(), then the order row is inserted and flushed.  The join returns
\* the lines in no particular order.
GetCart(r, cart) ==
    /\ r \notin sessions
    /\ sessions' = sessions \cup {r}
    /\ items' = [items EXCEPT ![r] = cart]
    /\ loaded' = [loaded EXCEPT ![r] = stock]
    /\ todo' = [todo EXCEPT ![r] = Lines(cart)]
    /\ UNCHANGED <<stock, ordered, lockedBy, waitsFor>>

\* The loop reaches the next line and awaits SELECT ... FOR UPDATE.
AskForRow(r, v) ==
    /\ r \in sessions
    /\ waitsFor[r] = NoVariant
    /\ v \in todo[r]
    /\ waitsFor' = [waitsFor EXCEPT ![r] = v]
    /\ UNCHANGED <<stock, ordered, lockedBy, sessions, items, loaded, todo>>

\* Mutant: the row is read without FOR UPDATE.
RowGrantedUnlocked(r) == waitsFor[r] # NoVariant

RowGranted(r) == /\ waitsFor[r] # NoVariant
                 /\ lockedBy[waitsFor[r]] = NoRequest

\* Mutants: no comparison, and one that is off by one.
InStockUnchecked(r) == TRUE
InStockOffByOne(r) == loaded[r][waitsFor[r]] + 1 >= items[r][waitsFor[r]]

\* locked_variant.stock < item.quantity, on the value loaded before the lock.
InStock(r) == loaded[r][waitsFor[r]] >= items[r][waitsFor[r]]

\* Mutant: COMMIT writes every row the session loaded.
StockAfterAll(r) == loaded[r]

\* The rows a COMMIT writes are the ones the session changed.
StockAfter(r) == [v \in Variants |-> IF items[r][v] > 0 THEN loaded[r][v]
                                                        ELSE stock[v]]

\* Mutants: order items not added, and added with the wrong sign.
OrderedAfterLost(r) == ordered
OrderedAfterReversed(r) == [v \in Variants |-> ordered[v] - items[r][v]]

\* One orderitem row per line.
OrderedAfter(r) == [v \in Variants |-> ordered[v] + items[r][v]]

\* The lock is granted, the stale stock suffices and is decremented in memory.
TakeLine(r) ==
    LET v == waitsFor[r] IN
    /\ RowGranted(r)
    /\ InStock(r)
    /\ lockedBy' = [lockedBy EXCEPT ![v] = r]
    /\ loaded' = [loaded EXCEPT ![r][v] = @ - items[r][v]]
    /\ todo' = [todo EXCEPT ![r] = @ \ {v}]
    /\ waitsFor' = [waitsFor EXCEPT ![r] = NoVariant]
    /\ UNCHANGED <<stock, ordered, sessions, items>>

\* Mutants: the session is not closed, and its locks outlive it.
CloseNothing(r) ==
    /\ UNCHANGED <<sessions, lockedBy, items, loaded, todo>>
    /\ waitsFor' = [waitsFor EXCEPT ![r] = NoVariant]
CloseKeepingLocks(r) ==
    /\ sessions' = sessions \ {r}
    /\ items' = [items EXCEPT ![r] = NoCart]
    /\ loaded' = [loaded EXCEPT ![r] = NoCart]
    /\ todo' = [todo EXCEPT ![r] = {}]
    /\ waitsFor' = [waitsFor EXCEPT ![r] = NoVariant]
    /\ UNCHANGED lockedBy

\* The session ends, with COMMIT or with the rollback of get_db(): its locks go.
Close(r) ==
    /\ sessions' = sessions \ {r}
    /\ lockedBy' = [v \in Variants |-> IF lockedBy[v] = r THEN NoRequest
                                                          ELSE lockedBy[v]]
    /\ items' = [items EXCEPT ![r] = NoCart]
    /\ loaded' = [loaded EXCEPT ![r] = NoCart]
    /\ todo' = [todo EXCEPT ![r] = {}]
    /\ waitsFor' = [waitsFor EXCEPT ![r] = NoVariant]

Rollback(r) == Close(r) /\ UNCHANGED <<stock, ordered>>

\* insufficient_stock
RefuseLine(r) == RowGranted(r) /\ ~InStock(r) /\ Rollback(r)

Commit(r) ==
    /\ r \in sessions
    /\ todo[r] = {}
    /\ stock' = StockAfter(r)
    /\ ordered' = OrderedAfter(r)
    /\ Close(r)

\* Mutant: only a session waiting for itself is noticed.
RingOfOne(S) == \E q \in S : /\ S = {q}
                           /\ waitsFor[q] # NoVariant
                           /\ lockedBy[waitsFor[q]] = q

\* Sessions waiting for one another in a ring.
Ring(S) == /\ \A q \in S : waitsFor[q] # NoVariant
           /\ {lockedBy[waitsFor[q]] : q \in S} = S

\* PostgreSQL's deadlock detector fails one of them; nothing retries it.
DeadlockVictim(r) ==
    /\ \E S \in SUBSET sessions : r \in S /\ Ring(S)
    /\ Rollback(r)

\* A lost connection, a killed worker, or any error at an await.
Abandon(r) == r \in sessions /\ Rollback(r)

Proceed(r) == \/ \E v \in Variants : AskForRow(r, v)
              \/ TakeLine(r)
              \/ RefuseLine(r)
              \/ Commit(r)
              \/ DeadlockVictim(r)

Next == \E r \in Requests : \/ \E cart \in Carts : GetCart(r, cart)
                            \/ Proceed(r)
                            \/ Abandon(r)

\* Each await of a request is answered.  A row lock goes to the waiters in
\* turn (PostgreSQL queues them), hence strong fairness of the grant; the
\* deadlock detector runs whenever a wait lasts.
Fairness ==
    \A r \in Requests :
        /\ WF_vars(\E v \in Variants : AskForRow(r, v))
        /\ SF_vars(TakeLine(r) \/ RefuseLine(r))
        /\ WF_vars(Commit(r))
        /\ WF_vars(DeadlockVictim(r))

Spec == Init /\ [][Next]_vars
FairSpec == Spec /\ Fairness

-----------------------------------------------------------------------------
Reserved(r) == Lines(items[r]) \ todo[r]

\* Each variable has its type.
TypeOK ==
    /\ stock \in [Variants -> Int]
    /\ ordered \in [Variants -> Nat]
    /\ lockedBy \in [Variants -> Requests \cup {NoRequest}]
    /\ sessions \subseteq Requests
    /\ items \in [Requests -> [Variants -> Nat]]
    /\ loaded \in [Requests -> [Variants -> Int]]
    /\ todo \in [Requests -> SUBSET Variants]
    /\ waitsFor \in [Requests -> Variants \cup {NoVariant}]

\* Row locks, the loop's progress and the session table agree: a lock is held
\* by an open session for a line it has passed, each such line is locked, and
\* a session awaits only a line it has not passed.
LocksMatchSessions ==
    /\ \A v \in Variants : lockedBy[v] # NoRequest =>
           lockedBy[v] \in sessions /\ v \in Reserved(lockedBy[v])
    /\ \A r \in sessions : \A v \in Reserved(r) : lockedBy[v] = r
    /\ \A r \in Requests : todo[r] \subseteq Lines(items[r])
    /\ \A r \in Requests : waitsFor[r] # NoVariant =>
           r \in sessions /\ waitsFor[r] \in todo[r]

\* The stock a session read, before its own decrements.
LevelRead(r, v) == IF v \in Reserved(r) THEN loaded[r][v] + items[r][v]
                                        ELSE loaded[r][v]

\* However outdated, the level a session read was on the shelf once: at most
\* the initial stock, and short of it by no more than what has been sold.
\* What the session is about to write is not negative.
ReadLevelsPlausible ==
    \A r \in sessions, v \in Variants :
        /\ 0 <= loaded[r][v]
        /\ LevelRead(r, v) <= InitialStock[v]
        /\ InitialStock[v] <= LevelRead(r, v) + ordered[v]

\* Committed stock is never negative, whatever sessions overlap and whichever
\* of them decided on an outdated stock.
StockNotNegative == \A v \in Variants : stock[v] >= 0

\* Overlapping checkouts may give units back to the shelf (a later COMMIT
\* overwrites an earlier one) but never lose one: every unit is on the shelf
\* or in a committed order line.
NoUnitVanishes == \A v \in Variants : InitialStock[v] <= stock[v] + ordered[v]

\* Every unit is on the shelf or sold, and not both.
StockConserved == \A v \in Variants : InitialStock[v] = stock[v] + ordered[v]

\* The shop never sells more than it had: README.md:3 "inventory-aware order
\* creation".  The stale comparison of line 251 breaks it.
NoOversell == \A v \in Variants : ordered[v] <= InitialStock[v]

\* Open sessions with a line for the same variant.
DisjointCarts == \A q, r \in sessions :
                    q # r => Lines(items[q]) \cap Lines(items[r]) = {}

\* The books balance as long as overlapping checkouts share no variant: the
\* race on one variant is the only way to break them.
ExactUnlessShared == []DisjointCarts => []StockConserved

\* A variant's stock changes only at the COMMIT of the session that holds
\* the row lock, which it gives up in the same step.
WritesUnderLock ==
    [][\A v \in Variants : stock'[v] # stock[v] =>
          /\ lockedBy[v] \in sessions
          /\ lockedBy[v] \notin sessions'
          /\ ordered'[v] > ordered[v]]_vars

\* No request stays in checkout(): row waits end and deadlocks are broken.
EveryCheckoutEnds == \A r \in Requests : r \in sessions ~> r \notin sessions

Shelf == INSTANCE Inventory WITH Variants <- Variants, InitialStock <- InitialStock,
                                 stock <- stock, ordered <- ordered

\* Any overlap of checkouts keeps the loose promise of Inventory.
KeepsLooseLedger == Shelf!LooseSpec
\* One checkout at a time keeps an exact ledger.
KeepsExactLedger == Shelf!ExactSpec
=============================================================================
