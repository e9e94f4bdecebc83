--------------------------- MODULE ConnectionPool ---------------------------
(***************************************************************************)
(* checkout() requests of several server processes, each process with the  *)
(* bounded connection pool of db/session.py (pool_size + max_overflow).    *)
(*                                                                         *)
(* A session takes a connection at its first statement and returns it when *)
(* its transaction ends.  COMMIT ends it, yet checkout() goes on to read   *)
(* the order and the payment back (refresh), which takes a connection      *)
(* again: a request may wait for the pool twice, and the second time its   *)
(* order is committed already.  A wait ends after pool_timeout with an     *)
(* error.  The pool hands a returned connection to whoever comes first     *)
(* (asyncio.Queue lets a newcomer overtake), so a wait has no turn.        *)
(*                                                                         *)
(* The client wants one order at a time and sends its request again when   *)
(* it is answered with an error.                                           *)
(***************************************************************************)
EXTENDS Checkout

CONSTANTS
    Workers,        \* server processes
    WorkerOf,       \* the process that serves a request
    PoolSize,       \* pool_size + max_overflow of each process
    MaxOrders       \* bound on the orders of one client after which it gives up

ASSUME ConnectionPoolAssumption ==
    /\ WorkerOf \in [Requests -> Workers]
    /\ PoolSize \in Nat \ {0}
    /\ MaxOrders \in Nat
    /\ IsFiniteSet(Requests)

VARIABLES
    phase,      \* [r]: where a request is between its arrival and its answer
    orders,     \* [r]: orders committed for what the client wants now
    lost        \* [r]: an error was answered for an order that was committed

poolVars == <<phase, orders, lost>>
allVars == <<vars, poolVars>>

\* "connecting" and "reconnecting" wait for the pool, "inside" and "reading"
\* have a connection.
Phases == {"idle", "connecting", "inside", "reconnecting", "reading"}

PoolInit ==
    /\ Init
    /\ phase = [r \in Requests |-> "idle"]
    /\ orders = [r \in Requests |-> 0]
    /\ lost = [r \in Requests |-> FALSE]

-----------------------------------------------------------------------------
Connected(w) == {r \in Requests : WorkerOf[r] = w /\ phase[r] \in {"inside", "reading"}}

HasRoom(r) == Cardinality(Connected(WorkerOf[r])) < PoolSize

Goto(r, p) == phase' = [phase EXCEPT ![r] = p]

Arrive(r) ==
    /\ phase[r] = "idle"
    /\ orders[r] < MaxOrders
    /\ Goto(r, "connecting")
    /\ UNCHANGED <<vars, orders, lost>>

\* The first SELECT of get_cart() has its connection.
Enter(r, cart) ==
    /\ phase[r] = "connecting"
    /\ HasRoom(r)
    /\ GetCart(r, cart)
    /\ Goto(r, "inside")
    /\ UNCHANGED <<orders, lost>>

LoopStep(r) ==
    /\ phase[r] = "inside"
    /\ (\E v \in Variants : AskForRow(r, v)) \/ TakeLine(r)
    /\ UNCHANGED poolVars

\* Mutant: the order is committed, not flushed, before the loop.
OrdersAfterRollbackKept(r) == [orders EXCEPT ![r] = @ + 1]

\* The order flushed at line 248 goes with the transaction.
OrdersAfterRollback(r) == orders

\* insufficient_stock, a deadlock, or a failure: an error before COMMIT.
FailInside(r) ==
    /\ phase[r] = "inside"
    /\ RefuseLine(r) \/ DeadlockVictim(r) \/ Abandon(r)
    /\ orders' = OrdersAfterRollback(r)
    /\ Goto(r, "idle")
    /\ UNCHANGED lost

\* The transaction and its connection are gone when COMMIT returns.
CommitOrder(r) ==
    /\ phase[r] = "inside"
    /\ Commit(r)
    /\ orders' = [orders EXCEPT ![r] = @ + 1]
    /\ Goto(r, "reconnecting")
    /\ UNCHANGED lost

Refresh(r) ==
    /\ phase[r] = "reconnecting"
    /\ HasRoom(r)
    /\ Goto(r, "reading")
    /\ UNCHANGED <<vars, orders, lost>>

\* The client has its order and may want another.
Answer(r) ==
    /\ phase[r] = "reading"
    /\ Goto(r, "idle")
    /\ orders' = [orders EXCEPT ![r] = 0]
    /\ lost' = [lost EXCEPT ![r] = FALSE]
    /\ UNCHANGED vars

\* An error although the order is committed: 500.
LoseAnswer(r) ==
    /\ Goto(r, "idle")
    /\ lost' = [lost EXCEPT ![r] = TRUE]
    /\ UNCHANGED <<vars, orders>>

FailReading(r) == phase[r] = "reading" /\ LoseAnswer(r)

\* Mutant: the pool has no timeout.
WaitsTooLongNever(r) == FALSE

\* pool_timeout: all connections have been busy for 30 seconds.
WaitsTooLong(r) == ~HasRoom(r)

GiveUp(r) ==
    /\ WaitsTooLong(r)
    /\ \/ /\ phase[r] = "connecting"
          /\ Goto(r, "idle")
          /\ UNCHANGED <<vars, orders, lost>>
       \/ phase[r] = "reconnecting" /\ LoseAnswer(r)

LeavePool(r) == (\E cart \in Carts : Enter(r, cart)) \/ Refresh(r) \/ GiveUp(r)

PoolNext == \E r \in Requests : \/ Arrive(r)
                                \/ LeavePool(r)
                                \/ LoopStep(r)
                                \/ FailInside(r)
                                \/ CommitOrder(r)
                                \/ Answer(r)
                                \/ FailReading(r)

\* What a request awaits inside: the next row, the grant or the refusal of a
\* row, COMMIT, the rows read back.
Awaited(r) == \/ LoopStep(r)
              \/ FailInside(r) /\ (RefuseLine(r) \/ DeadlockVictim(r))
              \/ CommitOrder(r)
              \/ Answer(r)

\* As in Checkout, a row lock goes to its waiters in turn and a deadlock does
\* not last, hence strong fairness.  A wait for the pool has no turn, but it
\* ends, one way or the other.
PoolFairness == \A r \in Requests : /\ SF_allVars(Awaited(r))
                                    /\ WF_allVars(LeavePool(r))

PoolSpec == PoolInit /\ [][PoolNext]_allVars
PoolFairSpec == PoolSpec /\ PoolFairness

-----------------------------------------------------------------------------
\* Each variable has its type, and a request is inside exactly while its
\* session is open.
PoolTypeOK ==
    /\ phase \in [Requests -> Phases]
    /\ orders \in [Requests -> 0..MaxOrders]
    /\ lost \in [Requests -> BOOLEAN]
    /\ sessions = {r \in Requests : phase[r] = "inside"}

\* Nobody waits for the pool with a row locked: a full pool and the row locks
\* never wait for one another, however few the connections.
NoLockAwaitsPool ==
    \A r \in Requests : phase[r] \in {"connecting", "reconnecting"} =>
        \A v \in Variants : lockedBy[v] # r

\* A client that sends its request again orders twice only if an answer was
\* lost between COMMIT (line 269) and the end of the request.
OneOrderUnlessAnswerLost ==
    \A r \in Requests : ~lost[r] =>
        orders[r] = IF phase[r] \in {"reconnecting", "reading"} THEN 1 ELSE 0

\* Every request is answered, with few connections and rows locked by others.
EveryRequestAnswered == \A r \in Requests : phase[r] # "idle" ~> phase[r] = "idle"
=============================================================================
