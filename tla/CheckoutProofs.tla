--------------------------- MODULE CheckoutProofs ---------------------------
(***************************************************************************)
(* Theorems about Checkout, for any number of requests and variants, any   *)
(* initial stock and any carts, and about ConnectionPool, for any          *)
(* processes, pool size and bound as well.                                 *)
(*                                                                         *)
(* The safety properties of Checkout are not inductive: what a COMMIT      *)
(* writes was decided when the cart was read.  CheckoutInv adds what links *)
(* the two, the plausibility of the levels read and the agreement of       *)
(* locks, loop and sessions.  The pool and the retries project onto        *)
(* Checkout, so its theorems hold behind a pool too.                       *)
(***************************************************************************)
EXTENDS ConnectionPool, TLAPS

CheckoutInv == /\ TypeOK
               /\ LocksMatchSessions
               /\ ReadLevelsPlausible
               /\ StockNotNegative
               /\ NoUnitVanishes
               /\ \A v \in Variants : stock[v] <= InitialStock[v]

LEMMA TypeOKInit == Init => TypeOK
  BY CheckoutAssumption DEF Init, TypeOK, NoCart

LEMMA TypeOKNext == TypeOK /\ [Next]_vars => TypeOK'
  <1> SUFFICES ASSUME TypeOK, [Next]_vars PROVE TypeOK'
    OBVIOUS
  <1> USE CheckoutAssumption DEF TypeOK
  <1>1. ASSUME NEW r \in Requests, NEW cart \in Carts, GetCart(r, cart)
        PROVE  TypeOK'
    BY <1>1 DEF GetCart, Lines
  <1>2. ASSUME NEW r \in Requests, NEW v \in Variants, AskForRow(r, v)
        PROVE  TypeOK'
    BY <1>2 DEF AskForRow
  <1>3. ASSUME NEW r \in Requests, TakeLine(r)
        PROVE  TypeOK'
    BY <1>3 DEF TakeLine, RowGranted
  <1>4. ASSUME NEW r \in Requests, Close(r), stock' \in [Variants -> Int],
               ordered' \in [Variants -> Nat]
        PROVE  TypeOK'
    BY <1>4 DEF Close, NoCart
  <1>5. ASSUME NEW r \in Requests, Rollback(r)
        PROVE  TypeOK'
    BY <1>4, <1>5 DEF Rollback
  <1>6. ASSUME NEW r \in Requests, Commit(r)
        PROVE  TypeOK'
    <2>1. stock' \in [Variants -> Int] /\ ordered' \in [Variants -> Nat]
      BY <1>6 DEF Commit, StockAfter, OrderedAfter
    <2> QED BY <1>4, <1>6, <2>1 DEF Commit
  <1>7. CASE UNCHANGED vars
    BY <1>7 DEF vars
  <1> QED
    BY <1>1, <1>2, <1>3, <1>5, <1>6, <1>7
    DEF Next, Proceed, RefuseLine, DeadlockVictim, Abandon

\* Every state of a checkout run has the declared types.
THEOREM TypeCorrect == Spec => []TypeOK
  BY TypeOKInit, TypeOKNext, PTL DEF Spec

-----------------------------------------------------------------------------
LEMMA InvInit == Init => CheckoutInv
  <1> SUFFICES ASSUME Init PROVE CheckoutInv
    OBVIOUS
  <1>1. TypeOK
    BY TypeOKInit
  <1>2. LocksMatchSessions
    BY CheckoutAssumption DEF Init, LocksMatchSessions
  <1> QED
    BY <1>1, <1>2, CheckoutAssumption
    DEF Init, CheckoutInv, ReadLevelsPlausible, StockNotNegative, NoUnitVanishes, NoCart

\* Locks, loops and sessions agree after each action of request r.
LEMMA LocksNext ==
    TypeOK /\ LocksMatchSessions /\ [Next]_vars => LocksMatchSessions'
  <1> SUFFICES ASSUME TypeOK, LocksMatchSessions, [Next]_vars
               PROVE  LocksMatchSessions'
    OBVIOUS
  <1> USE CheckoutAssumption DEF TypeOK, LocksMatchSessions, Reserved
  <1>1. ASSUME NEW r \in Requests, NEW cart \in Carts, GetCart(r, cart)
        PROVE  LocksMatchSessions'
    BY <1>1 DEF GetCart, Lines
  <1>2. ASSUME NEW r \in Requests, NEW v \in Variants, AskForRow(r, v)
        PROVE  LocksMatchSessions'
    BY <1>2 DEF AskForRow
  <1>3. ASSUME NEW r \in Requests, TakeLine(r)
        PROVE  LocksMatchSessions'
    <2> DEFINE w == waitsFor[r]
    <2>1. /\ w \in Variants /\ w \in todo[r] /\ r \in sessions
          /\ w \in Lines(items[r])
          /\ lockedBy[w] = NoRequest
      BY <1>3 DEF TakeLine, RowGranted
    <2> QED BY <1>3, <2>1 DEF TakeLine
  <1>4. ASSUME NEW r \in Requests, Close(r)
        PROVE  LocksMatchSessions'
    BY <1>4 DEF Close, Lines, NoCart
  <1>5. CASE UNCHANGED vars
    BY <1>5 DEF vars
  <1> QED
    BY <1>1, <1>2, <1>3, <1>4, <1>5
    DEF Next, Proceed, RefuseLine, DeadlockVictim, Abandon, Commit, Rollback

\* What a session read stays plausible while others commit, because ordered
\* only grows; its own decrements leave LevelRead alone.
LEMMA ReadLevelsNext ==
    CheckoutInv /\ [Next]_vars => ReadLevelsPlausible'
  <1> SUFFICES ASSUME CheckoutInv, [Next]_vars
               PROVE  ReadLevelsPlausible'
    OBVIOUS
  <1> USE CheckoutAssumption DEF CheckoutInv, TypeOK
  <1>1. ASSUME NEW r \in Requests, NEW cart \in Carts, GetCart(r, cart)
        PROVE  ReadLevelsPlausible'
    <2> SUFFICES ASSUME NEW q \in sessions', NEW v \in Variants
                 PROVE  /\ 0 <= loaded'[q][v]
                        /\ LevelRead(q, v)' <= InitialStock[v]
                        /\ InitialStock[v] <= LevelRead(q, v)' + ordered'[v]
      BY DEF ReadLevelsPlausible
    <2>1. CASE q = r
      <3>1. loaded'[q] = stock /\ Reserved(q)' = {} /\ ordered' = ordered
        BY <1>1, <2>1 DEF GetCart, Reserved, Lines
      <3> QED BY <3>1 DEF StockNotNegative, NoUnitVanishes, LevelRead
    <2>2. CASE q # r
      BY <1>1, <2>2 DEF GetCart, ReadLevelsPlausible, LevelRead, Reserved
    <2> QED BY <2>1, <2>2
  <1>2. ASSUME NEW r \in Requests, NEW v \in Variants, AskForRow(r, v)
        PROVE  ReadLevelsPlausible'
    BY <1>2 DEF AskForRow, ReadLevelsPlausible, LevelRead, Reserved
  <1>3. ASSUME NEW r \in Requests, TakeLine(r)
        PROVE  ReadLevelsPlausible'
    <2> DEFINE w == waitsFor[r]
    <2> SUFFICES ASSUME NEW q \in sessions', NEW v \in Variants
                 PROVE  /\ 0 <= loaded'[q][v]
                        /\ LevelRead(q, v)' <= InitialStock[v]
                        /\ InitialStock[v] <= LevelRead(q, v)' + ordered'[v]
      BY DEF ReadLevelsPlausible
    <2>1. /\ w \in Variants /\ w \in todo[r] /\ w \in Lines(items[r])
          /\ loaded[r][w] >= items[r][w]
      BY <1>3 DEF TakeLine, RowGranted, InStock, LocksMatchSessions
    <2>2. q \in sessions /\ items' = items /\ ordered' = ordered
      BY <1>3 DEF TakeLine
    <2>3. CASE q = r /\ v = w
      <3>1. /\ loaded'[q][v] = loaded[q][v] - items[q][v]
            /\ v \in Reserved(q)' /\ v \notin Reserved(q)
        BY <1>3, <2>1, <2>3 DEF TakeLine, Reserved
      <3>2. LevelRead(q, v)' = LevelRead(q, v)
        BY <3>1, <2>2 DEF LevelRead
      <3> QED BY <2>1, <2>2, <2>3, <3>1, <3>2 DEF ReadLevelsPlausible
    <2>4. CASE ~(q = r /\ v = w)
      <3>1. /\ loaded'[q][v] = loaded[q][v]
            /\ v \in Reserved(q)' <=> v \in Reserved(q)
        BY <1>3, <2>1, <2>4 DEF TakeLine, Reserved
      <3> QED BY <2>2, <3>1 DEF ReadLevelsPlausible, LevelRead
    <2> QED BY <2>3, <2>4
  <1>4. ASSUME NEW r \in Requests, Close(r),
               \A v \in Variants : ordered'[v] \in Nat /\ ordered'[v] >= ordered[v]
        PROVE  ReadLevelsPlausible'
    <2> SUFFICES ASSUME NEW q \in sessions', NEW v \in Variants
                 PROVE  /\ 0 <= loaded'[q][v]
                        /\ LevelRead(q, v)' <= InitialStock[v]
                        /\ InitialStock[v] <= LevelRead(q, v)' + ordered'[v]
      BY DEF ReadLevelsPlausible
    <2>1. q \in sessions /\ q # r
      BY <1>4 DEF Close
    <2>2. /\ loaded'[q] = loaded[q] /\ items'[q] = items[q]
          /\ todo'[q] = todo[q]
      BY <1>4, <2>1 DEF Close
    <2>3. LevelRead(q, v)' = LevelRead(q, v) /\ LevelRead(q, v) \in Int
      BY <2>1, <2>2 DEF LevelRead, Reserved
    <2> QED BY <1>4, <2>1, <2>2, <2>3 DEF ReadLevelsPlausible
  <1>5. ASSUME NEW r \in Requests, Commit(r)
        PROVE  ReadLevelsPlausible'
    BY <1>4, <1>5 DEF Commit, OrderedAfter
  <1>6. ASSUME NEW r \in Requests, Rollback(r)
        PROVE  ReadLevelsPlausible'
    BY <1>4, <1>6 DEF Rollback
  <1>7. CASE UNCHANGED vars
    BY <1>7 DEF vars, ReadLevelsPlausible, LevelRead, Reserved
  <1> QED
    BY <1>1, <1>2, <1>3, <1>5, <1>6, <1>7
    DEF Next, Proceed, RefuseLine, DeadlockVictim, Abandon

LEMMA ShelfNext ==
    CheckoutInv /\ [Next]_vars =>
        /\ StockNotNegative'
        /\ NoUnitVanishes'
        /\ \A v \in Variants : stock'[v] <= InitialStock[v]
  <1> SUFFICES ASSUME CheckoutInv, [Next]_vars, NEW v \in Variants
               PROVE  /\ 0 <= stock'[v]
                      /\ stock'[v] <= InitialStock[v]
                      /\ InitialStock[v] <= stock'[v] + ordered'[v]
    BY DEF StockNotNegative, NoUnitVanishes
  <1> USE CheckoutAssumption DEF CheckoutInv, TypeOK
  <1>1. ASSUME NEW r \in Requests, Commit(r)
        PROVE  /\ 0 <= stock'[v]
               /\ stock'[v] <= InitialStock[v]
               /\ InitialStock[v] <= stock'[v] + ordered'[v]
    <2>1. CASE items[r][v] > 0
      <3>1. r \in sessions /\ v \in Reserved(r)
        BY <1>1, <2>1 DEF Commit, Reserved, Lines
      <3>2. LevelRead(r, v) = loaded[r][v] + items[r][v]
        BY <3>1 DEF LevelRead
      <3>3. stock'[v] = loaded[r][v] /\ ordered'[v] = ordered[v] + items[r][v]
        BY <1>1, <2>1 DEF Commit, StockAfter, OrderedAfter
      <3> QED BY <3>1, <3>2, <3>3 DEF ReadLevelsPlausible
    <2>2. CASE ~(items[r][v] > 0)
      BY <1>1, <2>2 DEF Commit, StockAfter, OrderedAfter, StockNotNegative, NoUnitVanishes
    <2> QED BY <2>1, <2>2
  <1>2. CASE UNCHANGED <<stock, ordered>>
    BY <1>2 DEF StockNotNegative, NoUnitVanishes
  <1> QED
    BY <1>1, <1>2
    DEF Next, vars, Proceed, GetCart, AskForRow, TakeLine, RefuseLine,
        DeadlockVictim, Abandon, Rollback

LEMMA InvNext == CheckoutInv /\ [Next]_vars => CheckoutInv'
  BY TypeOKNext, LocksNext, ReadLevelsNext, ShelfNext, CheckoutAssumption
  DEF CheckoutInv, TypeOK

THEOREM Invariance == Spec => []CheckoutInv
  BY InvInit, InvNext, PTL DEF Spec

\* However checkouts overlap, committed stock never goes below zero.
THEOREM NeverNegative == Spec => []StockNotNegative
  BY Invariance, PTL DEF CheckoutInv

\* However checkouts overlap, every unit is on the shelf or sold.
THEOREM NothingVanishes == Spec => []NoUnitVanishes
  BY Invariance, PTL DEF CheckoutInv

-----------------------------------------------------------------------------
LEMMA LooseStep ==
    CheckoutInv /\ CheckoutInv' /\ [Next]_vars
        => [Shelf!LooseOrder]_(Shelf!ledger)
  <1> SUFFICES ASSUME CheckoutInv, CheckoutInv', [Next]_vars
               PROVE  Shelf!LooseOrder \/ UNCHANGED <<stock, ordered>>
    BY DEF Shelf!ledger
  <1> USE CheckoutAssumption DEF CheckoutInv, TypeOK
  <1>1. ASSUME NEW r \in Requests, Commit(r)
        PROVE  Shelf!LooseOrder
    <2>1. \A v \in Variants : ordered'[v] = ordered[v] + items[r][v]
      BY <1>1 DEF Commit, OrderedAfter
    <2>2. Shelf!OrderShape
      BY <2>1, <1>1 DEF Shelf!OrderShape, Shelf!SoldNow, StockNotNegative, Commit, StockAfter
    <2>3. ASSUME NEW v \in Variants, items[r][v] > 0
          PROVE  /\ Shelf!SoldNow(v) > 0
                 /\ stock'[v] <= InitialStock[v] - Shelf!SoldNow(v)
                 /\ InitialStock[v] <= stock'[v] + ordered'[v]
      <3>1. r \in sessions /\ v \in Reserved(r)
        BY <1>1, <2>3 DEF Commit, Reserved, Lines
      <3>2. LevelRead(r, v) = loaded[r][v] + items[r][v]
        BY <3>1 DEF LevelRead
      <3>3. stock'[v] = loaded[r][v]
        BY <1>1, <2>3 DEF Commit, StockAfter
      <3> QED BY <2>1, <2>3, <3>1, <3>2, <3>3 DEF ReadLevelsPlausible, Shelf!SoldNow
    <2>4. ASSUME NEW v \in Variants, ~(items[r][v] > 0)
          PROVE  Shelf!SoldNow(v) = 0 /\ stock'[v] = stock[v]
      BY <1>1, <2>1, <2>4 DEF Commit, StockAfter, Shelf!SoldNow
    <2> QED BY <2>2, <2>3, <2>4 DEF Shelf!LooseOrder
  <1>2. CASE UNCHANGED <<stock, ordered>>
    BY <1>2
  <1> QED
    BY <1>1, <1>2
    DEF Next, vars, Proceed, GetCart, AskForRow, TakeLine, RefuseLine,
        DeadlockVictim, Abandon, Rollback

\* Checkout implements the loose ledger of Inventory: a shelf is written only
\* by an order with a line for it and no unit is lost.
THEOREM ImplementsLooseLedger == Spec => KeepsLooseLedger
  <1>1. Init => Shelf!Opening
    BY DEF Init, Shelf!Opening, NoCart
  <1> QED
    BY <1>1, LooseStep, Invariance, PTL
    DEF Spec, KeepsLooseLedger, Shelf!LooseSpec

\* Stock changes only at the COMMIT of the session that holds the row lock.
THEOREM WritesNeedLock == Spec => WritesUnderLock
  <1> DEFINE Locked == \A v \in Variants : stock'[v] # stock[v] =>
                          /\ lockedBy[v] \in sessions
                          /\ lockedBy[v] \notin sessions'
                          /\ ordered'[v] > ordered[v]
  <1>1. CheckoutInv /\ [Next]_vars => Locked
    <2> SUFFICES ASSUME CheckoutInv, [Next]_vars,
                        NEW v \in Variants, stock'[v] # stock[v]
                 PROVE  /\ lockedBy[v] \in sessions
                        /\ lockedBy[v] \notin sessions'
                        /\ ordered'[v] > ordered[v]
      OBVIOUS
    <2> USE CheckoutAssumption DEF CheckoutInv, TypeOK
    <2>1. PICK r \in Requests : Commit(r)
      BY DEF Next, vars, Proceed, GetCart, AskForRow, TakeLine, RefuseLine,
             DeadlockVictim, Abandon, Rollback
    <2>2. items[r][v] > 0
      BY <2>1 DEF Commit, StockAfter
    <2>3. r \in sessions /\ v \in Reserved(r)
      BY <2>1, <2>2 DEF Commit, Reserved, Lines
    <2>4. lockedBy[v] = r
      BY <2>3 DEF LocksMatchSessions
    <2>5. ordered'[v] = ordered[v] + items[r][v]
      BY <2>1 DEF Commit, OrderedAfter
    <2> QED BY <2>1, <2>2, <2>3, <2>4, <2>5 DEF Commit, Close
  <1> QED
    BY <1>1, Invariance, PTL DEF Spec, WritesUnderLock

-----------------------------------------------------------------------------
(***************************************************************************)
(* The books balance while overlapping checkouts share no variant: nobody  *)
(* else writes a variant of the cart, so the level read is still current.  *)
(***************************************************************************)
ReadsCurrent ==
    \A r \in sessions : \A v \in Lines(items[r]) : LevelRead(r, v) = stock[v]

ExactInv == CheckoutInv /\ StockConserved /\ ReadsCurrent

LEMMA ConservedNext ==
    ExactInv /\ [Next]_vars => StockConserved'
  <1> SUFFICES ASSUME ExactInv, [Next]_vars, NEW v \in Variants
               PROVE  InitialStock[v] = stock'[v] + ordered'[v]
    BY DEF StockConserved
  <1> USE CheckoutAssumption DEF ExactInv, CheckoutInv, TypeOK
  <1>1. ASSUME NEW r \in Requests, Commit(r)
        PROVE  InitialStock[v] = stock'[v] + ordered'[v]
    <2>1. ordered'[v] = ordered[v] + items[r][v]
      BY <1>1 DEF Commit, OrderedAfter
    <2>2. CASE items[r][v] > 0
      <3>1. r \in sessions /\ v \in Lines(items[r]) /\ v \in Reserved(r)
        BY <1>1, <2>2 DEF Commit, Reserved, Lines
      <3>2. loaded[r][v] + items[r][v] = stock[v]
        BY <3>1 DEF ReadsCurrent, LevelRead
      <3>3. stock'[v] = loaded[r][v]
        BY <1>1, <2>2 DEF Commit, StockAfter
      <3> QED BY <2>1, <3>2, <3>3 DEF StockConserved
    <2>3. CASE ~(items[r][v] > 0)
      BY <1>1, <2>1, <2>3 DEF Commit, StockAfter, StockConserved
    <2> QED BY <2>2, <2>3
  <1>2. CASE UNCHANGED <<stock, ordered>>
    BY <1>2 DEF StockConserved
  <1> QED
    BY <1>1, <1>2
    DEF Next, vars, Proceed, GetCart, AskForRow, TakeLine, RefuseLine,
        DeadlockVictim, Abandon, Rollback

LEMMA ReadsCurrentNext ==
    ExactInv /\ DisjointCarts /\ [Next]_vars => ReadsCurrent'
  <1> SUFFICES ASSUME ExactInv, DisjointCarts, [Next]_vars,
                      NEW q \in sessions', NEW v \in Variants, items'[q][v] > 0
               PROVE  LevelRead(q, v)' = stock'[v]
    BY DEF ReadsCurrent, Lines
  <1> USE CheckoutAssumption DEF ExactInv, CheckoutInv, TypeOK
  <1>1. ASSUME NEW r \in Requests, NEW cart \in Carts, GetCart(r, cart)
        PROVE  LevelRead(q, v)' = stock'[v]
    <2>1. CASE q = r
      <3>1. loaded'[q] = stock /\ Reserved(q)' = {} /\ stock' = stock
        BY <1>1, <2>1 DEF GetCart, Reserved, Lines
      <3> QED BY <3>1 DEF LevelRead
    <2>2. CASE q # r
      BY <1>1, <2>2 DEF GetCart, ReadsCurrent, LevelRead, Reserved, Lines
    <2> QED BY <2>1, <2>2
  <1>2. ASSUME NEW r \in Requests, NEW w \in Variants, AskForRow(r, w)
        PROVE  LevelRead(q, v)' = stock'[v]
    BY <1>2 DEF AskForRow, ReadsCurrent, LevelRead, Reserved, Lines
  <1>3. ASSUME NEW r \in Requests, TakeLine(r)
        PROVE  LevelRead(q, v)' = stock'[v]
    <2> DEFINE w == waitsFor[r]
    <2>1. w \in Variants /\ w \in todo[r] /\ w \in Lines(items[r])
      BY <1>3 DEF TakeLine, RowGranted, LocksMatchSessions
    <2>2. /\ q \in sessions /\ v \in Lines(items[q])
          /\ items' = items /\ stock' = stock
      BY <1>3 DEF TakeLine, Lines
    <2>3. LevelRead(q, v)' = LevelRead(q, v)
      <3>1. CASE q = r /\ v = w
        <4>1. /\ loaded'[q][v] = loaded[q][v] - items[q][v]
              /\ v \in Reserved(q)' /\ v \notin Reserved(q)
          BY <1>3, <2>1, <3>1 DEF TakeLine, Reserved
        <4> QED BY <2>2, <4>1 DEF LevelRead
      <3>2. CASE ~(q = r /\ v = w)
        <4>1. /\ loaded'[q][v] = loaded[q][v]
              /\ v \in Reserved(q)' <=> v \in Reserved(q)
          BY <1>3, <2>1, <3>2 DEF TakeLine, Reserved
        <4> QED BY <2>2, <4>1 DEF LevelRead
      <3> QED BY <3>1, <3>2
    <2> QED BY <2>2, <2>3 DEF ReadsCurrent
  <1>4. ASSUME NEW r \in Requests, Close(r), q # r => stock'[v] = stock[v]
        PROVE  LevelRead(q, v)' = stock'[v]
    <2>1. q \in sessions /\ q # r
      BY <1>4 DEF Close
    <2>2. /\ loaded'[q] = loaded[q] /\ items'[q] = items[q]
          /\ todo'[q] = todo[q]
      BY <1>4, <2>1 DEF Close
    <2>3. LevelRead(q, v)' = LevelRead(q, v) /\ v \in Lines(items[q])
      BY <2>2 DEF LevelRead, Reserved, Lines
    <2> QED BY <1>4, <2>1, <2>3 DEF ReadsCurrent
  <1>5. ASSUME NEW r \in Requests, Commit(r)
        PROVE  LevelRead(q, v)' = stock'[v]
    <2>1. q # r => items[r][v] = 0
      <3>1. q # r => q \in sessions /\ items'[q] = items[q]
        BY <1>5 DEF Commit, Close
      <3> QED BY <1>5, <3>1 DEF Commit, DisjointCarts, Lines
    <2>2. items[r][v] = 0 => stock'[v] = stock[v]
      BY <1>5 DEF Commit, StockAfter
    <2> QED BY <1>4, <1>5, <2>1, <2>2 DEF Commit
  <1>6. ASSUME NEW r \in Requests, Rollback(r)
        PROVE  LevelRead(q, v)' = stock'[v]
    BY <1>4, <1>6 DEF Rollback
  <1>7. CASE UNCHANGED vars
    BY <1>7 DEF vars, ReadsCurrent, LevelRead, Reserved, Lines
  <1> QED
    BY <1>1, <1>2, <1>3, <1>5, <1>6, <1>7
    DEF Next, Proceed, RefuseLine, DeadlockVictim, Abandon

LEMMA ExactInvariance == Spec /\ []DisjointCarts => []ExactInv
  <1>1. Init => ExactInv
    BY InvInit, CheckoutAssumption
    DEF Init, ExactInv, StockConserved, ReadsCurrent, NoCart
  <1>2. ExactInv /\ DisjointCarts /\ [Next]_vars => ExactInv'
    BY InvNext, ConservedNext, ReadsCurrentNext DEF ExactInv
  <1> QED
    BY <1>1, <1>2, PTL DEF Spec

\* Every unit is on the shelf or sold, and not both, as long as overlapping
\* checkouts share no variant.
THEOREM ExactWhenDisjoint == Spec => ExactUnlessShared
  <1>1. ExactInv => StockConserved
    BY DEF ExactInv
  <1> QED
    BY <1>1, ExactInvariance, PTL DEF ExactUnlessShared

\* Under the same condition Checkout implements the exact ledger.
THEOREM ImplementsExactLedger == Spec /\ []DisjointCarts => KeepsExactLedger
  <1>1. Init => Shelf!Opening
    BY DEF Init, Shelf!Opening, NoCart
  <1>2. ExactInv /\ ExactInv' /\ [Next]_vars => [Shelf!ExactOrder]_(Shelf!ledger)
    <2> SUFFICES ASSUME ExactInv, ExactInv', [Next]_vars
                 PROVE  Shelf!ExactOrder \/ UNCHANGED <<stock, ordered>>
      BY DEF Shelf!ledger
    <2> USE CheckoutAssumption DEF ExactInv, CheckoutInv, TypeOK
    <2>1. ASSUME NEW r \in Requests, Commit(r)
          PROVE  Shelf!ExactOrder
      <3>1. \A v \in Variants : ordered'[v] = ordered[v] + items[r][v]
        BY <2>1 DEF Commit, OrderedAfter
      <3>2. stock' \in [Variants -> Nat]
        BY <2>1 DEF Commit, StockAfter, StockNotNegative
      <3>3. \A v \in Variants : stock'[v] = stock[v] - (ordered'[v] - ordered[v])
        <4> SUFFICES ASSUME NEW v \in Variants
                     PROVE  stock'[v] = stock[v] - (ordered'[v] - ordered[v])
          OBVIOUS
        <4>1. InitialStock[v] = stock[v] + ordered[v]
          BY DEF StockConserved
        <4>2. InitialStock[v] = stock'[v] + ordered'[v]
          BY DEF StockConserved
        <4>3. /\ stock[v] \in Int /\ stock'[v] \in Int
              /\ ordered[v] \in Int /\ ordered'[v] \in Int
          OBVIOUS
        <4> QED BY ONLY <4>1, <4>2, <4>3
      <3> QED BY <3>1, <3>2, <3>3
              DEF Shelf!ExactOrder, Shelf!OrderShape, Shelf!SoldNow
    <2>2. CASE UNCHANGED <<stock, ordered>>
      BY <2>2
    <2> QED
      BY <2>1, <2>2
      DEF Next, vars, Proceed, GetCart, AskForRow, TakeLine, RefuseLine,
          DeadlockVictim, Abandon, Rollback
  <1> QED
    BY <1>1, <1>2, ExactInvariance, PTL
    DEF Spec, KeepsExactLedger, Shelf!ExactSpec

-----------------------------------------------------------------------------
\* Whatever the pool does, the tables, locks and sessions take a step of
\* Checkout or none.
LEMMA PoolStep == PoolNext => [Next]_vars
  <1> SUFFICES ASSUME NEW r \in Requests,
                      \/ Arrive(r) \/ LeavePool(r) \/ LoopStep(r)
                      \/ FailInside(r) \/ CommitOrder(r)
                      \/ Answer(r) \/ FailReading(r)
               PROVE  [Next]_vars
    BY DEF PoolNext
  <1>1. CASE Arrive(r) \/ Answer(r) \/ FailReading(r)
    BY <1>1 DEF Arrive, Answer, FailReading, LoseAnswer
  <1>2. CASE LeavePool(r)
    BY <1>2 DEF LeavePool, Enter, Refresh, GiveUp, LoseAnswer, Next
  <1>3. CASE LoopStep(r)
    BY <1>3 DEF LoopStep, Next, Proceed
  <1>4. CASE FailInside(r)
    BY <1>4 DEF FailInside, Next, Proceed
  <1>5. CASE CommitOrder(r)
    BY <1>5 DEF CommitOrder, Next, Proceed
  <1> QED BY <1>1, <1>2, <1>3, <1>4, <1>5

\* By the shape of the actions: they are those of Checkout (checkout(),
\* services/ecommerce.py lines 232-272) or leave its variables alone.  It
\* carries the theorems about Checkout over.
LEMMA PoolImplementsCheckout == PoolSpec => Spec
  <1>1. PoolInit => Init
    BY DEF PoolInit
  <1>2. [PoolNext]_allVars => [Next]_vars
    BY PoolStep DEF allVars
  <1> QED BY <1>1, <1>2, PTL DEF PoolSpec, Spec

-----------------------------------------------------------------------------
\* A request that may still commit leaves room for one more order.
RoomForOrder == \A r \in Requests :
                   phase[r] \in {"connecting", "inside"} => orders[r] < MaxOrders

PoolInv == PoolTypeOK /\ RoomForOrder /\ OneOrderUnlessAnswerLost

LEMMA PoolInvInit == PoolInit => PoolInv
  BY ConnectionPoolAssumption
  DEF PoolInit, Init, PoolInv, PoolTypeOK, RoomForOrder,
      OneOrderUnlessAnswerLost, Phases

LEMMA PoolInvNext == PoolInv /\ [PoolNext]_allVars => PoolInv'
  <1> SUFFICES ASSUME PoolInv, [PoolNext]_allVars PROVE PoolInv'
    OBVIOUS
  <1> USE ConnectionPoolAssumption
      DEF PoolInv, PoolTypeOK, RoomForOrder, OneOrderUnlessAnswerLost, Phases,
          Goto
  <1>1. ASSUME NEW r \in Requests, Arrive(r) PROVE PoolInv'
    BY <1>1 DEF Arrive, vars
  <1>2. ASSUME NEW r \in Requests, NEW cart \in Carts, Enter(r, cart)
        PROVE  PoolInv'
    BY <1>2 DEF Enter, GetCart
  <1>3. ASSUME NEW r \in Requests, Refresh(r) PROVE PoolInv'
    BY <1>3 DEF Refresh, vars
  <1>4. ASSUME NEW r \in Requests, GiveUp(r) PROVE PoolInv'
    BY <1>4 DEF GiveUp, LoseAnswer, vars
  <1>5. ASSUME NEW r \in Requests, LoopStep(r) PROVE PoolInv'
    BY <1>5 DEF LoopStep, AskForRow, TakeLine, poolVars
  <1>6. ASSUME NEW r \in Requests, FailInside(r) PROVE PoolInv'
    <2>1. sessions' = sessions \ {r}
      BY <1>6 DEF FailInside, RefuseLine, DeadlockVictim, Abandon, Rollback, Close
    <2> QED BY <1>6, <2>1 DEF FailInside, OrdersAfterRollback
  <1>7. ASSUME NEW r \in Requests, CommitOrder(r) PROVE PoolInv'
    <2>1. sessions' = sessions \ {r}
      BY <1>7 DEF CommitOrder, Commit, Close
    <2> QED BY <1>7, <2>1 DEF CommitOrder
  <1>8. ASSUME NEW r \in Requests, Answer(r) PROVE PoolInv'
    BY <1>8 DEF Answer, vars
  <1>9. ASSUME NEW r \in Requests, FailReading(r) PROVE PoolInv'
    BY <1>9 DEF FailReading, LoseAnswer, vars
  <1>10. CASE UNCHANGED allVars
    BY <1>10 DEF allVars, vars, poolVars
  <1> QED
    BY <1>1, <1>2, <1>3, <1>4, <1>5, <1>6, <1>7, <1>8, <1>9, <1>10
    DEF PoolNext, LeavePool

\* The inductive invariant of the pool.
THEOREM PoolInvariance == PoolSpec => []PoolInv
  BY PoolInvInit, PoolInvNext, PTL DEF PoolSpec

\* Types, and the sessions of Checkout are the requests inside.
THEOREM PoolTypeCorrect == PoolSpec => []PoolTypeOK
  BY PoolInvariance, PTL DEF PoolInv

\* A request sent again orders twice only after a lost answer.
THEOREM OneOrder == PoolSpec => []OneOrderUnlessAnswerLost
  BY PoolInvariance, PTL DEF PoolInv

\* Row locks belong to requests that have a connection, so no pool size can
\* make the pool and the row locks wait for one another.
THEOREM LocksAndPoolApart == PoolSpec => []NoLockAwaitsPool
  <1>1. PoolInv /\ CheckoutInv => NoLockAwaitsPool
    BY CheckoutAssumption
    DEF PoolInv, PoolTypeOK, CheckoutInv, LocksMatchSessions, NoLockAwaitsPool
  <1> QED BY <1>1, PoolInvariance, PoolImplementsCheckout, Invariance, PTL

\* Committed stock is never negative with pools and retries either.
THEOREM PoolNeverNegative == PoolSpec => []StockNotNegative
  BY PoolImplementsCheckout, NeverNegative, PTL
=============================================================================
