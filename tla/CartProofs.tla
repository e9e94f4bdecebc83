----------------------------- MODULE CartProofs -----------------------------
(***************************************************************************)
(* Theorems about Cart, for any calls, owners, variants and quantities, and *)
(* any number of carts.                                                    *)
(*                                                                         *)
(* A call computes from what it has read.  That may be outdated, but no    *)
(* more than what was acknowledged (CallsInOrder), and the cart it works   *)
(* on is its owner's or still its own secret (WorksOnOwnCart).             *)
(* The last section is about Storefront, which adds checkout to Cart.      *)
(***************************************************************************)
EXTENDS Storefront, FiniteSetTheorems, TLAPS

LEMMA TypeOKInit == Init => TypeOK
  BY CartAssumption DEF Init, TypeOK

\* The quantity COMMIT writes is what the column takes.
LEMMA QuantityFits ==
    ASSUME TypeOK, NEW c \in Calls, Commit(c)
    PROVE  /\ calls[c] \in Arguments /\ calls[c].variant \in Variants
           /\ seen[c] \in 0..MaxInteger
           /\ calls[c].quantity \in Nat \ {0}
           /\ NewQuantity(c) = seen[c] + calls[c].quantity
           /\ NewQuantity(c) \in 1..MaxInteger
  <1>1. calls[c] \in Arguments /\ calls[c].variant \in Variants /\ seen[c] \in 0..MaxInteger
    BY DEF TypeOK, Commit, Writable, InProgress
  <1>2. calls[c].quantity \in Nat \ {0}
    BY <1>1, CartAssumption DEF Arguments
  <1>3. NewQuantity(c) <= MaxInteger
    BY DEF Commit, Writable
  <1> QED BY <1>1, <1>2, <1>3, CartAssumption DEF NewQuantity

-----------------------------------------------------------------------------
\* A call finds its cart before it reads the line, and what it has read is no
\* more than what the owner was told.
CallsInOrder ==
    \A c \in Calls :
        /\ ~InProgress(c) => cart[c] = Null
        /\ cart[c] = Null => seen[c] = Null
        /\ (seen[c] # Null /\ calls[c].variant \in Variants) =>
              seen[c] <= acked[cart[c]][calls[c].variant]

\* The cart of a call is committed and its owner's, or known to nobody else.
WorksOnOwnCart ==
    \A c \in Calls : cart[c] # Null =>
        \/ carts[cart[c]] # Null /\ Matches(calls[c].owner, carts[cart[c]])
        \/ carts[cart[c]] = Null /\ \A d \in Calls \ {c} : cart[d] # cart[c]

CartInv == TypeOK /\ CallsInOrder /\ WorksOnOwnCart /\ LinesWithinAcked

LEMMA CartInvInit == Init => CartInv
  BY TypeOKInit
  DEF Init, CartInv, CallsInOrder, WorksOnOwnCart, LinesWithinAcked, InProgress

LEMMA TypeOKNext == CartInv /\ [Next]_vars => TypeOK'
  <1> SUFFICES ASSUME CartInv, [Next]_vars PROVE TypeOK'
    OBVIOUS
  <1>0. TypeOK /\ CallsInOrder
    BY DEF CartInv
  <1> USE <1>0 DEF TypeOK
  <1>1. ASSUME NEW c \in Calls, NEW call \in Arguments, Start(c, call) PROVE TypeOK'
    BY <1>1 DEF Start
  <1>2. ASSUME NEW c \in Calls, FindCart(c) \/ NewCart(c) PROVE TypeOK'
    BY <1>2 DEF FindCart, NewCart
  <1>3. ASSUME NEW c \in Calls, TooManyCarts(c) \/ CommitFails(c) \/ Abandon(c)
        PROVE  TypeOK'
    BY <1>3 DEF TooManyCarts, CommitFails, Abandon, Rollback, Leave
  <1>4. ASSUME NEW c \in Calls, ReadLine(c) PROVE TypeOK'
    <2>1. cart[c] \in CartIds
      BY <1>4 DEF ReadLine
    <2>2. 0 \in 0..MaxInteger
      BY CartAssumption
    <2> QED BY <1>4, <2>1, <2>2 DEF ReadLine
  <1>5. ASSUME NEW c \in Calls, Commit(c) PROVE TypeOK'
    <2>1. calls[c].owner \in Owners
      BY <1>5, QuantityFits DEF Arguments
    <2>2. carts' \in [CartIds -> Owners \cup {Null}]
      BY <1>5, <2>1 DEF Commit
    <2>3. cart[c] \in CartIds /\ calls[c].variant \in Variants
      BY <1>5, QuantityFits DEF CallsInOrder, Commit
    <2>4. /\ [lines[cart[c]] EXCEPT ![calls[c].variant] = NewQuantity(c)] \in
                [Variants -> 0..MaxInteger]
          /\ [acked[cart[c]] EXCEPT ![calls[c].variant] = @ + calls[c].quantity] \in
                [Variants -> Nat]
      BY <1>5, <2>3, QuantityFits
    <2>5. lines' \in [CartIds -> [Variants -> 0..MaxInteger]]
      BY <1>5, <2>3, <2>4 DEF Commit
    <2>6. acked' \in [CartIds -> [Variants -> Nat]]
      BY <1>5, <2>3, <2>4 DEF Commit
    <2> QED BY <1>5, <2>2, <2>5, <2>6 DEF Commit, Leave
  <1>6. CASE UNCHANGED vars
    BY <1>6 DEF vars
  <1> QED BY <1>1, <1>2, <1>3, <1>4, <1>5, <1>6 DEF Next, Step

LEMMA MatchesItself == \A o : Matches(o, o)
  BY DEF Matches

\* What COMMIT does to the tables and to the calls.
LEMMA CommitEffect ==
    ASSUME CartInv, NEW c \in Calls, Commit(c)
    PROVE  /\ InProgress(c) /\ cart[c] \in CartIds
           /\ calls'[c] = NoCall /\ cart'[c] = Null /\ seen'[c] = Null
           /\ \A d \in Calls \ {c} :
                 calls'[d] = calls[d] /\ cart'[d] = cart[d] /\ seen'[d] = seen[d]
           /\ carts'[cart[c]] # Null
           /\ carts'[cart[c]] = IF carts[cart[c]] = Null THEN calls[c].owner
                                                         ELSE carts[cart[c]]
           /\ \A k \in CartIds \ {cart[c]} :
                 carts'[k] = carts[k] /\ lines'[k] = lines[k] /\ acked'[k] = acked[k]
           /\ \A v \in Variants \ {calls[c].variant} :
                 /\ lines'[cart[c]][v] = lines[cart[c]][v]
                 /\ acked'[cart[c]][v] = acked[cart[c]][v]
           /\ lines'[cart[c]][calls[c].variant] = seen[c] + calls[c].quantity
           /\ acked'[cart[c]][calls[c].variant] =
                 acked[cart[c]][calls[c].variant] + calls[c].quantity
  <1> USE DEF CartInv
  <1>1. InProgress(c) /\ cart[c] \in CartIds
    BY DEF Commit, CallsInOrder, TypeOK
  <1>2. calls[c].owner \in Owners /\ calls[c].owner # Null
    BY QuantityFits, CartAssumption DEF Arguments
  <1> QED BY <1>1, <1>2, QuantityFits DEF Commit, Leave, TypeOK

LEMMA CallsInOrderNext == CartInv /\ [Next]_vars => CallsInOrder'
  <1> SUFFICES ASSUME CartInv, [Next]_vars PROVE CallsInOrder'
    OBVIOUS
  <1>0. TypeOK /\ CallsInOrder /\ LinesWithinAcked
    BY DEF CartInv
  <1> USE <1>0 DEF TypeOK, CallsInOrder, InProgress
  <1>1. ASSUME NEW c \in Calls, NEW call \in Arguments, Start(c, call) PROVE CallsInOrder'
    BY <1>1 DEF Start
  <1>2. ASSUME NEW c \in Calls, FindCart(c) \/ NewCart(c) PROVE CallsInOrder'
    BY <1>2 DEF FindCart, NewCart
  <1>3. ASSUME NEW c \in Calls, TooManyCarts(c) \/ CommitFails(c) \/ Abandon(c)
        PROVE  CallsInOrder'
    BY <1>3 DEF TooManyCarts, CommitFails, Abandon, Rollback, Leave
  <1>4. ASSUME NEW c \in Calls, ReadLine(c) PROVE CallsInOrder'
    BY <1>4 DEF ReadLine, LinesWithinAcked
  <1>5. ASSUME NEW c \in Calls, Commit(c) PROVE CallsInOrder'
    <2>1. ASSUME NEW k \in CartIds, NEW v \in Variants PROVE acked[k][v] <= acked'[k][v]
      <3>1. CASE k = cart[c] /\ v = calls[c].variant
        BY <1>5, <3>1, CommitEffect, QuantityFits
      <3>2. CASE k # cart[c] \/ v # calls[c].variant
        BY <1>5, <3>2, CommitEffect
      <3> QED BY <3>1, <3>2
    <2>2. ASSUME NEW d \in Calls \ {c}, seen[d] # Null, calls[d].variant \in Variants
          PROVE  seen[d] <= acked'[cart[d]][calls[d].variant]
      <3>1. /\ cart[d] \in CartIds
            /\ acked[cart[d]][calls[d].variant] <= acked'[cart[d]][calls[d].variant]
        BY <2>1, <2>2
      <3>2. acked'[cart[d]][calls[d].variant] \in Nat
        BY <2>2, <3>1, TypeOKNext
      <3> QED BY <2>2, <3>1, <3>2
    <2> QED BY <1>5, <2>2, CommitEffect
  <1>6. CASE UNCHANGED vars
    BY <1>6 DEF vars
  <1> QED BY <1>1, <1>2, <1>3, <1>4, <1>5, <1>6 DEF Next, Step

LEMMA WorksOnOwnCartNext == CartInv /\ [Next]_vars => WorksOnOwnCart'
  <1> SUFFICES ASSUME CartInv, [Next]_vars PROVE WorksOnOwnCart'
    OBVIOUS
  <1>0. TypeOK /\ CallsInOrder /\ WorksOnOwnCart
    BY DEF CartInv
  <1> USE <1>0 DEF TypeOK, CallsInOrder, InProgress, WorksOnOwnCart
  <1>1. ASSUME NEW c \in Calls, NEW call \in Arguments, Start(c, call)
        PROVE  WorksOnOwnCart'
    BY <1>1 DEF Start, Matches
  <1>2. ASSUME NEW c \in Calls, FindCart(c) PROVE WorksOnOwnCart'
    <2>1. PICK k \in CartIds : /\ carts[k] # Null /\ Matches(calls[c].owner, carts[k])
                               /\ cart' = [cart EXCEPT ![c] = k]
      BY <1>2 DEF FindCart, CartsOf
    <2> QED BY <1>2, <2>1 DEF FindCart, Matches
  <1>3. ASSUME NEW c \in Calls, NewCart(c) PROVE WorksOnOwnCart'
    <2>1. PICK k \in CartIds : /\ carts[k] = Null /\ \A d \in Calls : cart[d] # k
                               /\ cart' = [cart EXCEPT ![c] = k]
      BY <1>3 DEF NewCart
    <2> QED BY <1>3, <2>1 DEF NewCart, Matches
  <1>4. ASSUME NEW c \in Calls, TooManyCarts(c) \/ CommitFails(c) \/ Abandon(c)
        PROVE  WorksOnOwnCart'
    BY <1>4 DEF TooManyCarts, CommitFails, Abandon, Rollback, Leave, Matches
  <1>5. ASSUME NEW c \in Calls, ReadLine(c) PROVE WorksOnOwnCart'
    BY <1>5 DEF ReadLine, Matches
  <1>6. ASSUME NEW c \in Calls, Commit(c) PROVE WorksOnOwnCart'
    <2>1. ASSUME NEW d \in Calls \ {c}, cart[d] # Null
          PROVE  /\ carts'[cart[d]] = carts[cart[d]]
                 /\ \A e \in Calls : cart[d] # cart[e] => cart[d] # cart'[e]
      <3>1. cart[d] = cart[c] => carts[cart[c]] # Null
        BY <2>1
      <3> QED BY <1>6, <2>1, <3>1, CommitEffect
    <2>2. \A d \in Calls \ {c} : calls'[d] = calls[d] /\ cart'[d] = cart[d]
      BY <1>6, CommitEffect
    <2>3. cart'[c] = Null
      BY <1>6, CommitEffect
    <2> QED BY <2>1, <2>2, <2>3 DEF Matches
  <1>7. CASE UNCHANGED vars
    BY <1>7 DEF vars, Matches
  <1> QED BY <1>1, <1>2, <1>3, <1>4, <1>5, <1>6, <1>7 DEF Next, Step

\* Only COMMIT touches the tables.
LEMMA OnlyCommitWrites ==
    ASSUME [Next]_vars, \A c \in Calls : ~Commit(c)
    PROVE  UNCHANGED <<carts, lines, acked>>
  BY DEF Next, Step, vars, Start, FindCart, NewCart, TooManyCarts, ReadLine,
         CommitFails, Abandon, Rollback

LEMMA LinesWithinAckedNext == CartInv /\ [Next]_vars => LinesWithinAcked'
  <1> SUFFICES ASSUME CartInv, [Next]_vars PROVE LinesWithinAcked'
    OBVIOUS
  <1>1. ASSUME NEW c \in Calls, Commit(c) PROVE LinesWithinAcked'
    <2> DEFINE k == cart[c]
               v == calls[c].variant
    <2>1. k \in CartIds /\ v \in Variants
      BY <1>1, CommitEffect, QuantityFits DEF CartInv
    <2>2. seen[c] \in Nat /\ acked[k][v] \in Nat /\ calls[c].quantity \in Nat \ {0}
      BY <1>1, <2>1, QuantityFits, CartAssumption DEF CartInv, TypeOK
    <2>3. seen[c] <= acked[k][v]
      BY <1>1, <2>1 DEF CartInv, CallsInOrder, Commit
    <2>4. /\ lines'[k][v] <= acked'[k][v]
          /\ lines'[k][v] # 0 /\ acked'[k][v] # 0
      BY <1>1, <2>2, <2>3, CommitEffect
    <2>5. ASSUME NEW u \in Variants \ {v}
          PROVE  lines'[k][u] = lines[k][u] /\ acked'[k][u] = acked[k][u]
      BY <1>1, CommitEffect
    <2>6. ASSUME NEW j \in CartIds \ {k}
          PROVE  carts'[j] = carts[j] /\ lines'[j] = lines[j] /\ acked'[j] = acked[j]
      BY <1>1, CommitEffect
    <2>7. carts'[k] # Null
      BY <1>1, CommitEffect
    <2> QED BY <2>1, <2>4, <2>5, <2>6, <2>7 DEF CartInv, LinesWithinAcked
  <1>2. ASSUME UNCHANGED <<carts, lines, acked>> PROVE LinesWithinAcked'
    BY <1>2 DEF CartInv, LinesWithinAcked
  <1> QED BY <1>1, <1>2, OnlyCommitWrites

\* The inductive invariant.
THEOREM Invariance == Spec => []CartInv
  <1>1. CartInv /\ [Next]_vars => CartInv'
    BY TypeOKNext, CallsInOrderNext, WorksOnOwnCartNext, LinesWithinAckedNext DEF CartInv
  <1> QED BY <1>1, CartInvInit, PTL DEF Spec

\* Type correctness.
THEOREM TypeCorrect == Spec => []TypeOK
  BY Invariance, PTL DEF CartInv

\* Lost updates lower a line, but it never holds more than its owner was told
\* nor disappears (services/ecommerce.py lines 193 to 200).
THEOREM NeverMoreThanAcked == Spec => []LinesWithinAcked
  BY Invariance, PTL DEF CartInv

\* A committed call changes one line, of a cart of its own owner.
THEOREM OwnLineOnly == Spec => WritesOwnLine
  <1>1. ASSUME CartInv, [Next]_vars, NEW k \in CartIds, lines'[k] # lines[k]
        PROVE  \E c \in Calls :
                  /\ InProgress(c) /\ ~InProgress(c)'
                  /\ carts'[k] # Null /\ Matches(calls[c].owner, carts'[k])
                  /\ \A v \in Variants \ {calls[c].variant} :
                        lines'[k][v] = lines[k][v]
                  /\ lines'[k][calls[c].variant] > seen[c]
    <2>1. PICK c \in Calls : Commit(c)
      BY <1>1, OnlyCommitWrites
    <2>2. k = cart[c]
      BY <1>1, <2>1, CommitEffect
    <2>3. InProgress(c) /\ ~InProgress(c)'
      BY <1>1, <2>1, CommitEffect DEF InProgress
    <2>4. carts'[k] # Null /\ Matches(calls[c].owner, carts'[k])
      <3>1. CASE carts[k] = Null
        BY <1>1, <2>1, <2>2, <3>1, CommitEffect, MatchesItself
      <3>2. CASE carts[k] # Null
        <4>1. WorksOnOwnCart /\ cart[c] # Null
          BY <1>1, <2>1 DEF CartInv, CallsInOrder, Commit
        <4>2. carts'[k] = carts[k]
          BY <1>1, <2>1, <2>2, <3>2, CommitEffect
        <4> QED BY <2>2, <3>2, <4>1, <4>2 DEF WorksOnOwnCart
      <3> QED BY <3>1, <3>2
    <2>5. lines'[k][calls[c].variant] > seen[c]
      BY <1>1, <2>1, <2>2, CommitEffect, QuantityFits DEF CartInv
    <2>6. \A v \in Variants \ {calls[c].variant} : lines'[k][v] = lines[k][v]
      BY <1>1, <2>1, <2>2, CommitEffect
    <2> QED BY <2>3, <2>4, <2>5, <2>6
  <1>2. CartInv /\ [Next]_vars =>
           [\A k \in CartIds : lines'[k] # lines[k] =>
               \E c \in Calls :
                  /\ InProgress(c) /\ ~InProgress(c)'
                  /\ carts'[k] # Null /\ Matches(calls[c].owner, carts'[k])
                  /\ \A v \in Variants \ {calls[c].variant} :
                        lines'[k][v] = lines[k][v]
                  /\ lines'[k][calls[c].variant] > seen[c]]_vars
    BY <1>1
  <1> QED BY <1>2, Invariance, PTL DEF Spec, WritesOwnLine

-----------------------------------------------------------------------------
\* While no owner has two calls in progress: carts are told apart by their
\* owners, a call that is about to insert one inserts the only one, and what a
\* call has read of a line is still what the line holds.
ExactInv ==
    /\ \A j, k \in CartIds : (carts[j] # Null /\ carts[j] = carts[k]) => j = k
    /\ LinesAreAcked
    /\ \A c \in Calls : cart[c] # Null =>
          /\ carts[cart[c]] = Null => \A k \in CartIds : carts[k] # calls[c].owner
          /\ (seen[c] # Null /\ calls[c].variant \in Variants) =>
                seen[c] = lines[cart[c]][calls[c].variant]

\* Calls of different owners work on different carts.
LEMMA CartsApart ==
    ASSUME OwnersApart, CartInv, OneCallPerOwner,
           NEW c \in Calls, NEW d \in Calls, c # d, cart[c] # Null
    PROVE  cart[c] # cart[d]
  <1> SUFFICES ASSUME cart[c] = cart[d] PROVE FALSE
    OBVIOUS
  <1>1. InProgress(c) /\ InProgress(d) /\ calls[c].owner # calls[d].owner
    BY DEF CartInv, CallsInOrder, OneCallPerOwner
  <1>2. calls[c].owner \in Owners /\ calls[d].owner \in Owners
    BY <1>1 DEF CartInv, TypeOK, InProgress, Arguments
  <1>3. /\ carts[cart[c]] \in Owners
        /\ Matches(calls[c].owner, carts[cart[c]])
        /\ Matches(calls[d].owner, carts[cart[c]])
    BY DEF CartInv, WorksOnOwnCart, TypeOK
  <1> QED BY <1>1, <1>2, <1>3 DEF OwnersApart

LEMMA ExactNext ==
    ASSUME OwnersApart, CartInv, ExactInv, OneCallPerOwner, [Next]_vars
    PROVE  ExactInv'
  <1> USE DEF ExactInv, LinesAreAcked
  <1>1. ASSUME NEW c \in Calls, NEW call \in Arguments, Start(c, call) PROVE ExactInv'
    BY <1>1 DEF Start, CartInv, TypeOK, CallsInOrder
  <1>2. ASSUME NEW c \in Calls, FindCart(c) PROVE ExactInv'
    BY <1>2 DEF FindCart, CartsOf, CartInv, TypeOK, CallsInOrder
  <1>3. ASSUME NEW c \in Calls, NewCart(c) PROVE ExactInv'
    <2>1. \A k \in CartIds : carts[k] # calls[c].owner
      <3>1. calls[c].owner # Null
        BY <1>3, CartAssumption DEF NewCart, CartInv, TypeOK, InProgress, Arguments
      <3> QED BY <1>3, <3>1, MatchesItself DEF NewCart, CartsOf
    <2> QED BY <1>3, <2>1 DEF NewCart, CartInv, TypeOK, CallsInOrder
  <1>4. ASSUME NEW c \in Calls, TooManyCarts(c) \/ CommitFails(c) \/ Abandon(c)
        PROVE  ExactInv'
    BY <1>4 DEF TooManyCarts, CommitFails, Abandon, Rollback, Leave, CartInv, TypeOK
  <1>5. ASSUME NEW c \in Calls, ReadLine(c) PROVE ExactInv'
    BY <1>5 DEF ReadLine, CartInv, TypeOK
  <1>6. ASSUME NEW c \in Calls, Commit(c) PROVE ExactInv'
    <2> DEFINE k == cart[c]
               v == calls[c].variant
    <2>1. k \in CartIds /\ v \in Variants /\ k # Null /\ InProgress(c) /\ seen[c] # Null
      BY <1>6, CommitEffect, QuantityFits DEF CartInv, CallsInOrder, Commit
    <2>2. lines'[k][v] = acked'[k][v]
      BY <1>6, <2>1, CommitEffect
    <2>3. LinesAreAcked'
      <3>1. ASSUME NEW j \in CartIds, NEW u \in Variants PROVE lines'[j][u] = acked'[j][u]
        BY <1>6, <2>2, CommitEffect
      <3> QED BY <3>1
    <2>4. \A i, j \in CartIds : (carts'[i] # Null /\ carts'[i] = carts'[j]) => i = j
      BY <1>6, <2>1, CommitEffect
    <2>5. ASSUME NEW d \in Calls \ {c}, cart[d] # Null
          PROVE  /\ carts'[cart[d]] = Null =>
                       \A j \in CartIds : carts'[j] # calls[d].owner
                 /\ (seen[d] # Null /\ calls[d].variant \in Variants) =>
                       seen[d] = lines'[cart[d]][calls[d].variant]
      <3>1. cart[d] # k /\ cart[d] \in CartIds
        BY <2>5, CartsApart DEF CartInv, TypeOK
      <3>2. carts'[cart[d]] = carts[cart[d]] /\ lines'[cart[d]] = lines[cart[d]]
        BY <1>6, <3>1, CommitEffect
      <3>3. ASSUME carts[cart[d]] = Null, NEW j \in CartIds
            PROVE  carts'[j] # calls[d].owner
        <4>1. calls[c].owner # calls[d].owner
          BY <2>1, <2>5 DEF OneCallPerOwner, CartInv, CallsInOrder
        <4> QED BY <1>6, <2>5, <3>3, <4>1, CommitEffect
      <3> QED BY <2>5, <3>2, <3>3
    <2>6. /\ cart'[c] = Null
          /\ \A d \in Calls \ {c} :
                cart'[d] = cart[d] /\ seen'[d] = seen[d] /\ calls'[d] = calls[d]
      BY <1>6, CommitEffect
    <2> QED BY <2>3, <2>4, <2>5, <2>6
  <1>7. CASE UNCHANGED vars
    BY <1>7 DEF vars
  <1> QED BY <1>1, <1>2, <1>3, <1>4, <1>5, <1>6, <1>7 DEF Next, Step

\* Carts told apart by their owners: at most one for each.
LEMMA OneEach ==
    ASSUME OwnersApart, TypeOK, ExactInv
    PROVE  OneCartPerOwner
  <1> SUFFICES ASSUME NEW o \in Owners PROVE Cardinality(CartsOf(o)) <= 1
    BY DEF OneCartPerOwner
  <1>1. \A j, k \in CartsOf(o) : j = k
    <2>1. \A k \in CartsOf(o) : k \in CartIds /\ carts[k] # Null /\ carts[k] = o
      BY DEF CartsOf, TypeOK, OwnersApart
    <2> QED BY <2>1 DEF ExactInv
  <1>2. CASE CartsOf(o) = {}
    BY <1>2, FS_EmptySet
  <1>3. CASE CartsOf(o) # {}
    <2>1. PICK k \in CartsOf(o) : TRUE
      BY <1>3
    <2>2. CartsOf(o) = {k}
      BY <1>1, <2>1
    <2> QED BY <2>2, FS_Singleton
  <1> QED BY <1>2, <1>3

\* With owners apart and one call in progress for each, every owner has one
\* cart at most and every acknowledged quantity is in it.
THEOREM ExactWithoutOverlap ==
    ASSUME OwnersApart
    PROVE  Spec => ExactUnlessOverlapping
  <1>1. Init => ExactInv
    BY DEF Init, ExactInv, LinesAreAcked
  <1>2. CartInv /\ ExactInv /\ OneCallPerOwner /\ [Next]_vars => ExactInv'
    BY ExactNext
  <1>3. CartInv /\ ExactInv => OneCartPerOwner /\ LinesAreAcked
    BY OneEach DEF CartInv, ExactInv
  <1> QED BY <1>1, <1>2, <1>3, Invariance, PTL DEF Spec, ExactUnlessOverlapping

-----------------------------------------------------------------------------
\* By the shape of the actions: a checkout (endpoints/ecommerce.py) leaves the
\* carts alone.  It carries the theorems about Cart over.
LEMMA StoreImplementsCart == StoreSpec => Spec
  <1>1. StoreInit => Init
    BY DEF StoreInit
  <1>2. [StoreNext]_storeVars => [Next]_vars
    BY DEF StoreNext, PlaceOrder, storeVars
  <1> QED BY <1>1, <1>2, PTL DEF StoreSpec, Spec

\* Nothing on these routes sets request.state.user_id: all the owners are guests.
GuestsOnly == /\ \A o \in Owners : o = [user |-> Null, token |-> o.token]
              /\ FirstUser # Null

\* User 1, for whom every guest's checkout is made, has no cart.
LEMMA FirstUserHasNoCart ==
    ASSUME GuestsOnly, TypeOK, NEW o \in Owners
    PROVE  Shown(BuyerOf(o)) = NoLines
  <1>1. BuyerOf(o).user = FirstUser /\ FirstUser # Null
    BY DEF GuestsOnly, BuyerOf
  <1>2. \A k \in CartIds : carts[k] # Null => carts[k].user = Null
    BY DEF TypeOK, GuestsOnly
  <1>3. CartsOf(BuyerOf(o)) = {}
    BY <1>1, <1>2 DEF CartsOf, Matches
  <1> QED BY <1>3 DEF Shown, NoLines

\* No order of a guest ever holds a line, whatever is in the guest's cart
\* (endpoints/ecommerce.py line 162 puts user 1 in the guest's place).
THEOREM GuestsOrderNothing ==
    ASSUME GuestsOnly
    PROVE  StoreSpec => [](placed.ordered = NoLines)
  <1>1. StoreInit => placed.ordered = NoLines
    BY DEF StoreInit
  <1>2. TypeOK /\ placed.ordered = NoLines /\ [StoreNext]_storeVars =>
           (placed.ordered = NoLines)'
    BY FirstUserHasNoCart DEF StoreNext, PlaceOrder, storeVars, vars
  <1> QED BY <1>1, <1>2, StoreImplementsCart, TypeCorrect, PTL DEF StoreSpec
=============================================================================
