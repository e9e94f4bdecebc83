------------------------- MODULE OrderPaymentProofs -------------------------
(***************************************************************************)
(* Proofs about OrderPayment, for any calls in progress together, any      *)
(* statuses the provider sends and any tracking codes.  What a session has *)
(* loaded is outdated, but only in one direction: an order that has left   *)
(* "pending" stays away from it.                                           *)
(***************************************************************************)
EXTENDS OrderPayment, TLAPS

LEMMA TypeOKInit == Init => TypeOK
  <1> SUFFICES ASSUME Init PROVE TypeOK
    OBVIOUS
  <1>1. order \in OrderRow
    BY DEF Init, OrderRow, OrderStatus
  <1>2. payment \in PaymentStatus /\ lastWord \in [payment : PaymentStatus, order : OrderStatus]
    BY DEF Init, PaymentStatus, OrderStatus
  <1> QED BY <1>1, <1>2 DEF Init, TypeOK

LEMMA TypeOKNext == TypeOK /\ [Next]_vars => TypeOK'
  <1> SUFFICES ASSUME TypeOK, [Next]_vars PROVE TypeOK'
    OBVIOUS
  <1> USE OrderPaymentAssumption DEF TypeOK
  <1>1. ASSUME NEW w \in Webhooks, NEW status \in Delivered, SelectPayment(w, status)
        PROVE  TypeOK'
    BY <1>1 DEF SelectPayment
  <1>2. ASSUME NEW w \in Webhooks, GetOrder(w) PROVE TypeOK'
    BY <1>2 DEF GetOrder
  <1>3. ASSUME NEW w \in Webhooks, CommitWebhook(w) PROVE TypeOK'
    <2>1. sent[w] \in PaymentStatus /\ sent[w] \in Delivered
      BY <1>3 DEF CommitWebhook
    <2>2. payment' \in PaymentStatus
      BY <1>3, <2>1 DEF CommitWebhook, PaymentAfter, Flushed
    <2>4. lastWord' \in [payment : PaymentStatus, order : OrderStatus]
      BY <1>3, <2>1 DEF CommitWebhook, OrderStatus
    <2>3. order' \in OrderRow
      BY <1>3 DEF CommitWebhook, OrderAfterWebhook, Flushed, OrderRow, OrderStatus
    <2> QED BY <1>3, <2>2, <2>3, <2>4 DEF CommitWebhook, EndWebhook
  <1>4. ASSUME NEW w \in Webhooks, AbandonWebhook(w) PROVE TypeOK'
    BY <1>4 DEF AbandonWebhook, EndWebhook
  <1>5. ASSUME NEW a \in Admins, NEW c \in TrackingCodes, LoadOrder(a, c) PROVE TypeOK'
    BY <1>5 DEF LoadOrder
  <1>6. ASSUME NEW a \in Admins, CommitComplete(a) PROVE TypeOK'
    <2>1. order' \in OrderRow
      BY <1>6 DEF CommitComplete, OrderAfterComplete, Flushed, OrderRow, OrderStatus
    <2>2. lastWord' \in [payment : PaymentStatus, order : OrderStatus]
      BY <1>6 DEF CommitComplete, OrderStatus
    <2> QED BY <1>6, <2>1, <2>2 DEF CommitComplete, EndComplete
  <1>7. ASSUME NEW a \in Admins, AbandonComplete(a) PROVE TypeOK'
    BY <1>7 DEF AbandonComplete, EndComplete
  <1>8. CASE UNCHANGED vars
    BY <1>8 DEF vars
  <1> QED BY <1>1, <1>2, <1>3, <1>4, <1>5, <1>6, <1>7, <1>8 DEF Next

-----------------------------------------------------------------------------
\* A session that saw the order past "pending" is right about that for ever.
SawItLeave == \A c \in Webhooks \cup Admins :
    (sawOrder[c] # None /\ sawOrder[c].status # "pending") => order.status # "pending"

\* And one that saw a tracking code is right that there is one.
SawItTracked == \A c \in Webhooks \cup Admins :
    (sawOrder[c] # None /\ sawOrder[c].tracking # None) => order.tracking # None

\* A webhook that is not in progress has loaded no order.
IdleHasReadNothing == \A w \in Webhooks : sent[w] = None => sawOrder[w] = None

\* A completion in progress has loaded the order.
CallsHaveRead == \A a \in Admins : code[a] # None => sawOrder[a] # None

\* While calls have not overlapped there is one at most, and what it has loaded
\* is what is committed.
AloneAndCurrent == ~overlapped =>
    /\ \A c, d \in Busy : c = d
    /\ \A w \in Webhooks : sent[w] # None =>
           /\ sawPayment[w] = payment
           /\ sawOrder[w] # None => sawOrder[w] = order
    /\ \A a \in Admins : code[a] # None => sawOrder[a] = order

OrderInv == /\ TypeOK
            /\ IdleHasReadNothing
            /\ CallsHaveRead
            /\ SawItLeave
            /\ SawItTracked
            /\ SucceededLeavesPending
            /\ AloneAndCurrent
            /\ LastWordCounts

LEMMA OrderInvInit == Init => OrderInv
  BY TypeOKInit
  DEF Init, OrderInv, IdleHasReadNothing, CallsHaveRead, SawItLeave, SawItTracked,
      SucceededLeavesPending, AloneAndCurrent, LastWordCounts, Busy

\* An order that has left "pending" does not come back: skipped writes leave
\* what is there, and nothing writes "pending".
LEMMA NeverBack ==
    ASSUME OrderInv, [Next]_vars, order.status # "pending"
    PROVE  order'.status # "pending"
  <1> USE DEF OrderInv, TypeOK, OrderRow
  <1>1. ASSUME NEW w \in Webhooks, CommitWebhook(w) PROVE order'.status # "pending"
    BY <1>1 DEF CommitWebhook, OrderAfterWebhook, Flushed
  <1>2. ASSUME NEW a \in Admins, CommitComplete(a) PROVE order'.status # "pending"
    BY <1>2 DEF CommitComplete, OrderAfterComplete, Flushed
  <1> QED BY <1>1, <1>2
          DEF Next, vars, SelectPayment, GetOrder, AbandonWebhook, EndWebhook,
              LoadOrder, EndComplete, AbandonComplete

LEMMA IdleNext == OrderInv /\ [Next]_vars => IdleHasReadNothing'
  <1> SUFFICES ASSUME OrderInv, [Next]_vars, NEW w \in Webhooks, sent'[w] = None
               PROVE  sawOrder'[w] = None
    BY DEF IdleHasReadNothing
  <1> USE OrderPaymentAssumption DEF OrderInv, TypeOK, IdleHasReadNothing
  <1>1. ASSUME NEW v \in Webhooks, NEW status \in Delivered, SelectPayment(v, status)
        PROVE  sawOrder'[w] = None
    BY <1>1 DEF SelectPayment
  <1>2. ASSUME NEW v \in Webhooks, GetOrder(v) PROVE sawOrder'[w] = None
    BY <1>2 DEF GetOrder, PaymentStatus
  <1>3. ASSUME NEW v \in Webhooks, CommitWebhook(v) \/ AbandonWebhook(v)
        PROVE  sawOrder'[w] = None
    BY <1>3 DEF CommitWebhook, AbandonWebhook, EndWebhook
  <1>4. ASSUME NEW a \in Admins, NEW c \in TrackingCodes, LoadOrder(a, c)
        PROVE  sawOrder'[w] = None
    BY <1>4 DEF LoadOrder
  <1>5. ASSUME NEW a \in Admins, CommitComplete(a) \/ AbandonComplete(a)
        PROVE  sawOrder'[w] = None
    BY <1>5 DEF CommitComplete, AbandonComplete, EndComplete
  <1>6. CASE UNCHANGED vars
    BY <1>6 DEF vars
  <1> QED BY <1>1, <1>2, <1>3, <1>4, <1>5, <1>6 DEF Next

LEMMA HaveReadNext == OrderInv /\ [Next]_vars => CallsHaveRead'
  <1> SUFFICES ASSUME OrderInv, [Next]_vars, NEW a \in Admins, code'[a] # None
               PROVE  sawOrder'[a] # None
    BY DEF CallsHaveRead
  <1> USE OrderPaymentAssumption DEF OrderInv, TypeOK, CallsHaveRead
  <1>1. ASSUME NEW w \in Webhooks, NEW status \in Delivered, SelectPayment(w, status)
        PROVE  sawOrder'[a] # None
    BY <1>1 DEF SelectPayment
  <1>2. ASSUME NEW w \in Webhooks, GetOrder(w) \/ CommitWebhook(w) \/ AbandonWebhook(w)
        PROVE  sawOrder'[a] # None
    BY <1>2 DEF GetOrder, CommitWebhook, AbandonWebhook, EndWebhook
  <1>3. ASSUME NEW b \in Admins, NEW c \in TrackingCodes, LoadOrder(b, c)
        PROVE  sawOrder'[a] # None
    BY <1>3 DEF LoadOrder
  <1>4. ASSUME NEW b \in Admins, CommitComplete(b) \/ AbandonComplete(b)
        PROVE  sawOrder'[a] # None
    BY <1>4 DEF CommitComplete, AbandonComplete, EndComplete
  <1>5. CASE UNCHANGED vars
    BY <1>5 DEF vars
  <1> QED BY <1>1, <1>2, <1>3, <1>4, <1>5 DEF Next

LEMMA SawItLeaveNext == OrderInv /\ [Next]_vars => SawItLeave'
  <1> SUFFICES ASSUME OrderInv, [Next]_vars, NEW c \in Webhooks \cup Admins,
                      sawOrder'[c] # None, sawOrder'[c].status # "pending"
               PROVE  order'.status # "pending"
    BY DEF SawItLeave
  <1> USE DEF OrderInv, TypeOK
  <1>1. sawOrder'[c] = sawOrder[c] \/ sawOrder'[c] = order \/ sawOrder'[c] = None
    BY DEF Next, vars, SelectPayment, GetOrder, CommitWebhook, AbandonWebhook, EndWebhook,
           LoadOrder, CommitComplete, AbandonComplete, EndComplete
  <1>2. order.status # "pending"
    BY <1>1 DEF SawItLeave
  <1> QED BY <1>2, NeverBack

\* The order and the payment are committed together, and a skipped write of the
\* order means that it had left "pending" already.
LEMMA SucceededNext == OrderInv /\ [Next]_vars => SucceededLeavesPending'
  <1> SUFFICES ASSUME OrderInv, [Next]_vars PROVE SucceededLeavesPending'
    OBVIOUS
  <1> USE DEF OrderInv, SucceededLeavesPending
  <1>1. ASSUME NEW w \in Webhooks, CommitWebhook(w) PROVE SucceededLeavesPending'
    <2>1. CASE sent[w] = "succeeded"
      <3>1. order'.status = IF sawOrder[w].status = "paid" THEN order.status ELSE "paid"
        BY <1>1, <2>1 DEF CommitWebhook, OrderAfterWebhook, Flushed, TypeOK, OrderRow
      <3>2. sawOrder[w].status = "paid" => order.status # "pending"
        BY <1>1, <2>1 DEF CommitWebhook, SawItLeave
      <3> QED BY <3>1, <3>2
    <2>2. CASE sent[w] # "succeeded"
      BY <1>1, <2>2 DEF CommitWebhook, PaymentAfter, OrderAfterWebhook, Flushed
    <2> QED BY <2>1, <2>2
  <1>2. ASSUME payment' = payment PROVE SucceededLeavesPending'
    BY <1>2, NeverBack
  <1> QED BY <1>1, <1>2
          DEF Next, vars, SelectPayment, GetOrder, AbandonWebhook, LoadOrder,
              CommitComplete, AbandonComplete, EndComplete

LEMMA AloneNext == OrderInv /\ [Next]_vars => AloneAndCurrent'
  <1> SUFFICES ASSUME OrderInv, [Next]_vars, ~overlapped' PROVE AloneAndCurrent'
    BY DEF AloneAndCurrent
  <1> USE DEF OrderInv, TypeOK, Busy
  <1>0. ~overlapped
    BY DEF Next, vars, SelectPayment, GetOrder, CommitWebhook, AbandonWebhook, EndWebhook,
           LoadOrder, CommitComplete, AbandonComplete, EndComplete
  <1>1. ASSUME NEW w \in Webhooks, NEW status \in Delivered, SelectPayment(w, status)
        PROVE  AloneAndCurrent'
    <2>1. Busy = {}
      BY <1>1 DEF SelectPayment
    <2>2. \A x \in Webhooks : x # w => sent'[x] = None
      BY <1>1, <2>1 DEF SelectPayment
    <2>3. \A a \in Admins : code'[a] = None
      BY <1>1, <2>1 DEF SelectPayment
    <2>4. sawPayment'[w] = payment' /\ sawOrder'[w] = None
      BY <1>1 DEF SelectPayment, IdleHasReadNothing
    <2> QED BY <2>2, <2>3, <2>4 DEF AloneAndCurrent
  <1>2. ASSUME NEW w \in Webhooks, GetOrder(w) PROVE AloneAndCurrent'
    <2>1. sent[w] # None /\ w \in Busy
      BY <1>2, OrderPaymentAssumption DEF GetOrder, PaymentStatus
    <2> QED BY <1>0, <1>2, <2>1, OrderPaymentAssumption DEF GetOrder, AloneAndCurrent
  <1>3. ASSUME NEW w \in Webhooks, CommitWebhook(w) \/ AbandonWebhook(w)
        PROVE  AloneAndCurrent'
    <2>1. w \in Busy /\ \A c \in Busy : c = w
      BY <1>0, <1>3 DEF CommitWebhook, AbandonWebhook, AloneAndCurrent
    <2>2. \A x \in Webhooks : sent'[x] = None
      BY <1>3, <2>1 DEF CommitWebhook, AbandonWebhook, EndWebhook
    <2>3. \A a \in Admins : code'[a] = None
      BY <1>3, <2>1, OrderPaymentAssumption DEF CommitWebhook, AbandonWebhook, EndWebhook
    <2> QED BY <2>2, <2>3 DEF AloneAndCurrent
  <1>4. ASSUME NEW a \in Admins, NEW c \in TrackingCodes, LoadOrder(a, c)
        PROVE  AloneAndCurrent'
    <2>1. Busy = {}
      BY <1>4 DEF LoadOrder
    <2> QED BY <1>4, <2>1, OrderPaymentAssumption DEF LoadOrder, AloneAndCurrent
  <1>5. ASSUME NEW a \in Admins, CommitComplete(a) \/ AbandonComplete(a)
        PROVE  AloneAndCurrent'
    <2>1. a \in Busy /\ \A c \in Busy : c = a
      BY <1>0, <1>5 DEF CommitComplete, AbandonComplete, AloneAndCurrent
    <2>2. \A b \in Admins : code'[b] = None
      BY <1>5, <2>1 DEF CommitComplete, AbandonComplete, EndComplete
    <2>3. \A w \in Webhooks : sent'[w] = None
      BY <1>5, <2>1, OrderPaymentAssumption DEF CommitComplete, AbandonComplete, EndComplete
    <2> QED BY <2>2, <2>3 DEF AloneAndCurrent
  <1>6. CASE UNCHANGED vars
    BY <1>6 DEF vars, AloneAndCurrent
  <1> QED BY <1>1, <1>2, <1>3, <1>4, <1>5, <1>6 DEF Next

\* Nobody takes a tracking code away, and a completion leaves one behind even
\* if it skips its own.
LEMMA TrackingStays ==
    ASSUME OrderInv, [Next]_vars, order.tracking # None
    PROVE  order'.tracking # None
  <1> USE DEF OrderInv, TypeOK, OrderRow
  <1>1. ASSUME NEW w \in Webhooks, CommitWebhook(w) PROVE order'.tracking = order.tracking
    BY <1>1 DEF CommitWebhook, OrderAfterWebhook
  <1>2. ASSUME NEW a \in Admins, CommitComplete(a) PROVE order'.tracking # None
    BY <1>2 DEF CommitComplete, OrderAfterComplete, Flushed
  <1> QED BY <1>1, <1>2
          DEF Next, vars, SelectPayment, GetOrder, AbandonWebhook, EndWebhook,
              LoadOrder, EndComplete, AbandonComplete

LEMMA SawItTrackedNext == OrderInv /\ [Next]_vars => SawItTracked'
  <1> SUFFICES ASSUME OrderInv, [Next]_vars, NEW c \in Webhooks \cup Admins,
                      sawOrder'[c] # None, sawOrder'[c].tracking # None
               PROVE  order'.tracking # None
    BY DEF SawItTracked
  <1> USE DEF OrderInv, TypeOK
  <1>1. sawOrder'[c] = sawOrder[c] \/ sawOrder'[c] = order \/ sawOrder'[c] = None
    BY DEF Next, vars, SelectPayment, GetOrder, CommitWebhook, AbandonWebhook, EndWebhook,
           LoadOrder, CommitComplete, AbandonComplete, EndComplete
  <1>2. order.tracking # None
    BY <1>1 DEF SawItTracked
  <1> QED BY <1>2, TrackingStays

\* A call that is alone has loaded what is committed, so it skips no write that
\* matters; one that is not skips only what somebody has said before it.
LEMMA LastWordNext == OrderInv /\ [Next]_vars => LastWordCounts'
  <1> SUFFICES ASSUME OrderInv, [Next]_vars PROVE LastWordCounts'
    OBVIOUS
  <1> USE DEF OrderInv
  <1>1. ASSUME NEW w \in Webhooks, CommitWebhook(w) PROVE LastWordCounts'
    <2>1. lastWord'.payment = sent[w]
          /\ lastWord'.order = IF sent[w] = "succeeded" THEN "paid" ELSE lastWord.order
      BY <1>1 DEF CommitWebhook
    <2>2. order'.tracking = order.tracking
          /\ order'.status = IF sent[w] = "succeeded" /\ sawOrder[w].status # "paid"
                             THEN "paid" ELSE order.status
      BY <1>1 DEF CommitWebhook, OrderAfterWebhook, Flushed, TypeOK, OrderRow
    <2>3. sent[w] = "succeeded" /\ sawOrder[w].status = "paid" => order.status # "pending"
      BY <1>1 DEF CommitWebhook, SawItLeave
    <2>4. ~overlapped' => payment' = lastWord'.payment /\ order'.status = lastWord'.order
      <3> SUFFICES ASSUME ~overlapped'
                   PROVE  payment' = lastWord'.payment /\ order'.status = lastWord'.order
        OBVIOUS
      <3>1. ~overlapped /\ sawPayment[w] = payment
            /\ (sent[w] = "succeeded" => sawOrder[w] = order)
        BY <1>1 DEF CommitWebhook, EndWebhook, AloneAndCurrent
      <3>2. payment' = lastWord'.payment
        BY <1>1, <2>1, <3>1 DEF CommitWebhook, PaymentAfter, Flushed
      <3> QED BY <2>1, <2>2, <3>1, <3>2 DEF LastWordCounts
    <2> QED BY <2>1, <2>2, <2>3, <2>4 DEF LastWordCounts
  <1>2. ASSUME NEW a \in Admins, CommitComplete(a) PROVE LastWordCounts'
    <2>1. lastWord'.payment = lastWord.payment /\ lastWord'.order = "completed"
          /\ payment' = payment /\ overlapped' = overlapped
      BY <1>2 DEF CommitComplete, EndComplete, TypeOK
    <2>2. order'.status = IF sawOrder[a].status = "completed" THEN order.status ELSE "completed"
      BY <1>2 DEF CommitComplete, OrderAfterComplete, Flushed
    <2>3. sawOrder[a] # None
      BY <1>2 DEF CommitComplete, CallsHaveRead
    <2>4. order'.tracking # None
      BY <1>2, <2>3 DEF CommitComplete, OrderAfterComplete, Flushed, SawItTracked
    <2>5. order'.status # "pending"
      BY <2>2, <2>3 DEF SawItLeave
    <2>6. ~overlapped => sawOrder[a] = order
      BY <1>2 DEF CommitComplete, AloneAndCurrent
    <2> QED BY <2>1, <2>2, <2>4, <2>5, <2>6 DEF LastWordCounts
  <1> QED BY <1>1, <1>2
          DEF Next, vars, SelectPayment, GetOrder, AbandonWebhook, EndWebhook,
              LoadOrder, AbandonComplete, EndComplete, LastWordCounts

\* The inductive invariant.
THEOREM Invariance == Spec => []OrderInv
  <1>1. OrderInv /\ [Next]_vars => OrderInv'
    BY TypeOKNext, IdleNext, HaveReadNext, SawItLeaveNext, SawItTrackedNext, SucceededNext, AloneNext, LastWordNext DEF OrderInv
  <1> QED BY <1>1, OrderInvInit, PTL DEF Spec

\* Type correctness.
THEOREM TypeCorrect == Spec => []TypeOK
  BY Invariance, PTL DEF OrderInv

\* Money in means that the order has left "pending", whatever webhooks and
\* completions overlap (endpoints/ecommerce.py lines 193-202).
THEOREM SucceededIsSeen == Spec => []SucceededLeavesPending
  BY Invariance, PTL DEF OrderInv

\* Without overlap the provider's last word counts.
THEOREM LastWord == Spec => []LastWordCounts
  BY Invariance, PTL DEF OrderInv

\* No step takes an order back to "pending" or its tracking code away, and only
\* a "succeeded" delivery takes it out of "completed".
THEOREM MovesForward == Spec => OrderMovesForward
  <1>1. ASSUME OrderInv, [Next]_vars
        PROVE  /\ order.tracking # None => order'.tracking # None
               /\ order.status = "completed" /\ order'.status # "completed" =>
                     \E w \in Webhooks : sent[w] = "succeeded" /\ sent'[w] = None
    <2> USE DEF OrderInv, TypeOK, OrderRow
    <2>1. ASSUME NEW w \in Webhooks, CommitWebhook(w)
          PROVE  /\ order'.tracking = order.tracking
                 /\ order' # order => sent[w] = "succeeded" /\ sent'[w] = None
      <3>1. sent'[w] = None
        BY <1>1, <2>1 DEF CommitWebhook, EndWebhook
      <3>2. CASE sent[w] = "succeeded"
        BY <1>1, <2>1, <3>1, <3>2 DEF CommitWebhook, OrderAfterWebhook
      <3>3. CASE sent[w] # "succeeded"
        BY <1>1, <2>1, <3>3 DEF CommitWebhook, OrderAfterWebhook
      <3> QED BY <3>2, <3>3
    <2>2. ASSUME NEW a \in Admins, CommitComplete(a)
          PROVE  /\ order.tracking # None => order'.tracking # None
                 /\ order.status = "completed" => order'.status = "completed"
      <3>1. code[a] # None
        BY <2>2 DEF CommitComplete
      <3> QED BY <1>1, <2>2, <3>1 DEF CommitComplete, OrderAfterComplete, Flushed
    <2>3. ASSUME order' = order
          PROVE  /\ order.tracking # None => order'.tracking # None
                 /\ order.status = "completed" => order'.status = "completed"
      BY <2>3
    <2> QED BY <1>1, <2>1, <2>2, <2>3
            DEF Next, vars, SelectPayment, GetOrder, AbandonWebhook, EndWebhook,
                LoadOrder, AbandonComplete, EndComplete
  <1>2. OrderInv /\ [Next]_vars =>
            [/\ order.status # "pending" => order'.status # "pending"
             /\ order.tracking # None => order'.tracking # None
             /\ order.status = "completed" /\ order'.status # "completed" =>
                   \E w \in Webhooks : sent[w] = "succeeded" /\ sent'[w] = None]_vars
    BY <1>1, NeverBack
  <1> QED BY <1>2, Invariance, PTL DEF Spec, OrderMovesForward

-----------------------------------------------------------------------------
\* With nothing but "succeeded" messages the two rows agree, and what sessions
\* have loaded of them was so and stays so.
Agree == /\ payment \in {"pending", "succeeded"}
         /\ order.status \in {"pending", "paid"}
         /\ payment = "succeeded" <=> order.status = "paid"
         /\ \A w \in Webhooks : /\ sawPayment[w] = "succeeded" => payment = "succeeded"
                                /\ sawOrder[w] # None /\ sawOrder[w].status = "paid" =>
                                      order.status = "paid"

LEMMA AgreeNext ==
    ASSUME TypeOK, Agree, OnlySuccesses, [Next]_vars
    PROVE  Agree'
  <1> USE OrderPaymentAssumption DEF TypeOK, Agree, OnlySuccesses
  <1>1. ASSUME NEW w \in Webhooks, NEW status \in Delivered, SelectPayment(w, status)
        PROVE  Agree'
    BY <1>1 DEF SelectPayment
  <1>2. ASSUME NEW w \in Webhooks, GetOrder(w) PROVE Agree'
    BY <1>2 DEF GetOrder
  <1>3. ASSUME NEW w \in Webhooks, CommitWebhook(w) PROVE Agree'
    <2>1. sent[w] = "succeeded" /\ sawOrder[w] # None
      BY <1>3 DEF CommitWebhook
    <2>2. payment' = "succeeded"
      BY <1>3, <2>1 DEF CommitWebhook, PaymentAfter, Flushed
    <2>3. order'.status = "paid"
      BY <1>3, <2>1 DEF CommitWebhook, OrderAfterWebhook, Flushed, OrderRow
    <2> QED BY <1>3, <2>2, <2>3 DEF CommitWebhook, EndWebhook
  <1>4. ASSUME NEW w \in Webhooks, AbandonWebhook(w) PROVE Agree'
    BY <1>4 DEF AbandonWebhook, EndWebhook
  <1>5. ASSUME NEW a \in Admins, NEW c \in TrackingCodes, LoadOrder(a, c) PROVE Agree'
    BY <1>5 DEF LoadOrder
  <1>6. ASSUME NEW a \in Admins, CommitComplete(a) \/ AbandonComplete(a) PROVE FALSE
    BY <1>6 DEF CommitComplete, AbandonComplete
  <1>7. CASE UNCHANGED vars
    BY <1>7 DEF vars
  <1> QED BY <1>1, <1>2, <1>3, <1>4, <1>5, <1>6, <1>7 DEF Next

\* Duplicates of one "succeeded" message are harmless, overlapping or not.
THEOREM DuplicatesDoNoHarm == Spec => DuplicatesHarmless
  <1>1. Init => Agree
    <2> SUFFICES ASSUME Init PROVE Agree
      OBVIOUS
    <2>1. None # "succeeded"
      BY OrderPaymentAssumption DEF PaymentStatus
    <2>2. \A w \in Webhooks : sawPayment[w] = None /\ sawOrder[w] = None
      BY DEF Init
    <2>3. payment = "pending" /\ order.status = "pending"
      BY DEF Init
    <2> QED BY <2>1, <2>2, <2>3 DEF Agree
  <1>2. TypeOK /\ Agree /\ OnlySuccesses /\ [Next]_vars => Agree'
    BY AgreeNext
  <1>3. Agree => (payment = "succeeded" <=> order.status = "paid")
    BY DEF Agree
  <1> QED BY <1>1, <1>2, <1>3, TypeCorrect, PTL DEF Spec, DuplicatesHarmless
=============================================================================
