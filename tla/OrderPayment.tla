---------------------------- MODULE OrderPayment ----------------------------
(***************************************************************************)
(* One order and its payment after checkout: POST /payments/webhook        *)
(* (endpoints/ecommerce.py payment_webhook) and complete_order()           *)
(* (services/ecommerce.py), each call in a session of its own at READ      *)
(* COMMITTED, without locks, several in progress together.                 *)
(*                                                                         *)
(* The ORM writes an attribute at COMMIT only if the value assigned        *)
(* differs from the one the session loaded.  Calls that loaded outdated    *)
(* rows therefore overwrite what they did not see, or skip a write that    *)
(* would have mattered.  The provider may deliver any statuses, any number *)
(* of times and in any order.                                              *)
(***************************************************************************)
EXTENDS Integers

CONSTANTS
    Webhooks,       \* webhook calls that may be in progress together
    Admins,         \* complete_order() calls that may be in progress together
    Delivered,      \* statuses the provider sends
    TrackingCodes,
    None            \* NULL, and the absence of a call or of a reading

OrderStatus == {"pending", "paid", "shipped", "completed", "cancelled", "refunded"}
PaymentStatus == {"pending", "succeeded", "failed", "refunded"}
OrderRow == [status : OrderStatus, tracking : TrackingCodes \cup {None}]

ASSUME OrderPaymentAssumption ==
    /\ Delivered \subseteq PaymentStatus
    /\ None \notin OrderStatus \cup PaymentStatus \cup TrackingCodes \cup OrderRow
    /\ Webhooks \cap Admins = {}

VARIABLES
    order,      \* row of order: [status, tracking]
    payment,    \* row of payment: its status
    sent,       \* [w]: status in the payload of a webhook call, None: idle
    sawPayment, \* [w]: payment status the session loaded
    sawOrder,   \* [call]: order row the session loaded
    code,       \* [a]: tracking code of a complete_order() call, None: idle
    lastWord,   \* what was last said of each row, by a call that committed
    overlapped  \* whether two calls have ever been in progress together

vars == <<order, payment, sent, sawPayment, sawOrder, code, lastWord, overlapped>>

\* What checkout() leaves behind.
Init ==
    /\ order = [status |-> "pending", tracking |-> None]
    /\ payment = "pending"
    /\ sent = [w \in Webhooks |-> None]
    /\ sawPayment = [w \in Webhooks |-> None]
    /\ sawOrder = [c \in Webhooks \cup Admins |-> None]
    /\ code = [a \in Admins |-> None]
    /\ lastWord = [payment |-> "pending", order |-> "pending"]
    /\ overlapped = FALSE

Busy == {w \in Webhooks : sent[w] # None} \cup {a \in Admins : code[a] # None}

\* ORM: the column after COMMIT, given the value loaded and the one assigned.
Flushed(column, loaded, assigned) == IF assigned = loaded THEN column ELSE assigned

-----------------------------------------------------------------------------
\* payment_webhook: the payment is selected by provider_ref.  An unknown
\* reference changes nothing and is left out.
SelectPayment(w, status) ==
    /\ sent[w] = None
    /\ sent' = [sent EXCEPT ![w] = status]
    /\ sawPayment' = [sawPayment EXCEPT ![w] = payment]
    /\ overlapped' = (overlapped \/ Busy # {})
    /\ UNCHANGED <<order, payment, sawOrder, code, lastWord>>

\* Only for "succeeded" is the order loaded, after another await.
GetOrder(w) ==
    /\ sent[w] = "succeeded" /\ sawOrder[w] = None
    /\ sawOrder' = [sawOrder EXCEPT ![w] = order]
    /\ UNCHANGED <<order, payment, sent, sawPayment, code, lastWord, overlapped>>

EndWebhook(w) ==
    /\ sent' = [sent EXCEPT ![w] = None]
    /\ sawPayment' = [sawPayment EXCEPT ![w] = None]
    /\ sawOrder' = [sawOrder EXCEPT ![w] = None]
    /\ UNCHANGED <<code, overlapped>>

\* Mutant: the first word wins.
PaymentAfterFirst(w) == IF sawPayment[w] = "pending" THEN sent[w] ELSE payment

PaymentAfter(w) == Flushed(payment, sawPayment[w], sent[w])

\* Mutants: the order is forgotten; it takes over the payment's status; a
\* failed payment sends it back to pending.
OrderAfterWebhookForgotten(w) == order
OrderAfterWebhookCopied(w) == [order EXCEPT !.status = sent[w]]
OrderAfterWebhookReset(w) ==
    [order EXCEPT !.status = CASE sent[w] = "succeeded" -> "paid"
                               [] sent[w] = "failed" -> "pending"
                               [] OTHER -> @]

OrderAfterWebhook(w) ==
    IF sent[w] = "succeeded"
    THEN [order EXCEPT !.status = Flushed(@, sawOrder[w].status, "paid")]
    ELSE order

\* Both rows in one COMMIT.
CommitWebhook(w) ==
    /\ sent[w] # None
    /\ sent[w] = "succeeded" => sawOrder[w] # None
    /\ payment' = PaymentAfter(w)
    /\ order' = OrderAfterWebhook(w)
    /\ lastWord' = [payment |-> sent[w],
                    order |-> IF sent[w] = "succeeded" THEN "paid" ELSE lastWord.order]
    /\ EndWebhook(w)

\* Any failure before COMMIT: rolled back, and the provider is told 500.
AbandonWebhook(w) ==
    /\ sent[w] # None
    /\ EndWebhook(w)
    /\ UNCHANGED <<order, payment, lastWord>>

-----------------------------------------------------------------------------
\* complete_order: db.get(Order).
LoadOrder(a, c) ==
    /\ code[a] = None
    /\ code' = [code EXCEPT ![a] = c]
    /\ sawOrder' = [sawOrder EXCEPT ![a] = order]
    /\ overlapped' = (overlapped \/ Busy # {})
    /\ UNCHANGED <<order, payment, sent, sawPayment, lastWord>>

EndComplete(a) ==
    /\ code' = [code EXCEPT ![a] = None]
    /\ sawOrder' = [sawOrder EXCEPT ![a] = None]
    /\ UNCHANGED <<payment, sent, sawPayment, overlapped>>

OrderAfterComplete(a) ==
    [status   |-> Flushed(order.status, sawOrder[a].status, "completed"),
     tracking |-> Flushed(order.tracking, sawOrder[a].tracking, code[a])]

CommitComplete(a) ==
    /\ code[a] # None
    /\ order' = OrderAfterComplete(a)
    /\ lastWord' = [lastWord EXCEPT !.order = "completed"]
    /\ EndComplete(a)

AbandonComplete(a) ==
    /\ code[a] # None
    /\ EndComplete(a)
    /\ UNCHANGED <<order, lastWord>>

Next ==
    \/ \E w \in Webhooks :
          \/ \E status \in Delivered : SelectPayment(w, status)
          \/ GetOrder(w)
          \/ CommitWebhook(w)
          \/ AbandonWebhook(w)
    \/ \E a \in Admins :
          \/ \E c \in TrackingCodes : LoadOrder(a, c)
          \/ CommitComplete(a)
          \/ AbandonComplete(a)

Spec == Init /\ [][Next]_vars

-----------------------------------------------------------------------------
\* Each variable has its type.
TypeOK ==
    /\ order \in OrderRow
    /\ payment \in PaymentStatus
    /\ sent \in [Webhooks -> Delivered \cup {None}]
    /\ sawPayment \in [Webhooks -> PaymentStatus \cup {None}]
    /\ sawOrder \in [Webhooks \cup Admins -> OrderRow \cup {None}]
    /\ code \in [Admins -> TrackingCodes \cup {None}]
    /\ lastWord \in [payment : PaymentStatus, order : OrderStatus]
    /\ overlapped \in BOOLEAN

\* Money in means the order has left "pending": the payment and the order
\* change in one transaction, and skipped writes do not tear them apart.
SucceededLeavesPending == payment = "succeeded" => order.status # "pending"

\* An order never returns to "pending" nor loses its tracking code, and only
\* a "succeeded" delivery takes it out of "completed".
OrderMovesForward ==
    [][/\ order.status # "pending" => order'.status # "pending"
       /\ order.tracking # None => order'.tracking # None
       /\ order.status = "completed" /\ order'.status # "completed" =>
             \E w \in Webhooks : sent[w] = "succeeded" /\ sent'[w] = None]_vars

\* While calls never overlap the payment shows the provider's last word and the
\* order the last that the provider or an admin said of it.  Overlapping calls
\* may leave an earlier word, but never none: an order is pending exactly if
\* nobody has said otherwise, and a completed one has a tracking code.
LastWordCounts ==
    /\ ~overlapped => payment = lastWord.payment /\ order.status = lastWord.order
    /\ order.status = "pending" <=> lastWord.order = "pending"
    /\ order.status = "completed" => order.tracking # None

\* Duplicates of one "succeeded" message are harmless, even overlapping ones:
\* without other messages and without admins the two rows agree.
OnlySuccesses == /\ \A w \in Webhooks : sent[w] \in {None, "succeeded"}
                 /\ \A a \in Admins : code[a] = None

DuplicatesHarmless ==
    []OnlySuccesses => [](payment = "succeeded" <=> order.status = "paid")
=============================================================================
