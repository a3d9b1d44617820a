------------------------------- MODULE Checkout -------------------------------
(***************************************************************************)
(* A recharge: the payment dialog of UserBillingPage.tsx, which polls its   *)
(* order, and the settlement of orders by the provider's notifications      *)
(* (EpayCallback, PayApplyNotify, SettlePaymentOrderRecharge).  A provider  *)
(* notifies of a payment more than once and its handlers run at once; the   *)
(* user may close the dialog, start another order, and pay either.          *)
(***************************************************************************)
EXTENDS Integers

CONSTANTS MaxOrders,    \* bound: orders created
          MaxHandlers   \* bound: notifications of an order handled at once

NoOrder == 0
Orders == 1 .. MaxOrders

VARIABLES
  status,     \* payment_orders.status: "none", "pending" or "paid"
  paidFor,    \* orders the provider holds a payment for
  credited,   \* recharge rows per order
  handling,   \* handlers of notifications that read the order as pending, per order
  isPaying,   \* handlePay awaits its answer
  frame,      \* the order in the dialog, or 0
  poll,       \* the order the interval polls, or 0
  answers,    \* polls under way: [order, status]
  lapsed,     \* history: an interval ended by its five-minute limit
  late        \* history: a poll of an order not in the dialog came back paid

checkoutVars == <<status, paidFor, credited, handling, isPaying, frame, poll, answers, lapsed, late>>
server == <<status, paidFor, credited, handling>>
tab == <<isPaying, frame, poll, answers, lapsed, late>>

CheckoutInit ==
  /\ status = [o \in Orders |-> "none"] /\ paidFor = {}
  /\ credited = [o \in Orders |-> 0] /\ handling = [o \in Orders |-> 0]
  /\ isPaying = FALSE /\ frame = NoOrder /\ poll = NoOrder /\ answers = {}
  /\ lapsed = FALSE /\ late = FALSE

\* The dialog covers the button.
handlePay ==
  /\ ~isPaying /\ frame = NoOrder /\ isPaying' = TRUE
  /\ UNCHANGED <<server, frame, poll, answers, lapsed, late>>

NextOrder(o) == status[o] = "none" /\ \A p \in 1 .. (o - 1) : status[p] # "none"

\* Mutant of OrderCreated: the dialog opens and nothing polls.
OrderCreatedUnpolled(o) ==
  /\ isPaying /\ isPaying' = FALSE
  /\ NextOrder(o) /\ status' = [status EXCEPT ![o] = "pending"]
  /\ frame' \in {o, frame}
  /\ UNCHANGED <<paidFor, credited, handling, poll, answers, lapsed, late>>

\* The order is created; its answer opens the dialog and startPolling replaces
\* the interval. Or the answer is lost, and the order stays behind.
OrderCreated(o) ==
  /\ isPaying /\ isPaying' = FALSE
  /\ NextOrder(o) /\ status' = [status EXCEPT ![o] = "pending"]
  /\ \/ frame' = o /\ poll' = o
     \/ UNCHANGED <<frame, poll>>
  /\ UNCHANGED <<paidFor, credited, handling, answers, lapsed, late>>

OrderRefused ==
  /\ isPaying /\ isPaying' = FALSE
  /\ UNCHANGED <<server, frame, poll, answers, lapsed, late>>

\* The user pays at the provider, in the dialog's order or one given up before.
ProviderPaid(o) ==
  /\ status[o] = "pending" /\ o \notin paidFor
  /\ paidFor' = paidFor \cup {o}
  /\ UNCHANGED <<status, credited, handling, tab>>

\* A notification, the first or a repeated one: an order that is read as paid is
\* answered at once.
Notify(o) ==
  /\ o \in paidFor /\ handling[o] < MaxHandlers /\ status[o] # "paid"
  /\ handling' = [handling EXCEPT ![o] = @ + 1]
  /\ UNCHANGED <<status, paidFor, credited, tab>>

\* Mutant of Unsettled: the UPDATE is not guarded by the status.
Unguarded(o) == TRUE

\* SettlePaymentOrderRecharge: the update guarded by the status and the recharge
\* commit together, or not at all.
Unsettled(o) == status[o] = "pending"
Settle(o) ==
  /\ handling[o] > 0 /\ handling' = [handling EXCEPT ![o] = @ - 1]
  /\ Unsettled(o)
  /\ status' = [status EXCEPT ![o] = "paid"]
  /\ credited' = [credited EXCEPT ![o] = @ + 1]
  /\ UNCHANGED <<paidFor, tab>>

\* Settled by another handler meanwhile, or the transaction or the process fails.
SettleFails(o) ==
  /\ handling[o] > 0 /\ handling' = [handling EXCEPT ![o] = @ - 1]
  /\ UNCHANGED <<status, paidFor, credited, tab>>

PollOrder ==
  /\ poll # NoOrder
  /\ answers' = answers \cup {[order |-> poll, status |-> status[poll]]}
  /\ UNCHANGED <<server, isPaying, frame, poll, lapsed, late>>

Success == poll' = NoOrder /\ frame' = NoOrder

PollAnswered(a) ==
  /\ a \in answers /\ answers' = answers \ {a}
  /\ IF a.status = "paid" THEN Success ELSE UNCHANGED <<poll, frame>>
  /\ late' = (late \/ (a.status = "paid" /\ a.order # frame))
  /\ UNCHANGED <<server, isPaying, lapsed>>

PollLost(a) ==
  /\ a \in answers /\ answers' = answers \ {a}
  /\ UNCHANGED <<server, isPaying, frame, poll, lapsed, late>>

\* Cancel, "I have paid", or a click beside the dialog.
CloseFrame ==
  /\ frame # NoOrder /\ Success
  /\ UNCHANGED <<server, isPaying, answers, lapsed, late>>

PollingLapses ==
  /\ poll # NoOrder /\ poll' = NoOrder /\ lapsed' = TRUE
  /\ UNCHANGED <<server, isPaying, frame, answers, late>>

CheckoutNext ==
  \/ handlePay \/ OrderRefused \/ PollOrder \/ CloseFrame \/ PollingLapses
  \/ \E o \in Orders : OrderCreated(o) \/ ProviderPaid(o) \/ Notify(o) \/ Settle(o) \/ SettleFails(o)
  \/ \E a \in answers : PollAnswered(a) \/ PollLost(a)

\* A provider notifies until an order is settled, which does not fail for ever; the
\* interval fires and its polls do not fail for ever.
NoticedPaid(o) == PollAnswered([order |-> o, status |-> "paid"])
CheckoutFairness ==
  /\ WF_checkoutVars(PollOrder)
  /\ \A o \in Orders : WF_checkoutVars(Notify(o)) /\ SF_checkoutVars(Settle(o)) /\ SF_checkoutVars(NoticedPaid(o))

CheckoutSpec == CheckoutInit /\ [][CheckoutNext]_checkoutVars /\ CheckoutFairness

CheckoutTypeOK ==
  /\ status \in [Orders -> {"none", "pending", "paid"}] /\ paidFor \subseteq Orders
  /\ credited \in [Orders -> Nat] /\ handling \in [Orders -> 0 .. MaxHandlers]
  /\ isPaying \in BOOLEAN /\ {frame, poll} \subseteq Orders \cup {NoOrder}
  /\ answers \subseteq [order : Orders, status : {"pending", "paid"}]
  /\ lapsed \in BOOLEAN /\ late \in BOOLEAN

\* A payment is credited once, however often it is notified and however its
\* handlers overlap, and nothing is credited without one.
PaymentCreditedOnce ==
  \A o \in Orders : credited[o] = (IF status[o] = "paid" THEN 1 ELSE 0) /\ (credited[o] > 0 => o \in paidFor)

\* A payment for the order in the dialog is noticed: the dialog closes, unless the
\* five minutes ran out or an older order's poll stopped the interval first.
PaymentNoticed ==
  \A o \in Orders : (frame = o /\ o \in paidFor) ~> (frame # o \/ lapsed \/ late)
=============================================================================
