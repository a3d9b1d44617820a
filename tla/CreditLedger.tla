---------------------------- MODULE CreditLedger ----------------------------
(***************************************************************************)
(* What billing promises one user, with no lease, no cache and no request  *)
(* in flight: an amount of spendable credits and, for every correlation    *)
(* id, the consumption and refund rows of billing_transactions.  A charge  *)
(* takes its cost from the funds in the step that writes its row; a refund *)
(* returns it in the step that writes the refund row, once, and only for a *)
(* charge that was written.  QuotaLease is shown to implement this module. *)
(***************************************************************************)
EXTENDS Integers

CONSTANTS
    Key,             \* the correlation ids that requests are billed under
    Cost,            \* the credits one request of a key costs
    OpeningBalance,  \* the user's funds at the start
    Adjustments      \* the amounts a recharge or an adjustment may move

VARIABLES
    funds,     \* the credits the user can still spend
    charges,   \* rows of type charge, hold or settle written per key
    refunds    \* rows of type refund written per key

ledgerVars == <<funds, charges, refunds>>

Init ==
    /\ funds = OpeningBalance
    /\ charges = [k \in Key |-> 0]
    /\ refunds = [k \in Key |-> 0]

Charge(k) ==
    /\ funds >= Cost[k]
    /\ funds' = funds - Cost[k]
    /\ charges' = [charges EXCEPT ![k] = @ + 1]
    /\ UNCHANGED refunds

Refund(k) ==
    /\ refunds[k] = 0
    /\ charges[k] > 0
    /\ funds' = funds + Cost[k]
    /\ refunds' = [refunds EXCEPT ![k] = 1]
    /\ UNCHANGED charges

Adjust(n) ==
    /\ funds + n >= 0
    /\ funds' = funds + n
    /\ UNCHANGED <<charges, refunds>>

Next ==
    \/ \E k \in Key : Charge(k) \/ Refund(k)
    \/ \E n \in Adjustments : Adjust(n)

Spec == Init /\ [][Next]_ledgerVars
=============================================================================
