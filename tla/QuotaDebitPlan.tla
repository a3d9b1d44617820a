--------------------------- MODULE QuotaDebitPlan ---------------------------
(***************************************************************************)
(* The loop of quotaLeaseDebitPlan, which spreads one persisted charge     *)
(* over the live lease rows, given in the order they expire, and the       *)
(* guarded UPDATEs ApplyQuotaLeaseTx then runs for the plan.  QuotaLease   *)
(* uses the reference definition DebitPlans in place of the loop; here the *)
(* loop is shown to compute the one plan that definition admits.           *)
(***************************************************************************)
EXTENDS Totals, Sequences

CONSTANTS
    MaxRows,     \* BOUND: lease rows given to the loop
    MaxCredits   \* BOUND: the largest remaining_credits and charge

ASSUME BoundsAssumption == MaxRows \in Nat /\ MaxCredits \in Nat

VARIABLES
    leases,      \* remaining_credits of the rows, in the order of the SELECT
    credits,     \* what the charge costs
    lease,       \* the row the loop is at
    remaining,   \* what no row covers yet
    plan,        \* the debits appended so far
    applied,     \* debits of the plan already run as UPDATEs
    pc           \* "loop", "apply", "refused" or "done"

vars == <<leases, credits, lease, remaining, plan, applied, pc>>

TypeOK ==
    /\ leases \in Seq(Nat)
    /\ credits \in Nat
    /\ lease \in 1..Len(leases) + 1
    /\ remaining \in 0..credits
    /\ plan \in Seq([row : 1..Len(leases), amount : Nat])
    /\ applied \in 0..Len(plan)
    /\ pc \in {"loop", "apply", "refused", "done"}

Init ==
    /\ leases \in UNION {[1..n -> 0..MaxCredits] : n \in 0..MaxRows}
    /\ credits \in 0..MaxCredits
    /\ lease = 1
    /\ remaining = credits
    /\ plan = <<>>
    /\ applied = 0
    /\ pc = "loop"

AtEnd == remaining = 0 \/ lease > Len(leases)

Skip ==
    /\ pc = "loop" /\ ~AtEnd
    /\ leases[lease] = 0
    /\ lease' = lease + 1
    /\ UNCHANGED <<leases, credits, remaining, plan, applied, pc>>

\* Mutant of Amount: the whole row is taken, although less is missing.
WholeRow(row) == leases[row]

Amount(row) == IF leases[row] > remaining THEN remaining ELSE leases[row]

Take ==
    /\ pc = "loop" /\ ~AtEnd
    /\ leases[lease] > 0
    /\ plan' = Append(plan, [row |-> lease, amount |-> Amount(lease)])
    /\ remaining' = remaining - Amount(lease)
    /\ lease' = lease + 1
    /\ UNCHANGED <<leases, credits, applied, pc>>

\* Mutant of Covered: a plan that covers a part of the charge is accepted.
CoveredInPart == plan # <<>> \/ remaining = 0

Covered == remaining = 0

Return ==
    /\ pc = "loop" /\ AtEnd
    /\ pc' = IF Covered THEN "apply" ELSE "refused"
    /\ UNCHANGED <<leases, credits, lease, remaining, plan, applied>>

\* UPDATE ... SET remaining_credits = remaining_credits - amount
\* WHERE id = row AND remaining_credits >= amount; no row is an error, and
\* the transaction is rolled back.
Debit ==
    LET d == plan[applied + 1] IN
    /\ pc = "apply" /\ applied < Len(plan)
    /\ IF leases[d.row] >= d.amount
       THEN /\ leases' = [leases EXCEPT ![d.row] = @ - d.amount]
            /\ applied' = applied + 1
            /\ UNCHANGED pc
       ELSE pc' = "refused" /\ UNCHANGED <<leases, applied>>
    /\ UNCHANGED <<credits, lease, remaining, plan>>

Commit ==
    /\ pc = "apply" /\ applied = Len(plan)
    /\ pc' = "done"
    /\ UNCHANGED <<leases, credits, lease, remaining, plan, applied>>

Next == Skip \/ Take \/ Return \/ Debit \/ Commit

Spec == Init /\ [][Next]_vars

-----------------------------------------------------------------------------
\* What the plan takes from each row.
Parts(debits, row) == [i \in 1..Len(debits) |-> IF debits[i].row = row THEN debits[i].amount ELSE 0]
Taken == [row \in DOMAIN leases |-> Total(Parts(plan, row), 1..Len(plan))]

\* The reference, as in QuotaLease: an earlier row is emptied before a later
\* one is touched, and the parts add up to the charge.
DebitPlans ==
    {d \in [DOMAIN leases -> 0..credits] :
        /\ Total(d, DOMAIN leases) = credits
        /\ \A l \in DOMAIN leases : d[l] <= leases[l]
        /\ \A l, m \in DOMAIN leases : l < m /\ d[m] > 0 => d[l] = leases[l]}

\* quotaLeaseDebitPlan returns the one plan the reference admits, and refuses
\* exactly the charges no plan covers; the guarded UPDATEs of ApplyQuotaLeaseTx
\* then never miss a row of it, so a planned charge takes exactly its credits.
PlanIsTheReference ==
    /\ applied = 0 /\ pc = "apply" => DebitPlans = {Taken}
    /\ pc = "refused" => DebitPlans = {}
    /\ \A i \in applied + 1 .. Len(plan) : pc = "apply" => leases[plan[i].row] >= plan[i].amount
    /\ pc = "done" => Total(Taken, DOMAIN leases) = credits
=============================================================================
