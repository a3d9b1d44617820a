----------------------------- MODULE Withdrawals -----------------------------
(***************************************************************************)
(* Withdrawals of a user's frozen invite rewards                            *)
(* (internal/handler/withdraw.go): the user submits, customer service       *)
(* reviews, finance approves and the credits are deducted.  A handler reads *)
(* the request first and acts later, by an UPDATE guarded with the status;  *)
(* several reviewers, the user's conversion of rewards and new rewards run  *)
(* in between.                                                              *)
(***************************************************************************)
EXTENDS Integers, Totals

CONSTANTS MaxRequests,   \* bound: withdrawals submitted
          Reviewers,     \* review handlers under way at once
          MaxFrozen      \* bound: frozen credits earned

Requests == 1 .. MaxRequests
Amounts == 1 .. MaxFrozen
NoRequestYet == [status |-> "none", stage |-> "none", amount |-> 0]
Idle == [act |-> "idle", id |-> 0]

VARIABLES
  requests,    \* withdraw_requests: [status, stage, amount]
  frozen,      \* users.frozen_balance
  earned,      \* frozen credits earned so far
  converted,   \* frozen credits converted to balance
  submitting,  \* SubmitWithdraw calls past their checks: amounts, at most two
  reviewing    \* review handlers that read their request

withdrawVars == <<requests, frozen, earned, converted, submitting, reviewing>>

WithdrawInit ==
  /\ requests = [i \in Requests |-> NoRequestYet]
  /\ frozen = 0 /\ earned = 0 /\ converted = 0
  /\ submitting = <<0, 0>>
  /\ reviewing = [r \in Reviewers |-> Idle]

\* A settled invite reward.
Earn ==
  /\ earned < MaxFrozen
  /\ earned' = earned + 1 /\ frozen' = frozen + 1
  /\ UNCHANGED <<requests, converted, submitting, reviewing>>

\* ConvertFrozenBalance: one guarded UPDATE.
Convert(amount) ==
  /\ amount <= frozen
  /\ frozen' = frozen - amount /\ converted' = converted + amount
  /\ UNCHANGED <<requests, earned, submitting, reviewing>>

Pending == {i \in Requests : requests[i].status = "pending"}

\* SubmitWithdraw reads the frozen balance and counts what is pending ...
SubmitChecks(s, amount) ==
  /\ submitting[s] = 0 /\ amount <= frozen /\ Pending = {}
  /\ submitting' = [submitting EXCEPT ![s] = amount]
  /\ UNCHANGED <<requests, frozen, earned, converted, reviewing>>

\* ... and inserts; no index stops a second pending row.
SubmitInserts(s, i) ==
  /\ submitting[s] # 0 /\ submitting' = [submitting EXCEPT ![s] = 0]
  /\ requests[i] = NoRequestYet /\ \A j \in 1 .. (i - 1) : requests[j] # NoRequestYet
  /\ requests' = [requests EXCEPT ![i] = [status |-> "pending", stage |-> "cs_review", amount |-> submitting[s]]]
  /\ UNCHANGED <<frozen, earned, converted, reviewing>>

\* A review handler reads the request and sees it undecided.
Review(r, act, i) ==
  /\ reviewing[r] = Idle /\ i \in Pending
  /\ act = "cs" => requests[i].stage = "cs_review"
  /\ reviewing' = [reviewing EXCEPT ![r] = [act |-> act, id |-> i]]
  /\ UNCHANGED <<requests, frozen, earned, converted, submitting>>

Reviewed(r, act) == reviewing[r].act = act /\ reviewing' = [reviewing EXCEPT ![r] = Idle]

\* Mutant of StillPending: the UPDATE is not guarded by the status.
Undecided(i) == TRUE

StillPending(i) == requests[i].status = "pending"

\* AdminCsApproveWithdrawal.
CsApprove(r) ==
  LET i == reviewing[r].id IN
  /\ Reviewed(r, "cs")
  /\ requests' = IF StillPending(i) /\ requests[i].stage = "cs_review"
                   THEN [requests EXCEPT ![i].stage = "finance_review"] ELSE requests
  /\ UNCHANGED <<frozen, earned, converted, submitting>>

\* AdminApproveWithdrawal: status and deduction in one transaction, rolled back
\* when the frozen balance no longer covers the amount. It asks for no stage.
Approve(r) ==
  LET i == reviewing[r].id IN
  /\ Reviewed(r, "approve")
  /\ IF StillPending(i) /\ frozen >= requests[i].amount
       THEN /\ requests' = [requests EXCEPT ![i].status = "approved", ![i].stage = "completed"]
            /\ frozen' = frozen - requests[i].amount
       ELSE UNCHANGED <<requests, frozen>>
  /\ UNCHANGED <<earned, converted, submitting>>

\* AdminRejectWithdrawal: the stage is left as it is.
Reject(r) ==
  LET i == reviewing[r].id IN
  /\ Reviewed(r, "reject")
  /\ requests' = IF StillPending(i) THEN [requests EXCEPT ![i].status = "rejected"] ELSE requests
  /\ UNCHANGED <<frozen, earned, converted, submitting>>

WithdrawNext ==
  \/ Earn
  \/ \E amount \in Amounts : Convert(amount) \/ \E s \in {1, 2} : SubmitChecks(s, amount)
  \/ \E s \in {1, 2}, i \in Requests : SubmitInserts(s, i)
  \/ \E r \in Reviewers, act \in {"cs", "approve", "reject"}, i \in Requests : Review(r, act, i)
  \/ \E r \in Reviewers : CsApprove(r) \/ Approve(r) \/ Reject(r)

WithdrawSpec == WithdrawInit /\ [][WithdrawNext]_withdrawVars

Statuses == {"none", "pending", "approved", "rejected"}
Stages == {"none", "cs_review", "finance_review", "completed"}
WithdrawTypeOK ==
  /\ requests \in [Requests -> [status : Statuses, stage : Stages, amount : 0 .. MaxFrozen]]
  /\ frozen \in 0 .. MaxFrozen /\ earned \in 0 .. MaxFrozen /\ converted \in 0 .. MaxFrozen
  /\ submitting \in [{1, 2} -> 0 .. MaxFrozen]
  /\ reviewing \in [Reviewers -> [act : {"idle", "cs", "approve", "reject"}, id : Requests \cup {0}]]

\* What each request took: SUM(amount) WHERE status = 'approved'.
PaidOut == [i \in Requests |-> IF requests[i].status = "approved" THEN requests[i].amount ELSE 0]

\* Every frozen credit is kept, converted or paid out by an approved withdrawal,
\* once: two reviewers deciding one request, two requests over one balance and a
\* conversion in between never pay what is not there or take what is not paid.
FrozenPaysOnce ==
  /\ frozen >= 0
  /\ earned = frozen + converted + Total(PaidOut, Requests)
=============================================================================
