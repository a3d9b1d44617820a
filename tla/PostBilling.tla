----------------------------- MODULE PostBilling -----------------------------
(***************************************************************************)
(* One post-billing job and the workers of ProcessBillingPostBillingJobs:   *)
(* the ticker and the goroutine that every transaction starts.  A worker    *)
(* returns stale running jobs to pending, reads the pending ones, claims    *)
(* one, pays the rebate half and the vendor half in a transaction each, and *)
(* marks the job done.  The copy it works on is the one it read before the  *)
(* claim.  The rebate half reads the row again under FOR UPDATE, the vendor *)
(* half does not.  An error of any call releases the job to pending.        *)
(* next_run_at only delays a read, so it is left to the interleaving.       *)
(***************************************************************************)
EXTENDS Naturals

CONSTANTS
  PostWorkers,     \* goroutines that process the job
  MaxPostFaults,   \* bound: errors and deaths
  MaxOvertakes     \* bound: times ten minutes pass while the claimant still works

ASSUME PostAssumption == MaxPostFaults \in Nat /\ MaxOvertakes \in Nat

VARIABLES
  postJob,     \* the row: [status, rebateDone, vendorDone]
  rebateOwed,  \* the rebate half is to do and the user has an inviter
  stale,       \* updated_at is before the running timeout
  rebates,     \* rebates settled with the inviter
  earnings,    \* earnings credited to the vendor
  stage,       \* what each worker does next
  copy,        \* the row each worker read: [rebateDone, vendorDone]
  postFaults,  \* errors and deaths so far
  overtakes    \* times a job went stale under a working claimant

postVars == <<postJob, rebateOwed, stale, rebates, earnings, stage, copy, postFaults, overtakes>>

Claimed == {"rebate", "vendor", "finish", "release"}
NotDone == [rebateDone |-> FALSE, vendorDone |-> FALSE]

\* RebateDone is set at insertion when there is no legacy rebate to take back; a
\* user without an inviter owes none either. The pool key has a vendor.
PostInit ==
  /\ postJob \in [status : {"pending"}, rebateDone : BOOLEAN, vendorDone : {FALSE}]
  /\ rebateOwed \in {FALSE, ~postJob.rebateDone}
  /\ stale = FALSE /\ rebates = 0 /\ earnings = 0
  /\ stage = [w \in PostWorkers |-> "idle"]
  /\ copy = [w \in PostWorkers |-> NotDone]
  /\ postFaults = 0 /\ overtakes = 0

\* The next stage of a worker.
Goes(w, next) == stage[w] # next /\ stage' = [stage EXCEPT ![w] = next]
Fault == postFaults < MaxPostFaults /\ postFaults' = postFaults + 1

\* Mutant of ReclaimStaleJob: a job whose worker died stays running.
LeaveStaleJob(w) ==
  /\ stage[w] = "idle" /\ Goes(w, "find")
  /\ UNCHANGED <<postJob, rebateOwed, stale, rebates, earnings, copy, postFaults, overtakes>>

ReclaimStaleJob(w) ==
  /\ stage[w] = "idle" /\ Goes(w, "find")
  /\ postJob' = IF postJob.status = "running" /\ stale
                THEN [postJob EXCEPT !.status = "pending"] ELSE postJob
  /\ stale' = FALSE
  /\ UNCHANGED <<rebateOwed, rebates, earnings, copy, postFaults, overtakes>>

FindJob(w) ==
  /\ stage[w] = "find"
  /\ IF postJob.status = "pending"
       THEN Goes(w, "claim") /\ copy' = [copy EXCEPT ![w] = [f \in DOMAIN NotDone |-> postJob[f]]]
       ELSE Goes(w, "idle") /\ UNCHANGED copy
  /\ UNCHANGED <<postJob, rebateOwed, stale, rebates, earnings, postFaults, overtakes>>

\* UPDATE ... WHERE status = 'pending'.
ClaimJob(w) ==
  /\ stage[w] = "claim"
  /\ IF postJob.status = "pending"
       THEN Goes(w, "rebate") /\ postJob' = [postJob EXCEPT !.status = "running"] /\ stale' = FALSE
       ELSE Goes(w, "idle") /\ UNCHANGED <<postJob, stale>>
  /\ UNCHANGED <<rebateOwed, rebates, earnings, copy, postFaults, overtakes>>

\* Mutant of RebateStillOwed: the rebate half trusts the copy, as the vendor half does.
RebateOwedInCopy(w) == TRUE

\* What the row read FOR UPDATE says; the half returns without error otherwise.
RebateStillOwed(w) == ~postJob.rebateDone /\ postJob.status = "running"

\* The transaction of completeBillingPostRebate; `next` is "release" when its
\* COMMIT took effect and its answer was lost.
PayRebate(w, next) ==
  /\ stage[w] = "rebate" /\ Goes(w, next)
  /\ IF ~copy[w].rebateDone /\ RebateStillOwed(w)
       THEN /\ rebates' = rebates + (IF rebateOwed THEN 1 ELSE 0)
            /\ postJob' = [postJob EXCEPT !.rebateDone = TRUE] /\ stale' = FALSE
       ELSE UNCHANGED <<rebates, postJob, stale>>
  /\ UNCHANGED <<rebateOwed, earnings, copy, overtakes>>

\* The transaction of completeBillingPostVendor: the earnings are added whatever
\* the row says, and vendor_done is set only WHERE status = 'running'.
PayVendor(w, next) ==
  /\ stage[w] = "vendor" /\ Goes(w, next)
  /\ earnings' = earnings + (IF copy[w].vendorDone THEN 0 ELSE 1)
  /\ IF ~copy[w].vendorDone /\ postJob.status = "running"
       THEN postJob' = [postJob EXCEPT !.vendorDone = TRUE] /\ stale' = FALSE
       ELSE UNCHANGED <<postJob, stale>>
  /\ UNCHANGED <<rebateOwed, rebates, copy, overtakes>>

\* The last UPDATE names the job by its id alone.
FinishJob(w, next) ==
  /\ stage[w] = "finish" /\ Goes(w, next)
  /\ postJob' = [status |-> "done", rebateDone |-> TRUE, vendorDone |-> TRUE]
  /\ stale' = FALSE
  /\ UNCHANGED <<rebateOwed, rebates, earnings, copy, overtakes>>

\* So does releaseBillingPostBillingJob.
ReleaseJob(w) ==
  /\ stage[w] = "release" /\ Goes(w, "idle")
  /\ postJob' = [postJob EXCEPT !.status = "pending"]
  /\ stale' = FALSE
  /\ UNCHANGED <<rebateOwed, rebates, earnings, copy, postFaults, overtakes>>

\* A call that fails without effect: before the claim, or in the release itself,
\* the worker gives up; after the claim it releases.
JobCallFails(w) ==
  /\ stage[w] # "idle" /\ Fault
  /\ Goes(w, IF stage[w] \in Claimed \ {"release"} THEN "release" ELSE "idle")
  /\ UNCHANGED <<postJob, rebateOwed, stale, rebates, earnings, copy, overtakes>>

\* The answer of a COMMIT or of the last UPDATE is lost.
AnswerLost(w) ==
  /\ Fault
  /\ PayRebate(w, "release") \/ PayVendor(w, "release") \/ FinishJob(w, "release")

\* The process of a worker dies.
WorkerDies(w) ==
  /\ stage[w] # "idle" /\ Fault /\ Goes(w, "idle")
  /\ UNCHANGED <<postJob, rebateOwed, stale, rebates, earnings, copy, overtakes>>

\* billingPostJobRunningTimeout passes since the last write of the row.
JobHeld == \E w \in PostWorkers : stage[w] \in Claimed
JobGoesStale ==
  /\ postJob.status = "running" /\ ~stale /\ stale' = TRUE
  /\ IF JobHeld THEN overtakes < MaxOvertakes /\ overtakes' = overtakes + 1 ELSE UNCHANGED overtakes
  /\ UNCHANGED <<postJob, rebateOwed, rebates, earnings, stage, copy, postFaults>>

Works(w) ==
  \/ ReclaimStaleJob(w) \/ FindJob(w) \/ ClaimJob(w) \/ ReleaseJob(w)
  \/ (PayRebate(w, "vendor") \/ PayVendor(w, "finish") \/ FinishJob(w, "idle")) /\ UNCHANGED postFaults

PostNext ==
  \/ JobGoesStale
  \/ \E w \in PostWorkers : Works(w) \/ JobCallFails(w) \/ AnswerLost(w) \/ WorkerDies(w)

\* The ticker runs on and ten minutes pass; no call fails for ever.
PostFairness ==
  /\ WF_postVars(JobGoesStale)
  /\ \A w \in PostWorkers : WF_postVars(Works(w))

PostSpec == PostInit /\ [][PostNext]_postVars /\ PostFairness

PostTypeOK ==
  /\ postJob \in [status : {"pending", "running", "done"}, rebateDone : BOOLEAN, vendorDone : BOOLEAN]
  /\ rebateOwed \in BOOLEAN /\ stale \in BOOLEAN
  /\ rebates \in Nat /\ earnings \in Nat
  /\ stage \in [PostWorkers -> {"idle", "find", "claim"} \cup Claimed]
  /\ copy \in [PostWorkers -> [rebateDone : BOOLEAN, vendorDone : BOOLEAN]]
  /\ postFaults \in 0 .. MaxPostFaults /\ overtakes \in 0 .. MaxOvertakes

\* The inviter is paid at most once, whatever dies, is retried or is reclaimed. A
\* job that is done has paid its vendor, and its inviter too unless it was taken
\* from a worker that was still at work. A vendor is paid again only after a
\* fault or such a takeover.
PostJobPaysOut ==
  /\ rebates <= 1
  /\ postJob.status = "done" =>
       /\ earnings > 0
       /\ rebateOwed /\ overtakes = 0 => rebates = 1
  /\ earnings > 1 => postFaults + overtakes > 0

\* The job is done in the end, and no late release takes it back for good.
PostJobEnds == <>[](postJob.status = "done")
=============================================================================
