------------------------------- MODULE MCFlows -------------------------------
(***************************************************************************)
(* Model checking of the flows that each concern one user, one browser or   *)
(* one charge: what the pages wait for and poll, the money flows behind     *)
(* them, the loop of quotaLeaseDebitPlan, and the job that follows a charge. *)
(* They share no state, so one of them runs at a time, `part`; the state of *)
(* the others is pinned, and pinned where nothing of theirs is awaited.     *)
(***************************************************************************)
EXTENDS QuotaDebitPlan, PostBilling, TaskWatch, Generation, Checkout, CreditGift, Withdrawals, Session

VARIABLE part

watchState == <<ended, detail, opening, timers, handle, ticks, onPage, crossed>>
generationState == <<page, keyOk, generation, post, running, taskId, taskStatus, result, upstream, polls>>
checkoutState == <<status, paidFor, credited, handling, isPaying, frame, poll, answers, lapsed, late>>
giftState == <<filled, request, awaited, posts, replies, rows, balance, submits, intents, reported, given>>
withdrawState == <<requests, frozen, earned, converted, submitting, reviewing>>
sessionState == <<token, valid, logins, location, profile, call>>

flowVars == <<part, vars, postVars, watchState, generationState, checkoutState, giftState, withdrawState, sessionState>>

FlowInit ==
  /\ part \in {"plan", "post", "watch", "generation", "checkout", "gift", "withdraw", "session"}
  /\ IF part = "plan" THEN Init
     ELSE leases = <<>> /\ credits = 0 /\ lease = 1 /\ remaining = 0 /\ plan = <<>> /\ applied = 0 /\ pc = "done"
  /\ IF part = "post" THEN PostInit
     ELSE /\ postJob = [status |-> "done", rebateDone |-> TRUE, vendorDone |-> TRUE]
          /\ rebateOwed = FALSE /\ stale = FALSE /\ rebates = 0 /\ earnings = 1
          /\ stage = [w \in PostWorkers |-> "idle"] /\ copy = [w \in PostWorkers |-> NotDone]
          /\ postFaults = 0 /\ overtakes = 0
  /\ IF part = "generation" THEN GenerationInit
     ELSE /\ page = "video" /\ keyOk = TRUE /\ generation = 0 /\ post = 0 /\ running = FALSE
          /\ taskId = 0 /\ taskStatus = "idle" /\ result = 0 /\ polls = {}
          /\ upstream = [g \in Generations |-> "done"]
  /\ WatchInit /\ CheckoutInit /\ GiftInit /\ WithdrawInit /\ SessionInit

PlanStep ==
  /\ part = "plan" /\ Next
  /\ UNCHANGED <<part, postVars, watchState, generationState, checkoutState, giftState, withdrawState, sessionState>>
PostStep ==
  /\ part = "post" /\ PostNext
  /\ UNCHANGED <<part, vars, watchState, generationState, checkoutState, giftState, withdrawState, sessionState>>
WatchStep ==
  /\ part = "watch" /\ WatchNext
  /\ UNCHANGED <<part, vars, postVars, generationState, checkoutState, giftState, withdrawState, sessionState>>
GenerationStep ==
  /\ part = "generation" /\ GenerationNext
  /\ UNCHANGED <<part, vars, postVars, watchState, checkoutState, giftState, withdrawState, sessionState>>
CheckoutStep ==
  /\ part = "checkout" /\ CheckoutNext
  /\ UNCHANGED <<part, vars, postVars, watchState, generationState, giftState, withdrawState, sessionState>>
GiftStep ==
  /\ part = "gift" /\ GiftNext
  /\ UNCHANGED <<part, vars, postVars, watchState, generationState, checkoutState, withdrawState, sessionState>>
WithdrawStep ==
  /\ part = "withdraw" /\ WithdrawNext
  /\ UNCHANGED <<part, vars, postVars, watchState, generationState, checkoutState, giftState, sessionState>>
SessionStep ==
  /\ part = "session" /\ SessionNext
  /\ UNCHANGED <<part, vars, postVars, watchState, generationState, checkoutState, giftState, withdrawState>>

FlowNext ==
  PlanStep \/ PostStep \/ WatchStep \/ GenerationStep \/ CheckoutStep \/ GiftStep \/ WithdrawStep \/ SessionStep

(***************************************************************************)
(* The fairness of the flows, conjunct by conjunct what WatchFairness,      *)
(* GenerationFairness, CheckoutFairness, SessionFairness and PostFairness say.  Strong    *)
(* fairness is stated of the i-th fair action of whichever flow runs: TLC   *)
(* checks the product of all its strong fairness conjuncts.                 *)
(***************************************************************************)
Again(i) ==
  \/ part = "watch" /\ i \in Tasks /\ TickLandsFor(i) /\ WatchStep
  \/ part = "generation" /\ i \in Generations /\ EndLands(i) /\ GenerationStep
  \/ part = "checkout" /\ i \in Orders /\ Settle(i) /\ CheckoutStep
  \/ part = "checkout" /\ i - 2 \in Orders /\ NoticedPaid(i - 2) /\ CheckoutStep
  \/ part = "session" /\ i \in Tabs /\ Serve(i) /\ SessionStep
  \/ part = "session" /\ i - 2 \in Tabs /\ Unauthorized(i - 2) /\ SessionStep

Soon(i) ==
  \/ part = "post" /\ i \in PostWorkers /\ Works(i) /\ PostStep
  \/ part = "post" /\ i = 4 /\ JobGoesStale /\ PostStep
  \/ part = "watch" /\ i \in Timers /\ Tick(i) /\ WatchStep
  \/ part = "generation" /\ i = 1 /\ AnyPost /\ GenerationStep
  \/ part = "generation" /\ i = 2 /\ PollTick /\ GenerationStep
  \/ part = "generation" /\ i - 2 \in Generations /\ UpstreamFinishes(i - 2) /\ GenerationStep
  \/ part = "checkout" /\ i \in Orders /\ Notify(i) /\ CheckoutStep
  \/ part = "checkout" /\ i = 3 /\ PollOrder /\ CheckoutStep
  \/ part = "session" /\ i \in Tabs /\ Request(i) /\ SessionStep
  \/ part = "session" /\ i - 2 \in Tabs /\ Answered(i - 2) /\ SessionStep

FlowFairness == \A i \in 1 .. 4 : SF_flowVars(Again(i)) /\ WF_flowVars(Soon(i))
FlowSpec == FlowInit /\ [][FlowNext]_flowVars /\ FlowFairness

-----------------------------------------------------------------------------
\* The types of the flow that runs.
FlowTypeOK ==
  CASE part = "plan" -> TypeOK
    [] part = "post" -> PostTypeOK
    [] part = "watch" -> WatchTypeOK
    [] part = "generation" -> GenerationTypeOK
    [] part = "checkout" -> CheckoutTypeOK
    [] part = "gift" -> GiftTypeOK
    [] part = "withdraw" -> WithdrawTypeOK
    [] part = "session" -> SessionTypeOK
=============================================================================
