--------------------------- MODULE TaskLifecycle ---------------------------
(***************************************************************************)
(* One asynchronous task (image, video, audio), from createTask through    *)
(* the JetStream job and result streams, the workers, the result           *)
(* processor, its batch writer, the poller of upstream tasks and the sweep *)
(* of stale tasks, to its last status, with its charges and refunds.       *)
(*                                                                         *)
(* The user, the payload and the price do not matter: an attempt costs one *)
(* credit.  Attempt a runs on the a-th channel of the task, under the      *)
(* corr_id of that attempt, with the later channels as retry_channel_ids.  *)
(* Each DB statement, billing transaction and publish is a step.           *)
(***************************************************************************)
EXTENDS Integers, FiniteSets, Sequences, Bags

CONSTANTS
    Channels,    \* channels of the task: the first and its retry_channel_ids
    Async,       \* those that answer with an upstream task id to be polled
    Keys,        \* keys in the pool of a channel, 0 without a pool
    Handler,     \* BOUND: goroutines of handleResult at one time
    MaxDeliver,  \* workerMaxDeliver
    ErrorText,   \* texts a worker may report (user-facing form)
    Env,         \* what may go wrong: "publish" (refused), "db" (a statement
                 \* or a refund fails), "redeliver" (an ACK is lost or late),
                 \* "worker", "server" (a process dies), "slow" (a timeout
                 \* strikes while others are still at work), "slowCreate"
                 \* (createTask is overtaken by the worker)
    MaxFaults,   \* BOUND: faults in one behaviour
    MaxResults   \* BOUND: results waiting when the poller starts a poll

Attempt == 1..Channels

ASSUME TaskAssumption ==
    /\ Channels \in Nat \ {0} /\ Async \subseteq Attempt
    /\ Keys \in Nat /\ MaxDeliver \in Nat \ {0}
    /\ MaxFaults \in Nat /\ MaxResults \in Nat
    /\ IsFiniteSet(Handler) /\ Handler \cap {"api", "poller", "cleaner"} = {}

VARIABLES
    \* PostgreSQL: the tasks row and the billing rows of the task
    status,     \* "none" before the INSERT
    attempt,    \* channel_id, corr_id and retry_channel_ids
    credits,    \* credits_charged
    upstream,   \* upstream_task_id: the attempt that got it, 0 if empty
    charged,    \* attempts with a row of type charge
    refunded,   \* <<attempt, reason>> of the refund rows
    \* JetStream: messages not delivered, as bags
    jobs, results,
    \* workers, and the upstream they ask
    running,    \* bag of jobs at work
    verdict,    \* what the upstream says of its task of an attempt
    \* the API server
    pc,         \* where each goroutine is
    res,        \* the result a handler works on, the row a sweep has read
    arg,        \* arguments of failTaskDB
    asked,      \* the upstream_task_id the poller has read
    writes,     \* writeCh
    old,        \* the task is older than maxAge
    budget      \* faults left

rowVars    == <<status, attempt, credits, upstream>>
ledgerVars == <<charged, refunded>>
queueVars  == <<jobs, results>>
workerVars == <<running, verdict>>
procVars   == <<pc, res, arg, asked>>
vars == <<rowVars, ledgerVars, queueVars, workerVars, procVars, writes, old, budget>>

Actor   == Handler \cup {"api", "poller", "cleaner"}
Reason  == ErrorText \cup {"channelRetry", "publishError", "unpublished",
                        "stale", "aged", "polled"}
Outcome == {"done", "async", "rate_limited", "pool_key_retry", "failed"}
Job     == [attempt : Attempt, tried : 0..Keys, left : 0..MaxDeliver - 1]
Result  == [attempt : Attempt, tried : 0..Keys, credits : {0, 1},
            outcome : Outcome, text : Reason \cup {"none"},
            left : 0..MaxDeliver - 1]
Blame   == [attempt : Attempt, credits : {0, 1}, text : Reason]

CreateStep  == {"start", "insert", "charge", "refuse", "publish", "pubFail",
                "pubRefund", "mark"}
ProcessStep == {"rotate", "skip", "republish", "failed", "retryRefund",
                "retryZero", "retryCharge", "retryWrite", "retryUpdate",
                "retryPublish", "fail", "failRefund", "failZero", "poll"}
Final == {"done", "failed"}

TypeOK ==
    /\ status \in {"none", "pending", "processing", "done", "failed"}
    /\ attempt \in Attempt /\ credits \in {0, 1} /\ upstream \in 0..Channels
    /\ charged \subseteq Attempt /\ refunded \subseteq Attempt \X Reason
    /\ IsABag(jobs) /\ BagToSet(jobs) \subseteq Job
    /\ IsABag(results) /\ BagToSet(results) \subseteq Result
    /\ IsABag(running) /\ BagToSet(running) \subseteq Job
    /\ verdict \in [Attempt -> {"open", "done", "failed"}]
    /\ pc \in [Actor -> {"idle"} \cup CreateStep \cup ProcessStep]
    /\ \A p \in Actor : pc[p] # "idle" => p = "api" \/ res[p] \in Result
    /\ \A p \in Actor : pc[p] \in {"fail", "failRefund", "failZero"} => arg[p] \in Blame
    /\ asked \in 0..Channels /\ writes \in Seq(Result)
    /\ old \in BOOLEAN /\ budget \in 0..MaxFaults

NoResult == [attempt |-> 1, tried |-> 0, credits |-> 0, outcome |-> "failed",
             text |-> "stale", left |-> 0]
NoBlame  == [attempt |-> 1, credits |-> 0, text |-> "stale"]

Init ==
    /\ status = "none" /\ attempt = 1 /\ credits = 0 /\ upstream = 0
    /\ charged = {} /\ refunded = {}
    /\ jobs = EmptyBag /\ results = EmptyBag /\ running = EmptyBag
    /\ verdict = [a \in Attempt |-> "open"]
    /\ pc = [p \in Actor |-> IF p = "api" THEN "start" ELSE "idle"]
    /\ res = [p \in Actor |-> NoResult]
    /\ arg = [p \in Actor |-> NoBlame]
    /\ asked = 0
    /\ writes = <<>>
    /\ old = FALSE
    /\ budget = MaxFaults

-----------------------------------------------------------------------------
(***************************************************************************)
(* Building blocks.                                                        *)
(***************************************************************************)

Goto(p, step) == pc' = [pc EXCEPT ![p] = step]
One(m)        == SetToBag({m})

\* What a call may answer when Env has its fault.
Replies(fault) == {"ok"} \cup (IF fault \in Env /\ budget > 0 THEN {"error"} ELSE {})
Answer(reply)  == budget' = IF reply = "ok" THEN budget ELSE budget - 1
Fault(kind)    == kind \in Env /\ budget > 0 /\ budget' = budget - 1

NewJob(a, tried) == [attempt |-> a, tried |-> tried, left |-> MaxDeliver - 1]

\* The message of publishFailedResult, made of the row it has read.
FailedResult(row, text) ==
    [attempt |-> row.attempt, tried |-> 0, credits |-> row.credits,
     outcome |-> "failed", text |-> text, left |-> MaxDeliver - 1]

\* The copy JetStream delivers when no ACK came: none after MaxDeliver.
Again(m) == IF m.left = 0 THEN EmptyBag ELSE One([m EXCEPT !.left = @ - 1])

\* failTaskDB is called with these arguments.
CallFail(p, a, n, text) ==
    /\ arg' = [arg EXCEPT ![p] = [attempt |-> a, credits |-> n, text |-> text]]
    /\ Goto(p, "fail")

SetRow(s, a, n) == status' = s /\ attempt' = a /\ credits' = n
SetStatus(s)    == status' = s /\ UNCHANGED <<attempt, credits, upstream>>

\* An UPDATE whose error is not looked at.
Unchecked(Update) ==
    \E reply \in Replies("db") :
        Answer(reply) /\ (IF reply = "ok" THEN Update ELSE UNCHANGED rowVars)

\* WriteTx of a refund: the dedupe key is the attempt and the reason, so that a
\* second refund of both is no row; a deferred refund counts as written.
WriteRefund(a, reason) == refunded' = refunded \cup {<<a, reason>>}

Returned == {a \in charged : \E reason \in Reason : <<a, reason>> \in refunded}
Paid   == charged \ Returned

\* Nothing of the task is queued, at work or waiting to be written.
ServerQuiet == /\ results = EmptyBag /\ writes = <<>>
               /\ \A p \in Handler : pc[p] = "idle"
Quiet == /\ ServerQuiet /\ pc["api"] = "idle"
         /\ jobs = EmptyBag /\ running = EmptyBag
AtRest == Quiet /\ \A p \in Actor : pc[p] = "idle"

-----------------------------------------------------------------------------
(***************************************************************************)
(* createTask                                                              *)
(***************************************************************************)

\* The credits leave the bucket, or the user cannot pay.
ChargeUser ==
    /\ pc["api"] = "start"
    /\ \E next \in {"insert", "idle"} : Goto("api", next)
    /\ UNCHANGED <<rowVars, ledgerVars, queueVars, workerVars, res, arg, asked, writes, old, budget>>

\* The row is inserted; if not, the bucket gets its credits back.
InsertTask ==
    /\ pc["api"] = "insert"
    /\ \E reply \in Replies("db") :
        /\ Answer(reply)
        /\ IF reply = "ok" THEN SetRow("pending", 1, 1) /\ Goto("api", "charge")
           ELSE UNCHANGED rowVars /\ Goto("api", "idle")
    /\ UNCHANGED <<upstream, ledgerVars, queueVars, workerVars, res, arg, asked, writes, old>>

\* WriteTx of the charge, which gives the credits back itself when it fails.
WriteCharge ==
    /\ pc["api"] = "charge"
    /\ \E reply \in Replies("db") :
        /\ Answer(reply)
        /\ charged' = IF reply = "ok" THEN charged \cup {1} ELSE charged
        /\ Goto("api", IF reply = "ok" THEN "publish" ELSE "refuse")
    /\ UNCHANGED <<rowVars, refunded, queueVars, workerVars, res, arg, asked, writes, old>>

RefuseTask ==
    /\ pc["api"] = "refuse"
    /\ Unchecked(SetStatus("failed"))
    /\ Goto("api", "idle")
    /\ UNCHANGED <<ledgerVars, queueVars, workerVars, res, arg, asked, writes, old>>

PublishTask ==
    /\ pc["api"] = "publish"
    /\ \E reply \in Replies("publish") :
        /\ Answer(reply)
        /\ jobs' = IF reply = "ok" THEN jobs (+) One(NewJob(1, 0)) ELSE jobs
        /\ Goto("api", IF reply = "ok" THEN "mark" ELSE "pubFail")
    /\ UNCHANGED <<rowVars, ledgerVars, results, workerVars, res, arg, asked, writes, old>>

FailUnpublished ==
    /\ pc["api"] = "pubFail"
    /\ Unchecked(SetStatus("failed"))
    /\ Goto("api", "pubRefund")
    /\ UNCHANGED <<ledgerVars, queueVars, workerVars, res, arg, asked, writes, old>>

RefundUnpublished ==
    /\ pc["api"] = "pubRefund"
    /\ \E reply \in Replies("db") :
        /\ Answer(reply)
        /\ IF reply = "ok" THEN WriteRefund(1, "publishError") ELSE UNCHANGED refunded
    /\ Goto("api", "idle")
    /\ UNCHANGED <<rowVars, charged, queueVars, workerVars, res, arg, asked, writes, old>>

\* The job is out: whatever became of it meanwhile, the row says "processing".
MarkProcessing ==
    /\ pc["api"] = "mark"
    /\ Unchecked(SetStatus("processing"))
    /\ Goto("api", "idle")
    /\ UNCHANGED <<ledgerVars, queueVars, workerVars, res, arg, asked, writes, old>>

-----------------------------------------------------------------------------
(***************************************************************************)
(* The worker: handleTask and execJob of script/worker.go.                 *)
(***************************************************************************)

\* createTask is normally done before a worker has the job.
TakeJob ==
    /\ "slowCreate" \in Env \/ pc["api"] = "idle"
    /\ \E j \in BagToSet(jobs) :
        /\ jobs' = jobs (-) One(j)
        /\ running' = running (+) One(j)
    /\ UNCHANGED <<rowVars, ledgerVars, results, verdict, procVars, writes, old, budget>>

\* What execJob reports: an upstream task, a result, an error, or that the key
\* of the pool is exhausted or should be skipped.
Outcomes(j) ==
    {"failed", IF j.attempt \in Async THEN "async" ELSE "done"}
        \cup (IF Keys > 0 THEN {"rate_limited", "pool_key_retry"} ELSE {})

Texts(outcome) == IF outcome \in {"done", "async"} THEN {"none"} ELSE ErrorText

ResultOf(j, outcome, text) ==
    [attempt |-> j.attempt, credits |-> 1, outcome |-> outcome, text |-> text,
     tried |-> IF outcome \in {"rate_limited", "pool_key_retry"}
               THEN j.tried + 1 ELSE j.tried,
     left |-> MaxDeliver - 1]

\* The result is published and the job acknowledged, or terminated without a
\* result when it cannot be published.
FinishJob ==
    /\ \E j \in BagToSet(running), reply \in Replies("publish") :
       \E outcome \in Outcomes(j) : \E text \in Texts(outcome) :
        /\ Answer(reply)
        /\ running' = running (-) One(j)
        /\ results' = IF reply = "ok" THEN results (+) One(ResultOf(j, outcome, text))
                      ELSE results
    /\ UNCHANGED <<rowVars, ledgerVars, jobs, verdict, procVars, writes, old>>

\* AckWait passes, or an ACK gets lost: the job is delivered again while this
\* delivery goes on.
RedeliverJob ==
    /\ Fault("redeliver")
    /\ \E j \in BagToSet(running) :
        /\ j.left > 0
        /\ jobs' = jobs (+) Again(j)
        /\ running' = (running (-) One(j)) (+) One([j EXCEPT !.left = 0])
    /\ UNCHANGED <<rowVars, ledgerVars, results, verdict, procVars, writes, old>>

WorkerDies ==
    /\ Fault("worker")
    /\ \E j \in BagToSet(running) :
        /\ jobs' = jobs (+) Again(j)
        /\ running' = running (-) One(j)
    /\ UNCHANGED <<rowVars, ledgerVars, results, verdict, procVars, writes, old>>

-----------------------------------------------------------------------------
(***************************************************************************)
(* failTaskDB                                                              *)
(***************************************************************************)

\* Mutant of FailTask: the condition on the status is dropped.
FailAgain(p) ==
    /\ pc[p] = "fail"
    /\ \E reply \in Replies("db") :
        /\ Answer(reply)
        /\ IF reply = "ok"
           THEN /\ SetStatus("failed")
                /\ Goto(p, IF arg[p].credits > 0 THEN "failRefund" ELSE "idle")
           ELSE UNCHANGED rowVars /\ Goto(p, "idle")
    /\ UNCHANGED <<ledgerVars, queueVars, workerVars, res, arg, asked, writes, old>>

\* UPDATE ... WHERE status != 'failed'; no row (or an error): nothing to do.
FailTask(p) ==
    /\ pc[p] = "fail"
    /\ \E reply \in Replies("db") :
        /\ Answer(reply)
        /\ IF reply = "ok" /\ status # "failed"
           THEN /\ SetStatus("failed")
                /\ Goto(p, IF arg[p].credits > 0 THEN "failRefund" ELSE "idle")
           ELSE UNCHANGED rowVars /\ Goto(p, "idle")
    /\ UNCHANGED <<ledgerVars, queueVars, workerVars, res, arg, asked, writes, old>>

FailRefund(p) ==
    /\ pc[p] = "failRefund"
    /\ \E reply \in Replies("db") :
        /\ Answer(reply)
        /\ IF reply = "ok" THEN WriteRefund(arg[p].attempt, arg[p].text)
           ELSE UNCHANGED refunded
        /\ Goto(p, IF reply = "ok" THEN "failZero" ELSE "idle")
    /\ UNCHANGED <<rowVars, charged, queueVars, workerVars, res, arg, asked, writes, old>>

\* updateTaskCreditsCharged, the last statement of failTaskDB.
FailZero(p) ==
    /\ pc[p] = "failZero"
    /\ Unchecked(SetRow(status, attempt, 0) /\ UNCHANGED upstream)
    /\ Goto(p, "idle")
    /\ UNCHANGED <<ledgerVars, queueVars, workerVars, res, arg, asked, writes, old>>

-----------------------------------------------------------------------------
(***************************************************************************)
(* handleResult and the batch writer                                       *)
(***************************************************************************)

\* A handler starts.  A done or async result goes to the batch writer.
TakeResult(p) ==
    /\ pc[p] = "idle"
    /\ \E r \in BagToSet(results) :
        /\ results' = results (-) One(r)
        /\ IF r.outcome \in {"done", "async"}
           THEN writes' = Append(writes, r) /\ UNCHANGED procVars
           ELSE /\ res' = [res EXCEPT ![p] = r]
                /\ Goto(p, CASE r.outcome = "rate_limited"   -> "rotate"
                             [] r.outcome = "pool_key_retry" -> "skip"
                             [] OTHER                        -> "failed")
                /\ UNCHANGED <<arg, asked, writes>>
    /\ UNCHANGED <<rowVars, ledgerVars, jobs, workerVars, old, budget>>

\* The ACK of a result gets lost: it is delivered again while it is handled.
RedeliverResult ==
    /\ Fault("redeliver")
    /\ \/ \E p \in Handler :
          /\ pc[p] # "idle" /\ res[p].left > 0
          /\ results' = results (+) Again(res[p])
          /\ res' = [res EXCEPT ![p].left = 0]
          /\ UNCHANGED writes
       \/ \E i \in DOMAIN writes :
          /\ writes[i].left > 0
          /\ results' = results (+) Again(writes[i])
          /\ writes' = [writes EXCEPT ![i].left = 0]
          /\ UNCHANGED res
    /\ UNCHANGED <<rowVars, ledgerVars, jobs, workerVars, pc, arg, asked, old>>

\* A new key is assigned and the job published with it, or this fails.
RotateKey(p) ==
    /\ pc[p] = "rotate"
    /\ LET r == res[p] IN
       \/ /\ r.tried < Keys
          /\ \E reply \in Replies("publish") :
              /\ Answer(reply)
              /\ IF reply = "ok"
                 THEN /\ jobs' = jobs (+) One(NewJob(r.attempt, r.tried))
                      /\ Goto(p, "idle") /\ UNCHANGED arg
                 ELSE /\ CallFail(p, r.attempt, r.credits, "unpublished")
                      /\ UNCHANGED jobs
       \/ Goto(p, "skip") /\ UNCHANGED <<jobs, arg, budget>>
    /\ UNCHANGED <<rowVars, ledgerVars, results, workerVars, res, asked, writes, old>>

\* A key that was not tried yet is taken and the row marked, or none is found.
SkipKey(p) ==
    /\ pc[p] = "skip"
    /\ \/ /\ res[p].tried < Keys
          /\ Unchecked(SetStatus("processing"))
          /\ Goto(p, "republish")
       \/ Goto(p, "failed") /\ UNCHANGED <<rowVars, budget>>
    /\ UNCHANGED <<ledgerVars, queueVars, workerVars, res, arg, asked, writes, old>>

Republish(p) ==
    /\ pc[p] = "republish"
    /\ LET r == res[p] IN
       \E reply \in Replies("publish") :
        /\ Answer(reply)
        /\ IF reply = "ok"
           THEN /\ jobs' = jobs (+) One(NewJob(r.attempt, r.tried))
                /\ Goto(p, "idle") /\ UNCHANGED arg
           ELSE CallFail(p, r.attempt, r.credits, "unpublished") /\ UNCHANGED jobs
    /\ UNCHANGED <<rowVars, ledgerVars, results, workerVars, res, asked, writes, old>>

\* Mutant of FailedResultArrives: the failed channel is not refunded.
RetryAtOnce(p) ==
    /\ pc[p] = "failed"
    /\ LET r == res[p] IN
       \E reply \in Replies("db") :
        /\ Answer(reply)
        /\ IF r.attempt < Channels /\ reply = "ok"
           THEN Goto(p, "retryCharge") /\ UNCHANGED arg
           ELSE CallFail(p, r.attempt, r.credits, r.text)
    /\ UNCHANGED <<rowVars, ledgerVars, queueVars, workerVars, res, asked, writes, old>>

\* The next channel is tried if there is one and it can be loaded.
FailedResultArrives(p) ==
    /\ pc[p] = "failed"
    /\ LET r == res[p] IN
       \E reply \in Replies("db") :
        /\ Answer(reply)
        /\ IF r.attempt < Channels /\ reply = "ok"
           THEN /\ Goto(p, IF r.credits > 0 THEN "retryRefund" ELSE "retryCharge")
                /\ UNCHANGED arg
           ELSE CallFail(p, r.attempt, r.credits, r.text)
    /\ UNCHANGED <<rowVars, ledgerVars, queueVars, workerVars, res, asked, writes, old>>

\* Mutant of RetryRefund: a failed refund does not stop the retry.
RetryRefundIgnored(p) ==
    /\ pc[p] = "retryRefund"
    /\ \E reply \in Replies("db") :
        /\ Answer(reply)
        /\ IF reply = "ok" THEN WriteRefund(res[p].attempt, "channelRetry")
           ELSE UNCHANGED refunded
        /\ Goto(p, "retryZero") /\ UNCHANGED arg
    /\ UNCHANGED <<rowVars, charged, queueVars, workerVars, res, asked, writes, old>>

\* The failed channel is refunded, or the task fails without a refund.
RetryRefund(p) ==
    /\ pc[p] = "retryRefund"
    /\ \E reply \in Replies("db") :
        /\ Answer(reply)
        /\ IF reply = "ok"
           THEN /\ WriteRefund(res[p].attempt, "channelRetry")
                /\ Goto(p, "retryZero") /\ UNCHANGED arg
           ELSE CallFail(p, res[p].attempt, 0, res[p].text) /\ UNCHANGED refunded
    /\ UNCHANGED <<rowVars, charged, queueVars, workerVars, res, asked, writes, old>>

RetryZero(p) ==
    /\ pc[p] = "retryZero"
    /\ Unchecked(SetRow(status, attempt, 0) /\ UNCHANGED upstream)
    /\ Goto(p, "retryCharge")
    /\ UNCHANGED <<ledgerVars, queueVars, workerVars, res, arg, asked, writes, old>>

\* The price of the next channel leaves the bucket, or cannot be paid.
RetryCharge(p) ==
    /\ pc[p] = "retryCharge"
    /\ \/ Goto(p, "retryWrite") /\ UNCHANGED arg
       \/ CallFail(p, res[p].attempt, 0, res[p].text)
    /\ UNCHANGED <<rowVars, ledgerVars, queueVars, workerVars, res, asked, writes, old, budget>>

\* WriteTx of the charge under the next corr_id, which may be there already.
RetryWrite(p) ==
    /\ pc[p] = "retryWrite"
    /\ LET next == res[p].attempt + 1 IN
       \E reply \in Replies("db") :
        /\ Answer(reply)
        /\ IF reply = "ok" /\ next \notin charged
           THEN charged' = charged \cup {next} /\ Goto(p, "retryUpdate") /\ UNCHANGED arg
           ELSE CallFail(p, res[p].attempt, 0, res[p].text) /\ UNCHANGED charged
    /\ UNCHANGED <<rowVars, refunded, queueVars, workerVars, res, asked, writes, old>>

\* Mutant of RetryUpdate: the row keeps the failed channel and its corr_id.
KeepChannel(p) ==
    /\ pc[p] = "retryUpdate"
    /\ Unchecked(SetRow("processing", attempt, 1) /\ UNCHANGED upstream)
    /\ Goto(p, "retryPublish")
    /\ UNCHANGED <<ledgerVars, queueVars, workerVars, res, arg, asked, writes, old>>

\* The row moves to the next channel; upstream_task_id stays as it is.
RetryUpdate(p) ==
    /\ pc[p] = "retryUpdate"
    /\ Unchecked(SetRow("processing", res[p].attempt + 1, 1) /\ UNCHANGED upstream)
    /\ Goto(p, "retryPublish")
    /\ UNCHANGED <<ledgerVars, queueVars, workerVars, res, arg, asked, writes, old>>

\* Mutant of RetryPublish: the new charge is not passed to failTaskDB.
RetryPublishFree(p) ==
    /\ pc[p] = "retryPublish"
    /\ LET next == res[p].attempt + 1 IN
       \E reply \in Replies("publish") :
        /\ Answer(reply)
        /\ IF reply = "ok"
           THEN jobs' = jobs (+) One(NewJob(next, 0)) /\ Goto(p, "idle") /\ UNCHANGED arg
           ELSE CallFail(p, next, 0, "unpublished") /\ UNCHANGED jobs
    /\ UNCHANGED <<rowVars, ledgerVars, results, workerVars, res, asked, writes, old>>

\* The job of the next channel is published, or the task fails and its charge
\* is refunded.
RetryPublish(p) ==
    /\ pc[p] = "retryPublish"
    /\ LET next == res[p].attempt + 1 IN
       \E reply \in Replies("publish") :
        /\ Answer(reply)
        /\ IF reply = "ok"
           THEN jobs' = jobs (+) One(NewJob(next, 0)) /\ Goto(p, "idle") /\ UNCHANGED arg
           ELSE CallFail(p, next, 1, "unpublished") /\ UNCHANGED jobs
    /\ UNCHANGED <<rowVars, ledgerVars, results, workerVars, res, asked, writes, old>>

\* flushBatch of the first n items: one UPDATE for the finished ones, then one
\* for the async ones; either may be lost.  The messages are acknowledged
\* whatever became of it.
FlushBatch ==
    /\ writes # <<>>
    /\ \E n \in 1..Len(writes) :
        LET batch == {writes[i] : i \in 1..n} IN
        \E lost \in SUBSET {r.outcome : r \in batch} :
        LET asyncs == {r \in batch : r.outcome = "async" /\ "async" \notin lost} IN
        /\ lost # {} => "db" \in Env /\ Cardinality(lost) <= budget
        /\ budget' = budget - Cardinality(lost)
        /\ writes' = SubSeq(writes, n + 1, Len(writes))
        /\ \/ /\ asyncs # {}
              /\ SetRow("processing", attempt, credits)
              /\ \E r \in asyncs : upstream' = r.attempt
           \/ /\ asyncs = {} /\ \E r \in batch : r.outcome = "done" /\ "done" \notin lost
              /\ SetStatus("done")
           \/ /\ {r.outcome : r \in batch} = lost
              /\ UNCHANGED rowVars
    /\ UNCHANGED <<ledgerVars, queueVars, workerVars, procVars, old>>

-----------------------------------------------------------------------------
(***************************************************************************)
(* The poller, every five seconds                                          *)
(***************************************************************************)

Row        == [attempt |-> attempt, credits |-> credits]
ReadRow(p) == res' = [res EXCEPT ![p] = FailedResult(Row, "stale")]

\* Mutants of CleanStaleTask: the status is looked at too little, or too much.
SweepAll ==
    /\ pc["cleaner"] = "idle"
    /\ status \notin {"none", "failed"}
    /\ "slow" \in Env \/ Quiet
    /\ CallFail("cleaner", attempt, credits, "stale")
    /\ ReadRow("cleaner")
    /\ UNCHANGED <<rowVars, ledgerVars, queueVars, workerVars, asked, writes, old, budget>>
SweepPending ==
    /\ pc["cleaner"] = "idle"
    /\ status = "pending"
    /\ "slow" \in Env \/ Quiet
    /\ CallFail("cleaner", attempt, credits, "stale")
    /\ ReadRow("cleaner")
    /\ UNCHANGED <<rowVars, ledgerVars, queueVars, workerVars, asked, writes, old, budget>>

\* cleanStaleTasks: a task that never ran, or whose result never came.  The
\* thresholds leave a working task its time.
CleanStaleTask ==
    /\ pc["cleaner"] = "idle"
    /\ status = "pending" \/ (status = "processing" /\ upstream = 0)
    /\ "slow" \in Env \/ Quiet
    /\ CallFail("cleaner", attempt, credits, "stale")
    /\ ReadRow("cleaner")
    /\ UNCHANGED <<rowVars, ledgerVars, queueVars, workerVars, asked, writes, old, budget>>

\* pollPendingTasks reads the row and takes the lock of the task.  Results are
\* normally handled before the next tick of the poller.
PollTask ==
    /\ pc["poller"] = "idle"
    /\ status = "processing" /\ upstream # 0
    /\ "slow" \in Env \/ ServerQuiet
    /\ BagCardinality(results) < MaxResults
    /\ ReadRow("poller")
    /\ asked' = upstream
    /\ Goto("poller", "poll")
    /\ UNCHANGED <<rowVars, ledgerVars, queueVars, workerVars, arg, writes, old, budget>>

\* publishFailedResult: the failure goes through the result stream, or, when
\* this fails, straight to failTaskDB.
PublishFailedResult(text) ==
    \E reply \in Replies("publish") :
        /\ Answer(reply)
        /\ IF reply = "ok"
           THEN /\ results' = results (+) One(FailedResult(res["poller"], text))
                /\ Goto("poller", "idle") /\ UNCHANGED arg
           ELSE /\ CallFail("poller", res["poller"].attempt, res["poller"].credits, text)
                /\ UNCHANGED results

\* The task is over maxAge.
PollAged ==
    /\ pc["poller"] = "poll"
    /\ old
    /\ PublishFailedResult("aged")
    /\ UNCHANGED <<rowVars, ledgerVars, jobs, workerVars, res, asked, writes, old>>

\* No answer, an error status, "still processing", or a channel without query URL.
PollNothing ==
    /\ pc["poller"] = "poll"
    /\ ~old
    /\ \/ res["poller"].attempt \notin Async
       \/ asked # res["poller"].attempt
       \/ verdict[asked] = "open"
    /\ Goto("poller", "idle")
    /\ UNCHANGED <<rowVars, ledgerVars, queueVars, workerVars, res, arg, asked, writes, old, budget>>

\* The channel of the row answers: its own task is finished, and the row is
\* updated whatever it says by now.
PollDone ==
    /\ pc["poller"] = "poll"
    /\ ~old
    /\ asked = res["poller"].attempt
    /\ verdict[asked] = "done"
    /\ Unchecked(SetStatus("done"))
    /\ Goto("poller", "idle")
    /\ UNCHANGED <<ledgerVars, queueVars, workerVars, res, arg, asked, writes, old>>

\* Its own task has failed, or it does not know the id of another channel.
PollFailed ==
    /\ pc["poller"] = "poll"
    /\ ~old
    /\ res["poller"].attempt \in Async
    /\ asked # res["poller"].attempt \/ verdict[asked] = "failed"
    /\ PublishFailedResult("polled")
    /\ UNCHANGED <<rowVars, ledgerVars, jobs, workerVars, res, asked, writes, old>>

\* External: the upstream ends its task.
UpstreamEnds ==
    /\ \E a \in Attempt, end \in Final :
        /\ a = upstream /\ verdict[a] = "open"
        /\ verdict' = [verdict EXCEPT ![a] = end]
    /\ UNCHANGED <<rowVars, ledgerVars, queueVars, running, procVars, writes, old, budget>>

GrowOld ==
    /\ upstream # 0 /\ ~old
    /\ old' = TRUE
    /\ UNCHANGED <<rowVars, ledgerVars, queueVars, workerVars, procVars, writes, budget>>

-----------------------------------------------------------------------------
(***************************************************************************)
(* The server dies: what it had not acknowledged is delivered again.       *)
(***************************************************************************)

ServerDies ==
    /\ Fault("server")
    /\ pc["api"] # "start"
    /\ LET unacked == {p \in Handler : pc[p] # "idle"}
           held    == {res[p] : p \in unacked} \cup {writes[i] : i \in DOMAIN writes}
           copies  == [m \in held |-> Cardinality({p \in unacked : res[p] = m})
                                    + Cardinality({i \in DOMAIN writes : writes[i] = m})]
           again   == {m \in held : m.left > 0}
       IN results' = results (+) [m \in {[n EXCEPT !.left = @ - 1] : n \in again}
                                     |-> copies[[m EXCEPT !.left = @ + 1]]]
    /\ pc' = [p \in Actor |-> "idle"]
    /\ writes' = <<>>
    /\ UNCHANGED <<rowVars, ledgerVars, jobs, workerVars, res, arg, asked, old>>

-----------------------------------------------------------------------------
CreateTask ==
    \/ ChargeUser \/ InsertTask \/ WriteCharge \/ RefuseTask \/ PublishTask
    \/ FailUnpublished \/ RefundUnpublished \/ MarkProcessing

failTaskDB(p) == FailTask(p) \/ FailRefund(p) \/ FailZero(p)

handleResult(p) ==
    \/ TakeResult(p) \/ RotateKey(p) \/ SkipKey(p) \/ Republish(p)
    \/ FailedResultArrives(p) \/ RetryRefund(p) \/ RetryZero(p) \/ RetryCharge(p)
    \/ RetryWrite(p) \/ RetryUpdate(p) \/ RetryPublish(p) \/ failTaskDB(p)

PollOne == PollAged \/ PollNothing \/ PollDone \/ PollFailed

Next ==
    \/ CreateTask
    \/ TakeJob \/ FinishJob \/ RedeliverJob \/ WorkerDies
    \/ \E p \in Handler : handleResult(p)
    \/ \E p \in {"poller", "cleaner"} : failTaskDB(p)
    \/ RedeliverResult \/ FlushBatch
    \/ CleanStaleTask \/ PollTask \/ PollOne
    \/ UpstreamEnds \/ GrowOld \/ ServerDies

Spec == Init /\ [][Next]_vars

\* Goroutines are scheduled, consumers fetch, tickers fire and time passes; the
\* upstream need not end its task.
FairSpec ==
    /\ Spec
    /\ WF_vars(CreateTask) /\ WF_vars(TakeJob) /\ WF_vars(FinishJob)
    /\ \A p \in Handler : WF_vars(handleResult(p))
    /\ \A p \in {"poller", "cleaner"} : WF_vars(failTaskDB(p))
    /\ WF_vars(FlushBatch) /\ WF_vars(CleanStaleTask)
    /\ WF_vars(PollTask) /\ WF_vars(PollOne) /\ WF_vars(GrowOld)

-----------------------------------------------------------------------------
(***************************************************************************)
(* Properties                                                              *)
(***************************************************************************)

\* The contract of module TaskPromise: handleResult gives the credits of a
\* channel back before it charges the next one, and charges none twice,
\* whatever is delivered again and whoever dies.
Promise == INSTANCE TaskPromise WITH
    paid <- IF Paid = {} THEN 0 ELSE CHOOSE a \in Paid : TRUE,
    last <- Cardinality(charged)
KeepsPromise == Promise!Spec

\* A user never pays for two channels of a task at the same time, although the
\* handlers, the poller and the sweep charge and refund without a common lock.  Of
\* three channels whose second is polled it fails: updateTaskCreditsCharged names
\* the task and not the attempt (taskresult/handler.go:476), so a sweep that read
\* the task before its retry sets the credits of the newer attempt to 0; a failure
\* that the poller then finds refunds nothing, and the third channel is charged.
OneAttemptPaid == Cardinality(Paid) <= 1

RefundsOf(a) == {reason \in Reason : <<a, reason>> \in refunded}

\* No attempt is refunded that was not charged, and none is refunded twice:
\* "idempotent" in the comment of failTaskDB.
RefundsMatchCharges ==
    \A a \in Attempt : Cardinality(RefundsOf(a)) <= (IF a \in charged THEN 1 ELSE 0)

\* No attempt is refunded twice, whatever reason each refund names: the comment
\* of failTaskDB calls it idempotent.
RefundedOnce == \A a \in Attempt : Cardinality(RefundsOf(a)) <= 1

\* Only what was charged is refunded: the comment in failTaskDB wants the refund
\* symmetric to the charge.
RefundHasCharge == \A a \in Attempt : RefundsOf(a) # {} => a \in charged

\* A result whose message is acknowledged has reached the row: the comment in
\* flushBatch says the ACK follows the write.
AckedIsWritten ==
    [][Len(writes') < Len(writes) => status' = "done" \/ upstream' # 0]_vars

\* The poller asks a channel for the upstream task of that channel only.
PollAsksOwnTask ==
    pc["poller"] = "poll" /\ res["poller"].attempt \in Async
        => asked = res["poller"].attempt

\* When all is over, a failed task has cost nothing: failTaskDB and the retry
\* give back whatever was charged.
FailedIsRefunded == AtRest /\ status = "failed" => Paid = {}

\* When all is over, a finished task has cost the price of the channel that did
\* it, and the row names that channel.
DoneIsPaid == AtRest /\ status = "done" => Paid = {attempt}

\* A finished task stays finished: nothing that is still under way when the
\* batch writer or the poller writes the result takes it back.
DoneStays == [][status = "done" => status' = "done"]_vars

\* A task ends, and then nothing happens to it any more.
TaskEnds == <>[](AtRest /\ status \in {"none"} \cup Final)
=============================================================================
