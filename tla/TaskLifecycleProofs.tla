------------------------- MODULE TaskLifecycleProofs -------------------------
(***************************************************************************)
(* Theorems about TaskLifecycle. Type correctness, for every value of the  *)
(* constants. Of a task with one or two channels, or with any number of    *)
(* which only the last is polled, whatever fails: its user never pays for  *)
(* two channels at once, and unless something is late by minutes the       *)
(* contract of TaskPromise is kept.                                        *)
(***************************************************************************)
EXTENDS TaskLifecycle, FiniteSetTheorems, TLAPS

-----------------------------------------------------------------------------
(***************************************************************************)
(* The invariants.                                                         *)
(***************************************************************************)

FailStep  == {"fail", "failRefund", "failZero"}
RetryStep == {"retryZero", "retryCharge", "retryWrite", "retryUpdate", "retryPublish"}
NextStep  == RetryStep \cup {"retryRefund"}

\* A key that was assigned was one that had not been tried.
KeyLeft(m) == Keys > 0 => m.tried < Keys
\* A step with a new key has one, and a step of the retry has a next channel.
Fits(r, step) == (step = "republish" => KeyLeft(r)) /\ (step \in NextStep => r.attempt < Channels)
\* A failure has a text.
Named(m) == m.outcome \notin {"done", "async"} => m.text \in Reason

RowTypes ==
    /\ status \in {"none", "pending", "processing", "done", "failed"}
    /\ attempt \in Attempt /\ credits \in {0, 1} /\ upstream \in 0..Channels
LedgerTypes == charged \subseteq Attempt /\ refunded \subseteq Attempt \X Reason
QueueTypes ==
    /\ IsABag(jobs) /\ BagToSet(jobs) \subseteq Job /\ \A j \in BagToSet(jobs) : KeyLeft(j)
    /\ IsABag(results) /\ BagToSet(results) \subseteq Result /\ \A m \in BagToSet(results) : Named(m)
WorkerTypes ==
    /\ IsABag(running) /\ BagToSet(running) \subseteq Job /\ \A j \in BagToSet(running) : KeyLeft(j)
    /\ verdict \in [Attempt -> {"open", "done", "failed"}]
ProcTypes ==
    /\ pc \in [Actor -> {"idle"} \cup CreateStep \cup ProcessStep]
    /\ \A p \in Actor : pc[p] \in CreateStep => p = "api"
    /\ pc["api"] \notin ProcessStep
    /\ res \in [Actor -> Result] /\ arg \in [Actor -> Blame]
    /\ \A p \in Actor : res[p].text \in Reason
    /\ \A p \in Actor : Fits(res[p], pc[p])
    /\ asked \in 0..Channels
ServerTypes == writes \in Seq(Result) /\ (\A i \in DOMAIN writes : Named(writes[i])) /\ old \in BOOLEAN
BudgetType  == budget \in 0..MaxFaults

TaskTypes == RowTypes /\ LedgerTypes /\ QueueTypes /\ WorkerTypes /\ ProcTypes /\ ServerTypes /\ BudgetType

\* Before the row is inserted there is nothing else of the task, and before the
\* charge nothing but the row, if the sweep comes no earlier than it should.
NothingYet ==
    /\ jobs = EmptyBag /\ running = EmptyBag /\ results = EmptyBag /\ writes = <<>>
    /\ upstream = 0 /\ charged = {} /\ refunded = {}
    /\ \A p \in Actor : pc[p] # "idle" => p = "api"

InsertedFirst ==
    /\ pc["api"] \in {"start", "insert"} => status = "none"
    /\ pc["api"] \in CreateStep \ {"start", "insert"} => status # "none"
    /\ status = "none" \/ (pc["api"] = "charge" /\ "slow" \notin Env) => NothingYet

\* An attempt was refunded.  The first is known by its row, whose charge a crash
\* may prevent; a later one is known of only when it was charged.
Back(a)  == RefundsOf(a) # {}
Known(a) == a = 1 \/ a \in charged

\* A result is of an attempt that was charged, and one that says that the attempt
\* cost nothing comes after its refund.  (The last channel has no next one.)
Told(m) ==
    /\ m.attempt \in charged
    /\ m.credits = 0 /\ m.attempt < Channels => Back(m.attempt)
    /\ m.outcome = "async" => m.attempt \in Async

\* An attempt is charged after the charge and the refund of all before it.
ChargedInOrder ==
    /\ \A a \in charged : \A b \in Attempt : b < a => b \in charged /\ Back(b)
    /\ \A a \in Attempt : Back(a) => Known(a)

MessagesTell ==
    /\ \A j \in BagToSet(jobs) \cup BagToSet(running) : j.attempt \in charged
    /\ \A m \in BagToSet(results) : Told(m)
    /\ \A i \in DOMAIN writes : Told(writes[i])

\* What a goroutine knows of the attempts it works on.
Tells(p) ==
    /\ p # "cleaner" => Told(res[p])
    /\ pc[p] \in RetryStep => Back(res[p].attempt)
    /\ pc[p] \in {"retryUpdate", "retryPublish"} => res[p].attempt + 1 \in charged
    /\ pc[p] \in FailStep => Known(arg[p].attempt)
    /\ pc[p] = "failZero" => Back(arg[p].attempt)

ActorsTell ==
    /\ \A p \in Actor : pc[p] \in ProcessStep => Tells(p)
    /\ pc["api"] \in {"publish", "pubFail", "pubRefund", "mark"} => 1 \in charged

\* The channels that are polled have no next one.
OnlyLastPolled == Async \subseteq {Channels}

RowTells ==
    /\ Known(attempt)
    /\ upstream # 0 => 1 \in charged
    /\ IF OnlyLastPolled THEN upstream # 0 => Channels \in charged
       ELSE status # "none" /\ credits = 0 /\ attempt < Channels => Back(attempt)

GivenBackFirst == ChargedInOrder /\ MessagesTell /\ ActorsTell /\ RowTells

-----------------------------------------------------------------------------
(***************************************************************************)
(* Facts about the building blocks.                                        *)
(***************************************************************************)

\* A message alone, more of them, fewer of them.
LEMMA OneBag ==
    ASSUME NEW m
    PROVE  IsABag(One(m)) /\ BagToSet(One(m)) = {m}
BY DEF One, SetToBag, IsABag, BagToSet

LEMMA NoBag == IsABag(EmptyBag) /\ BagToSet(EmptyBag) = {}
BY DEF EmptyBag, SetToBag, IsABag, BagToSet

LEMMA MoreInBag ==
    ASSUME NEW A, NEW B, IsABag(A), IsABag(B)
    PROVE  IsABag(A (+) B) /\ BagToSet(A (+) B) = BagToSet(A) \cup BagToSet(B)
<1>1. \A e \in DOMAIN A : A[e] \in Nat /\ A[e] > 0
  BY DEF IsABag
<1>2. \A e \in DOMAIN B : B[e] \in Nat /\ B[e] > 0
  BY DEF IsABag
<1> QED
  BY <1>1, <1>2 DEF IsABag, BagToSet, (+)

LEMMA LessInBag ==
    ASSUME NEW A, NEW B, IsABag(A), IsABag(B)
    PROVE  IsABag(A (-) B) /\ BagToSet(A (-) B) \subseteq BagToSet(A)
<1>1. \A e \in DOMAIN A : A[e] \in Nat
  BY DEF IsABag
<1>2. \A e \in DOMAIN B : B[e] \in Nat
  BY DEF IsABag
<1> QED
  BY <1>1, <1>2 DEF IsABag, BagToSet, (-)

\* The copy that comes again is the message with one delivery less, if any was left.
LEMMA AgainBag ==
    ASSUME NEW m
    PROVE  /\ IsABag(Again(m))
           /\ BagToSet(Again(m)) = IF m.left = 0 THEN {} ELSE {[m EXCEPT !.left = @ - 1]}
BY OneBag, NoBag DEF Again

LEMMA FewerDeliveries ==
    ASSUME NEW n \in 0..MaxDeliver - 1, n # 0
    PROVE  n - 1 \in 0..MaxDeliver - 1
BY TaskAssumption

LEMMA ConstantTypes ==
    /\ Channels \in Nat \ {0} /\ Keys \in Nat /\ MaxDeliver \in Nat \ {0} /\ MaxFaults \in Nat
    /\ 0 \in 0..MaxDeliver - 1 /\ MaxDeliver - 1 \in 0..MaxDeliver - 1
    /\ 0 \in 0..Keys /\ 1 \in Attempt /\ Attempt \subseteq Nat
    /\ {"api", "poller", "cleaner"} \subseteq Actor /\ Handler \subseteq Actor
    /\ "api" \notin Handler /\ "poller" \notin Handler /\ "cleaner" \notin Handler
BY TaskAssumption DEF Attempt, Actor

LEMMA ReplyType ==
    ASSUME BudgetType, NEW fault, NEW reply \in Replies(fault), Answer(reply)
    PROVE  reply \in {"ok", "error"} /\ BudgetType'
BY TaskAssumption DEF BudgetType, Replies, Answer

LEMMA FaultType ==
    ASSUME BudgetType, NEW kind, Fault(kind)
    PROVE  BudgetType'
BY TaskAssumption DEF BudgetType, Fault

LEMMA NewJobType ==
    ASSUME NEW a \in Attempt, NEW tried \in 0..Keys
    PROVE  NewJob(a, tried) \in Job /\ NewJob(a, tried).attempt = a /\ NewJob(a, tried).tried = tried
BY ConstantTypes DEF NewJob, Job

LEMMA FailedResultType ==
    ASSUME NEW a \in Attempt, NEW n \in {0, 1}, NEW text \in Reason
    PROVE  /\ FailedResult([attempt |-> a, credits |-> n], text) \in Result
           /\ FailedResult([attempt |-> a, credits |-> n], text).attempt = a
           /\ FailedResult([attempt |-> a, credits |-> n], text).credits = n
BY ConstantTypes DEF FailedResult, Result, Outcome

\* The poller makes its result of a result made of the row.
LEMMA PolledResultType ==
    ASSUME NEW r \in Result, NEW text \in Reason
    PROVE  /\ FailedResult(r, text) \in Result
           /\ FailedResult(r, text).attempt = r.attempt /\ FailedResult(r, text).credits = r.credits
BY ConstantTypes DEF FailedResult, Result, Outcome

\* A goroutine goes to a step of its kind.
LEMMA GotoType ==
    ASSUME ProcTypes, NEW p \in Actor, NEW s \in {"idle"} \cup CreateStep \cup ProcessStep, Goto(p, s),
           IF p = "api" THEN s \notin ProcessStep ELSE s \notin CreateStep,
           Fits(res[p], s), UNCHANGED <<res, asked>>, arg' \in [Actor -> Blame]
    PROVE  ProcTypes'
<1>1. /\ pc' \in [Actor -> {"idle"} \cup CreateStep \cup ProcessStep]
      /\ \A q \in Actor : pc'[q] = IF q = p THEN s ELSE pc[q]
  BY DEF Goto, ProcTypes
<1> QED
  BY <1>1, ConstantTypes DEF ProcTypes

LEMMA CallFailType ==
    ASSUME ProcTypes, NEW p \in Actor, p # "api", NEW a \in Attempt, NEW n \in {0, 1}, NEW text \in Reason,
           CallFail(p, a, n, text), UNCHANGED <<res, asked>>
    PROVE  ProcTypes'
<1>1. [attempt |-> a, credits |-> n, text |-> text] \in Blame
  BY DEF Blame
<1>2. arg' \in [Actor -> Blame]
  BY <1>1 DEF CallFail, ProcTypes
<1>3. "fail" \in ProcessStep /\ "fail" \notin CreateStep /\ Fits(res[p], "fail")
  BY DEF ProcessStep, CreateStep, Fits, NextStep, RetryStep
<1> QED
  BY <1>2, <1>3, GotoType DEF CallFail

\* What a handler works on, and what it blames.
LEMMA HeldType ==
    ASSUME ProcTypes, NEW p \in Actor
    PROVE  /\ res[p] \in Result /\ res[p].attempt \in Attempt /\ res[p].credits \in {0, 1}
           /\ res[p].tried \in 0..Keys /\ res[p].left \in 0..MaxDeliver - 1
           /\ res[p].text \in Reason
           /\ arg[p] \in Blame /\ arg[p].attempt \in Attempt /\ arg[p].text \in Reason
BY DEF ProcTypes, Result, Blame

\* The texts of the server itself.
LEMMA FailureNamed ==
    {"channelRetry", "publishError", "unpublished", "stale", "aged", "polled"} \subseteq Reason
BY DEF Reason

-----------------------------------------------------------------------------

(***************************************************************************)
(* Type correctness.                                                       *)
(***************************************************************************)

LEMMA InitTypes == Init => TaskTypes
<1> SUFFICES ASSUME Init PROVE TaskTypes
  OBVIOUS
<1>1. NoResult \in Result /\ NoResult.text \in Reason /\ NoBlame \in Blame
  BY ConstantTypes, FailureNamed DEF NoResult, NoBlame, Result, Blame, Outcome
<1>2. RowTypes /\ LedgerTypes /\ BudgetType
  BY ConstantTypes DEF Init, RowTypes, LedgerTypes, BudgetType
<1>3. QueueTypes /\ WorkerTypes
  BY NoBag DEF Init, QueueTypes, WorkerTypes
<1>4. \A p \in Actor : pc[p] = IF p = "api" THEN "start" ELSE "idle"
  BY DEF Init
<1>5. ProcTypes
  BY <1>1, <1>4, ConstantTypes DEF Init, ProcTypes, CreateStep, ProcessStep, Fits, NextStep, RetryStep
<1>6. ServerTypes
  <2>1. writes = <<>> /\ old = FALSE
    BY DEF Init
  <2>2. writes \in Seq(Result)
    BY <2>1
  <2>3. DOMAIN writes = {}
    BY <2>1
  <2> QED
    BY <2>1, <2>2, <2>3 DEF ServerTypes
<1> QED
  BY <1>2, <1>3, <1>5, <1>6 DEF TaskTypes

\* An UPDATE of these columns whose error is not looked at.
LEMMA UncheckedRow ==
    ASSUME RowTypes, BudgetType, NEW s \in {"pending", "processing", "done", "failed"} \cup {status},
           NEW a \in Attempt, NEW n \in {0, 1},
           Unchecked(SetRow(s, a, n) /\ UNCHANGED upstream)
    PROVE  RowTypes' /\ BudgetType'
<1>1. PICK reply \in Replies("db") :
        Answer(reply) /\ (IF reply = "ok" THEN SetRow(s, a, n) /\ UNCHANGED upstream ELSE UNCHANGED rowVars)
  BY DEF Unchecked
<1> QED
  BY <1>1, ReplyType DEF RowTypes, SetRow, rowVars

LEMMA UncheckedStatus ==
    ASSUME RowTypes, BudgetType, NEW s \in {"pending", "processing", "done", "failed"}, Unchecked(SetStatus(s))
    PROVE  RowTypes' /\ BudgetType'
<1>1. PICK reply \in Replies("db") :
        Answer(reply) /\ (IF reply = "ok" THEN SetStatus(s) ELSE UNCHANGED rowVars)
  BY DEF Unchecked
<1> QED
  BY <1>1, ReplyType DEF RowTypes, SetStatus, rowVars

\* What a step leaves alone keeps its type.
LEMMA TypesKept ==
    /\ RowTypes /\ UNCHANGED rowVars => RowTypes'
    /\ LedgerTypes /\ UNCHANGED ledgerVars => LedgerTypes'
    /\ QueueTypes /\ UNCHANGED queueVars => QueueTypes'
    /\ WorkerTypes /\ UNCHANGED workerVars => WorkerTypes'
    /\ ProcTypes /\ UNCHANGED procVars => ProcTypes'
    /\ ServerTypes /\ UNCHANGED <<writes, old>> => ServerTypes'
    /\ BudgetType /\ UNCHANGED budget => BudgetType'
BY DEF RowTypes, rowVars, LedgerTypes, ledgerVars, QueueTypes, queueVars, WorkerTypes, workerVars,
       ProcTypes, procVars, ServerTypes, BudgetType

\* A refund of an attempt.
LEMMA RefundType ==
    ASSUME LedgerTypes, NEW a \in Attempt, NEW reason \in Reason, WriteRefund(a, reason) \/ UNCHANGED refunded,
           UNCHANGED charged
    PROVE  LedgerTypes'
BY DEF LedgerTypes, WriteRefund

\* A job is published, or not.
LEMMA MoreJobs ==
    ASSUME QueueTypes, NEW a \in Attempt, NEW tried \in 0..Keys, Keys > 0 => tried < Keys,
           jobs' = jobs (+) One(NewJob(a, tried)) \/ UNCHANGED jobs, UNCHANGED results
    PROVE  QueueTypes'
<1>1. NewJob(a, tried) \in Job /\ KeyLeft(NewJob(a, tried))
  BY NewJobType DEF KeyLeft
<1>2. CASE jobs' = jobs (+) One(NewJob(a, tried))
  <2>1. IsABag(jobs') /\ BagToSet(jobs') = BagToSet(jobs) \cup {NewJob(a, tried)}
    BY <1>2, OneBag, MoreInBag DEF QueueTypes
  <2> QED
    BY <1>1, <2>1 DEF QueueTypes
<1>3. CASE UNCHANGED jobs
  BY <1>3 DEF QueueTypes
<1> QED
  BY <1>2, <1>3

LEMMA CreateTypes == TaskTypes /\ CreateTask => TaskTypes'
<1> SUFFICES ASSUME TaskTypes, CreateTask PROVE TaskTypes'
  OBVIOUS
<1> USE DEF TaskTypes
<1>1. "api" \in Actor /\ 1 \in Attempt
  BY ConstantTypes
<1>2. ASSUME NEW s \in {"idle"} \cup CreateStep, Goto("api", s), UNCHANGED <<res, arg, asked>>
      PROVE  ProcTypes'
  <2>1. s \notin ProcessStep
    BY DEF CreateStep, ProcessStep
  <2>2. arg' \in [Actor -> Blame]
    BY <1>2 DEF ProcTypes
  <2>3. Fits(res["api"], s)
    BY DEF CreateStep, Fits, NextStep, RetryStep
  <2> QED
    BY <1>1, <1>2, <2>1, <2>2, <2>3, GotoType
<1>3. {"start", "insert", "charge", "refuse", "publish", "pubFail", "pubRefund", "mark"} \subseteq {"idle"} \cup CreateStep
  BY DEF CreateStep
<1>4. CASE ChargeUser
  BY <1>2, <1>3, <1>4, TypesKept DEF ChargeUser
<1>5. CASE InsertTask
  <2>1. PICK reply \in Replies("db") :
          /\ Answer(reply)
          /\ IF reply = "ok" THEN SetRow("pending", 1, 1) /\ Goto("api", "charge")
             ELSE UNCHANGED rowVars /\ Goto("api", "idle")
    BY <1>5 DEF InsertTask
  <2>2. RowTypes'
    BY <1>1, <1>5, <2>1 DEF InsertTask, RowTypes, SetRow, rowVars
  <2> QED
    BY <1>2, <1>3, <1>5, <2>1, <2>2, ReplyType, TypesKept DEF InsertTask
<1>6. CASE WriteCharge
  <2>1. PICK reply \in Replies("db") :
          /\ Answer(reply)
          /\ charged' = IF reply = "ok" THEN charged \cup {1} ELSE charged
          /\ Goto("api", IF reply = "ok" THEN "publish" ELSE "refuse")
    BY <1>6 DEF WriteCharge
  <2>2. LedgerTypes'
    BY <1>1, <1>6, <2>1 DEF WriteCharge, LedgerTypes
  <2> QED
    BY <1>2, <1>3, <1>6, <2>1, <2>2, ReplyType, TypesKept DEF WriteCharge
<1>7. CASE RefuseTask
  BY <1>2, <1>3, <1>7, UncheckedStatus, TypesKept DEF RefuseTask
<1>8. CASE PublishTask
  <2>1. PICK reply \in Replies("publish") :
          /\ Answer(reply)
          /\ jobs' = IF reply = "ok" THEN jobs (+) One(NewJob(1, 0)) ELSE jobs
          /\ Goto("api", IF reply = "ok" THEN "mark" ELSE "pubFail")
    BY <1>8 DEF PublishTask
  <2>2. 0 \in 0..Keys /\ (Keys > 0 => 0 < Keys)
    BY ConstantTypes
  <2>3. QueueTypes'
    BY <1>1, <1>8, <2>1, <2>2, MoreJobs DEF PublishTask
  <2> QED
    BY <1>2, <1>3, <1>8, <2>1, <2>3, ReplyType, TypesKept DEF PublishTask
<1>9. CASE FailUnpublished
  BY <1>2, <1>3, <1>9, UncheckedStatus, TypesKept DEF FailUnpublished
<1>10. CASE RefundUnpublished
  <2>1. PICK reply \in Replies("db") :
          /\ Answer(reply)
          /\ IF reply = "ok" THEN WriteRefund(1, "publishError") ELSE UNCHANGED refunded
    BY <1>10 DEF RefundUnpublished
  <2>2. LedgerTypes'
    BY <1>1, <1>10, <2>1, RefundType, FailureNamed DEF RefundUnpublished
  <2> QED
    BY <1>2, <1>3, <1>10, <2>1, <2>2, ReplyType, TypesKept DEF RefundUnpublished
<1>11. CASE MarkProcessing
  BY <1>2, <1>3, <1>11, UncheckedStatus, TypesKept DEF MarkProcessing
<1> QED
  BY <1>4, <1>5, <1>6, <1>7, <1>8, <1>9, <1>10, <1>11 DEF CreateTask

LEMMA WorkerStepTypes == TaskTypes /\ (TakeJob \/ FinishJob \/ RedeliverJob \/ WorkerDies) => TaskTypes'
<1> SUFFICES ASSUME TaskTypes, TakeJob \/ FinishJob \/ RedeliverJob \/ WorkerDies PROVE TaskTypes'
  OBVIOUS
<1> USE DEF TaskTypes
<1>1. ASSUME NEW j \in BagToSet(running) \cup BagToSet(jobs)
      PROVE  /\ j \in Job /\ KeyLeft(j) /\ j.attempt \in Attempt /\ j.tried \in 0..Keys
             /\ j.left \in 0..MaxDeliver - 1
  BY DEF QueueTypes, WorkerTypes, Job
<1>2. ASSUME NEW j \in BagToSet(running) \cup BagToSet(jobs), NEW n \in 0..MaxDeliver - 1
      PROVE  [j EXCEPT !.left = n] \in Job /\ KeyLeft([j EXCEPT !.left = n])
  <2>1. j \in Job /\ KeyLeft(j)
    BY <1>1
  <2> QED
    BY <2>1 DEF Job, KeyLeft
<1>3. ASSUME NEW j \in BagToSet(running)
      PROVE  /\ IsABag(jobs (+) Again(j)) /\ BagToSet(jobs (+) Again(j)) \subseteq Job
             /\ \A i \in BagToSet(jobs (+) Again(j)) : KeyLeft(i)
  <2>1. BagToSet(jobs (+) Again(j)) = BagToSet(jobs) \cup BagToSet(Again(j)) /\ IsABag(jobs (+) Again(j))
    BY AgainBag, MoreInBag DEF QueueTypes
  <2>2. \A i \in BagToSet(Again(j)) : i \in Job /\ KeyLeft(i)
    <3>1. CASE j.left = 0
      BY <3>1, AgainBag
    <3>2. CASE j.left # 0
      <4>1. j.left - 1 \in 0..MaxDeliver - 1
        BY <1>1, <3>2, FewerDeliveries
      <4>2. BagToSet(Again(j)) = {[j EXCEPT !.left = j.left - 1]}
        BY <3>2, AgainBag
      <4> QED
        BY <1>2, <4>1, <4>2
    <3> QED
      BY <3>1, <3>2
  <2> QED
    BY <2>1, <2>2 DEF QueueTypes
<1>4. ASSUME NEW j \in BagToSet(running)
      PROVE  IsABag(running (-) One(j)) /\ BagToSet(running (-) One(j)) \subseteq BagToSet(running)
  BY OneBag, LessInBag DEF WorkerTypes
<1>5. CASE TakeJob
  <2>1. PICK j \in BagToSet(jobs) : jobs' = jobs (-) One(j) /\ running' = running (+) One(j)
    BY <1>5 DEF TakeJob
  <2>2. IsABag(jobs') /\ BagToSet(jobs') \subseteq BagToSet(jobs)
    BY <2>1, OneBag, LessInBag DEF QueueTypes
  <2>3. IsABag(running') /\ BagToSet(running') = BagToSet(running) \cup {j}
    BY <2>1, OneBag, MoreInBag DEF WorkerTypes
  <2>4. QueueTypes'
    BY <1>5, <2>2 DEF TakeJob, QueueTypes
  <2>5. WorkerTypes'
    BY <1>1, <1>5, <2>3 DEF TakeJob, WorkerTypes
  <2> QED
    BY <1>5, <2>4, <2>5, TypesKept DEF TakeJob
<1>6. CASE FinishJob
  <2>0. PICK j \in BagToSet(running), reply \in Replies("publish") :
          \E outcome \in Outcomes(j) : \E text \in Texts(outcome) :
            /\ Answer(reply)
            /\ running' = running (-) One(j)
            /\ results' = IF reply = "ok" THEN results (+) One(ResultOf(j, outcome, text)) ELSE results
    BY <1>6 DEF FinishJob
  <2>a. PICK outcome \in Outcomes(j) : \E text \in Texts(outcome) :
          /\ Answer(reply)
          /\ running' = running (-) One(j)
          /\ results' = IF reply = "ok" THEN results (+) One(ResultOf(j, outcome, text)) ELSE results
    BY <2>0
  <2>1. PICK text \in Texts(outcome) :
          /\ Answer(reply)
          /\ running' = running (-) One(j)
          /\ results' = IF reply = "ok" THEN results (+) One(ResultOf(j, outcome, text)) ELSE results
    BY <2>a
  <2>2. outcome \in Outcome /\ (outcome \in {"rate_limited", "pool_key_retry"} => Keys > 0)
    BY DEF Outcomes, Outcome
  <2>3. text \in Reason \cup {"none"} /\ (outcome \notin {"done", "async"} => text \in Reason)
    BY DEF Texts, Reason
  <2>4. (IF outcome \in {"rate_limited", "pool_key_retry"} THEN j.tried + 1 ELSE j.tried) \in 0..Keys
    BY <1>1, <2>2, ConstantTypes DEF KeyLeft
  <2>5. ResultOf(j, outcome, text) \in Result /\ Named(ResultOf(j, outcome, text))
    BY <1>1, <2>2, <2>3, <2>4, ConstantTypes DEF ResultOf, Result, Named
  <2>6. IsABag(results') /\ BagToSet(results') \subseteq BagToSet(results) \cup {ResultOf(j, outcome, text)}
    BY <2>1, OneBag, MoreInBag DEF QueueTypes
  <2>7. QueueTypes'
    BY <1>6, <2>5, <2>6 DEF FinishJob, QueueTypes
  <2>8. WorkerTypes'
    BY <1>4, <1>6, <2>1 DEF FinishJob, WorkerTypes
  <2> QED
    BY <1>6, <2>1, <2>7, <2>8, ReplyType, TypesKept DEF FinishJob
<1>7. CASE RedeliverJob
  <2>1. PICK j \in BagToSet(running) : /\ j.left > 0 /\ jobs' = jobs (+) Again(j)
                                      /\ running' = (running (-) One(j)) (+) One([j EXCEPT !.left = 0])
    BY <1>7 DEF RedeliverJob
  <2>2. /\ IsABag(running')
        /\ BagToSet(running') = BagToSet(running (-) One(j)) \cup {[j EXCEPT !.left = 0]}
    BY <1>4, <2>1, OneBag, MoreInBag
  <2>3. [j EXCEPT !.left = 0] \in Job /\ KeyLeft([j EXCEPT !.left = 0])
    BY <1>2, ConstantTypes
  <2>4. WorkerTypes'
    BY <1>4, <1>7, <2>2, <2>3 DEF RedeliverJob, WorkerTypes
  <2>5. QueueTypes'
    BY <1>3, <1>7, <2>1 DEF RedeliverJob, QueueTypes
  <2> QED
    BY <1>7, <2>4, <2>5, FaultType, TypesKept DEF RedeliverJob
<1>8. CASE WorkerDies
  <2>1. PICK j \in BagToSet(running) : jobs' = jobs (+) Again(j) /\ running' = running (-) One(j)
    BY <1>8 DEF WorkerDies
  <2>2. QueueTypes'
    BY <1>3, <1>8, <2>1 DEF WorkerDies, QueueTypes
  <2>3. WorkerTypes'
    BY <1>4, <1>8, <2>1 DEF WorkerDies, WorkerTypes
  <2> QED
    BY <1>8, <2>2, <2>3, FaultType, TypesKept DEF WorkerDies
<1> QED
  BY <1>5, <1>6, <1>7, <1>8

LEMMA FailTypes ==
    ASSUME TaskTypes, NEW p \in Handler \cup {"poller", "cleaner"}, failTaskDB(p)
    PROVE  TaskTypes'
<1> USE DEF TaskTypes
<1>1. p \in Actor /\ p # "api"
  BY ConstantTypes
<1>2. ASSUME NEW s \in {"idle", "failRefund", "failZero"}, Goto(p, s), UNCHANGED <<res, arg, asked>>
      PROVE  ProcTypes'
  <2>1. s \in {"idle"} \cup ProcessStep /\ s \notin CreateStep /\ Fits(res[p], s)
    BY DEF CreateStep, ProcessStep, Fits, NextStep, RetryStep
  <2>2. arg' \in [Actor -> Blame]
    BY <1>2 DEF ProcTypes
  <2> QED
    BY <1>1, <1>2, <2>1, <2>2, GotoType
<1>3. CASE FailTask(p)
  <2>1. PICK reply \in Replies("db") :
          /\ Answer(reply)
          /\ IF reply = "ok" /\ status # "failed"
             THEN SetStatus("failed") /\ Goto(p, IF arg[p].credits > 0 THEN "failRefund" ELSE "idle")
             ELSE UNCHANGED rowVars /\ Goto(p, "idle")
    BY <1>3 DEF FailTask
  <2>2. RowTypes' /\ ProcTypes'
    BY <1>2, <1>3, <2>1 DEF FailTask, RowTypes, SetStatus, rowVars
  <2> QED
    BY <1>3, <2>1, <2>2, ReplyType, TypesKept DEF FailTask
<1>4. CASE FailRefund(p)
  <2>1. PICK reply \in Replies("db") :
          /\ Answer(reply)
          /\ IF reply = "ok" THEN WriteRefund(arg[p].attempt, arg[p].text) ELSE UNCHANGED refunded
          /\ Goto(p, IF reply = "ok" THEN "failZero" ELSE "idle")
    BY <1>4 DEF FailRefund
  <2>2. LedgerTypes'
    BY <1>1, <1>4, <2>1, HeldType, RefundType DEF FailRefund
  <2>3. ProcTypes'
    BY <1>2, <1>4, <2>1 DEF FailRefund
  <2> QED
    BY <1>4, <2>1, <2>2, <2>3, ReplyType, TypesKept DEF FailRefund
<1>5. CASE FailZero(p)
  <2>1. RowTypes' /\ BudgetType'
    BY <1>5, UncheckedRow DEF FailZero, RowTypes
  <2>2. ProcTypes'
    BY <1>2, <1>5 DEF FailZero
  <2> QED
    BY <1>5, <2>1, <2>2, TypesKept DEF FailZero
<1> QED
  BY <1>3, <1>4, <1>5 DEF failTaskDB

\* The calls of a goroutine other than createTask.
LEMMA GoOrFail ==
    ASSUME ProcTypes, NEW p \in Actor, p # "api", UNCHANGED <<res, asked>>,
           \/ /\ UNCHANGED arg
              /\ \E s \in {"idle"} \cup ProcessStep : Goto(p, s) /\ Fits(res[p], s)
           \/ \E a \in Attempt, n \in {0, 1}, text \in Reason : CallFail(p, a, n, text)
    PROVE  ProcTypes'
<1>1. CASE \E a \in Attempt, n \in {0, 1}, text \in Reason : CallFail(p, a, n, text)
  BY <1>1, CallFailType
<1>2. ASSUME UNCHANGED arg, NEW s \in {"idle"} \cup ProcessStep, Goto(p, s), Fits(res[p], s)
      PROVE  ProcTypes'
  <2>1. arg' \in [Actor -> Blame]
    BY <1>2 DEF ProcTypes
  <2>2. s \notin CreateStep
    BY DEF CreateStep, ProcessStep
  <2> QED
    BY <1>2, <2>1, <2>2, GotoType
<1> QED
  BY <1>1, <1>2

LEMMA TakeResultTypes ==
    ASSUME TaskTypes, NEW p \in Handler, TakeResult(p)
    PROVE  TaskTypes'
<1> USE DEF TaskTypes
<1>1. p \in Actor /\ p # "api"
  BY ConstantTypes
<1>2. PICK r \in BagToSet(results) :
        /\ results' = results (-) One(r)
        /\ IF r.outcome \in {"done", "async"}
           THEN writes' = Append(writes, r) /\ UNCHANGED procVars
           ELSE /\ res' = [res EXCEPT ![p] = r]
                /\ Goto(p, CASE r.outcome = "rate_limited"   -> "rotate"
                             [] r.outcome = "pool_key_retry" -> "skip"
                             [] OTHER                        -> "failed")
                /\ UNCHANGED <<arg, asked, writes>>
  BY DEF TakeResult
<1>3. r \in Result /\ Named(r)
  BY DEF QueueTypes
<1>4. IsABag(results') /\ BagToSet(results') \subseteq BagToSet(results)
  BY <1>2, OneBag, LessInBag DEF QueueTypes
<1>5. QueueTypes'
  BY <1>4 DEF TakeResult, QueueTypes
<1>6. CASE r.outcome \in {"done", "async"}
  <2>1. writes' = Append(writes, r) /\ UNCHANGED procVars
    BY <1>2, <1>6
  <2>2. writes' \in Seq(Result) /\ \A i \in DOMAIN writes' : writes'[i] = r \/ (i \in DOMAIN writes /\ writes'[i] = writes[i])
    BY <1>3, <2>1 DEF ServerTypes
  <2>3. ServerTypes'
    BY <1>3, <2>2 DEF ServerTypes, TakeResult
  <2> QED
    BY <1>5, <2>1, <2>3, TypesKept DEF TakeResult
<1>7. CASE r.outcome \notin {"done", "async"}
  <2>1. PICK s \in {"rotate", "skip", "failed"} : Goto(p, s)
    BY <1>2, <1>7
  <2>2. s \in ProcessStep /\ s \notin CreateStep /\ Fits(r, s)
    BY DEF ProcessStep, CreateStep, Fits, NextStep, RetryStep
  <2>3. \A q \in Actor : pc'[q] = IF q = p THEN s ELSE pc[q]
    BY <2>1 DEF Goto, ProcTypes
  <2>4. res' = [res EXCEPT ![p] = r] /\ UNCHANGED <<arg, asked, writes>>
    BY <1>2, <1>7
  <2>5. res' \in [Actor -> Result] /\ \A q \in Actor : res'[q] = IF q = p THEN r ELSE res[q]
    BY <1>1, <1>3, <2>4 DEF ProcTypes
  <2>6. pc' \in [Actor -> {"idle"} \cup CreateStep \cup ProcessStep]
    BY <2>1, <2>2 DEF Goto, ProcTypes
  <2>7. r.text \in Reason
    BY <1>3, <1>7 DEF Named
  <2>8. \A q \in Actor : Fits(res'[q], pc'[q])
    BY <2>2, <2>3, <2>5 DEF ProcTypes
  <2>9. ProcTypes'
    BY <1>1, <2>2, <2>3, <2>4, <2>5, <2>6, <2>7, <2>8, ConstantTypes DEF ProcTypes
  <2> QED
    BY <1>5, <2>4, <2>9, TypesKept DEF TakeResult
<1> QED
  BY <1>6, <1>7

\* The steps of a handler that find a channel or a key for the task.
LEMMA FindTypes ==
    ASSUME TaskTypes, NEW p \in Handler,
           RotateKey(p) \/ SkipKey(p) \/ Republish(p) \/ FailedResultArrives(p)
    PROVE  TaskTypes'
<1> USE DEF TaskTypes
<1>1. p \in Actor /\ p # "api"
  BY ConstantTypes
<1>2. /\ res[p].attempt \in Attempt /\ res[p].credits \in {0, 1} /\ res[p].text \in Reason /\ res[p].tried \in 0..Keys
      /\ {"skip", "republish", "failed", "retryRefund", "retryCharge"} \subseteq ProcessStep
      /\ Fits(res[p], "idle") /\ Fits(res[p], "skip") /\ Fits(res[p], "failed")
  BY <1>1, HeldType DEF ProcessStep, Fits, NextStep, RetryStep
<1>3. CASE RotateKey(p)
  <2>1. CASE Goto(p, "skip") /\ UNCHANGED <<jobs, arg, budget>>
    <3>1. ProcTypes'
      BY <1>1, <1>2, <1>3, <2>1, GoOrFail DEF RotateKey
    <3> QED
      BY <1>3, <2>1, <3>1, TypesKept DEF RotateKey, queueVars
  <2>2. ASSUME res[p].tried < Keys, NEW reply \in Replies("publish"), Answer(reply),
               IF reply = "ok"
               THEN jobs' = jobs (+) One(NewJob(res[p].attempt, res[p].tried)) /\ Goto(p, "idle") /\ UNCHANGED arg
               ELSE CallFail(p, res[p].attempt, res[p].credits, "unpublished") /\ UNCHANGED jobs
        PROVE  TaskTypes'
    <3>1. QueueTypes'
      BY <1>2, <1>3, <2>2, MoreJobs DEF RotateKey
    <3>2. ProcTypes'
      BY <1>1, <1>2, <1>3, <2>2, GoOrFail, FailureNamed DEF RotateKey
    <3> QED
      BY <1>3, <2>2, <3>1, <3>2, ReplyType, TypesKept DEF RotateKey
  <2> QED
    BY <1>3, <2>1, <2>2 DEF RotateKey
<1>4. CASE SkipKey(p)
  <2>1. CASE res[p].tried < Keys /\ Unchecked(SetStatus("processing")) /\ Goto(p, "republish")
    <3>1. ProcTypes'
      BY <1>1, <1>2, <1>4, <2>1, GoOrFail DEF SkipKey, KeyLeft, Fits, NextStep, RetryStep
    <3> QED
      BY <1>4, <2>1, <3>1, UncheckedStatus, TypesKept DEF SkipKey
  <2>2. CASE Goto(p, "failed") /\ UNCHANGED <<rowVars, budget>>
    <3>1. ProcTypes'
      BY <1>1, <1>2, <1>4, <2>2, GoOrFail DEF SkipKey
    <3> QED
      BY <1>4, <2>2, <3>1, TypesKept DEF SkipKey
  <2> QED
    BY <1>4, <2>1, <2>2 DEF SkipKey
<1>5. CASE Republish(p)
  <2>1. PICK reply \in Replies("publish") :
          /\ Answer(reply)
          /\ IF reply = "ok"
             THEN jobs' = jobs (+) One(NewJob(res[p].attempt, res[p].tried)) /\ Goto(p, "idle") /\ UNCHANGED arg
             ELSE CallFail(p, res[p].attempt, res[p].credits, "unpublished") /\ UNCHANGED jobs
    BY <1>5 DEF Republish
  <2>2. Keys > 0 => res[p].tried < Keys
    BY <1>1, <1>5 DEF Republish, ProcTypes, KeyLeft, Fits
  <2>3. QueueTypes'
    BY <1>2, <1>5, <2>1, <2>2, MoreJobs DEF Republish
  <2>4. ProcTypes'
    BY <1>1, <1>2, <1>5, <2>1, GoOrFail, FailureNamed DEF Republish
  <2> QED
    BY <1>5, <2>1, <2>3, <2>4, ReplyType, TypesKept DEF Republish
<1>6. CASE FailedResultArrives(p)
  <2>1. PICK reply \in Replies("db") :
          /\ Answer(reply)
          /\ IF res[p].attempt < Channels /\ reply = "ok"
             THEN Goto(p, IF res[p].credits > 0 THEN "retryRefund" ELSE "retryCharge") /\ UNCHANGED arg
             ELSE CallFail(p, res[p].attempt, res[p].credits, res[p].text)
    BY <1>6 DEF FailedResultArrives
  <2>2. res[p].attempt < Channels => Fits(res[p], "retryRefund") /\ Fits(res[p], "retryCharge")
    BY DEF Fits
  <2>3. ProcTypes'
    BY <1>1, <1>2, <1>6, <2>1, <2>2, GoOrFail DEF FailedResultArrives
  <2> QED
    BY <1>6, <2>1, <2>3, ReplyType, TypesKept DEF FailedResultArrives
<1> QED
  BY <1>3, <1>4, <1>5, <1>6

\* The steps of a handler that has a next channel.
LEMMA RetryTypes ==
    ASSUME TaskTypes, NEW p \in Handler,
           RetryRefund(p) \/ RetryZero(p) \/ RetryCharge(p) \/ RetryWrite(p) \/ RetryUpdate(p) \/ RetryPublish(p)
    PROVE  TaskTypes'
<1> USE DEF TaskTypes
<1>1. p \in Actor /\ p # "api"
  BY ConstantTypes
<1>2. pc[p] \in NextStep
  BY DEF RetryRefund, RetryZero, RetryCharge, RetryWrite, RetryUpdate, RetryPublish, NextStep, RetryStep
<1>3. res[p].attempt \in Attempt /\ res[p].text \in Reason /\ res[p].attempt < Channels
  BY <1>1, <1>2, HeldType DEF ProcTypes, Fits
<1>4. res[p].attempt + 1 \in Attempt
  BY <1>3, ConstantTypes DEF Attempt
<1>5. /\ {"retryZero", "retryCharge", "retryWrite", "retryUpdate", "retryPublish"} \subseteq ProcessStep
      /\ \A s \in {"idle", "retryZero", "retryCharge", "retryWrite", "retryUpdate", "retryPublish"} : Fits(res[p], s)
  BY <1>3 DEF ProcessStep, Fits
<1>6. CASE RetryRefund(p)
  <2>1. PICK reply \in Replies("db") :
          /\ Answer(reply)
          /\ IF reply = "ok"
             THEN WriteRefund(res[p].attempt, "channelRetry") /\ Goto(p, "retryZero") /\ UNCHANGED arg
             ELSE CallFail(p, res[p].attempt, 0, res[p].text) /\ UNCHANGED refunded
    BY <1>6 DEF RetryRefund
  <2>2. LedgerTypes'
    BY <1>3, <1>6, <2>1, RefundType, FailureNamed DEF RetryRefund
  <2>3. ProcTypes'
    BY <1>1, <1>3, <1>5, <1>6, <2>1, GoOrFail DEF RetryRefund
  <2> QED
    BY <1>6, <2>1, <2>2, <2>3, ReplyType, TypesKept DEF RetryRefund
<1>7. CASE RetryZero(p)
  <2>1. RowTypes' /\ BudgetType'
    BY <1>7, UncheckedRow DEF RetryZero, RowTypes
  <2>2. ProcTypes'
    BY <1>1, <1>5, <1>7, GoOrFail DEF RetryZero
  <2> QED
    BY <1>7, <2>1, <2>2, TypesKept DEF RetryZero
<1>8. CASE RetryCharge(p)
  <2>1. ProcTypes'
    BY <1>1, <1>3, <1>5, <1>8, GoOrFail DEF RetryCharge
  <2> QED
    BY <1>8, <2>1, TypesKept DEF RetryCharge
<1>9. CASE RetryWrite(p)
  <2>1. PICK reply \in Replies("db") :
          /\ Answer(reply)
          /\ IF reply = "ok" /\ res[p].attempt + 1 \notin charged
             THEN /\ charged' = charged \cup {res[p].attempt + 1}
                  /\ Goto(p, "retryUpdate") /\ UNCHANGED arg
             ELSE CallFail(p, res[p].attempt, 0, res[p].text) /\ UNCHANGED charged
    BY <1>9 DEF RetryWrite
  <2>2. LedgerTypes'
    BY <1>4, <1>9, <2>1 DEF RetryWrite, LedgerTypes
  <2>3. ProcTypes'
    BY <1>1, <1>3, <1>5, <1>9, <2>1, GoOrFail DEF RetryWrite
  <2> QED
    BY <1>9, <2>1, <2>2, <2>3, ReplyType, TypesKept DEF RetryWrite
<1>10. CASE RetryUpdate(p)
  <2>1. RowTypes' /\ BudgetType'
    BY <1>4, <1>10, UncheckedRow DEF RetryUpdate
  <2>2. ProcTypes'
    BY <1>1, <1>5, <1>10, GoOrFail DEF RetryUpdate
  <2> QED
    BY <1>10, <2>1, <2>2, TypesKept DEF RetryUpdate
<1>11. CASE RetryPublish(p)
  <2>1. PICK reply \in Replies("publish") :
          /\ Answer(reply)
          /\ IF reply = "ok"
             THEN jobs' = jobs (+) One(NewJob(res[p].attempt + 1, 0)) /\ Goto(p, "idle") /\ UNCHANGED arg
             ELSE CallFail(p, res[p].attempt + 1, 1, "unpublished") /\ UNCHANGED jobs
    BY <1>11 DEF RetryPublish
  <2>2. 0 \in 0..Keys /\ (Keys > 0 => 0 < Keys)
    BY ConstantTypes
  <2>3. QueueTypes'
    BY <1>4, <1>11, <2>1, <2>2, MoreJobs DEF RetryPublish
  <2>4. ProcTypes'
    BY <1>1, <1>4, <1>5, <1>11, <2>1, GoOrFail, FailureNamed DEF RetryPublish
  <2> QED
    BY <1>11, <2>1, <2>3, <2>4, ReplyType, TypesKept DEF RetryPublish
<1> QED
  BY <1>6, <1>7, <1>8, <1>9, <1>10, <1>11

\* More deliveries of a result change nothing but the deliveries left.
LEMMA DeliveriesLeft ==
    ASSUME NEW r \in Result, NEW n \in 0..MaxDeliver - 1
    PROVE  /\ [r EXCEPT !.left = n] \in Result
           /\ [r EXCEPT !.left = n].attempt = r.attempt /\ [r EXCEPT !.left = n].credits = r.credits
           /\ [r EXCEPT !.left = n].text = r.text /\ [r EXCEPT !.left = n].outcome = r.outcome
           /\ [r EXCEPT !.left = n].tried = r.tried
           /\ [[r EXCEPT !.left = n] EXCEPT !.left = r.left] = r
BY DEF Result

LEMMA AgainResult ==
    ASSUME NEW r \in Result, Named(r), r.left > 0
    PROVE  /\ IsABag(Again(r)) /\ BagToSet(Again(r)) = {[r EXCEPT !.left = r.left - 1]}
           /\ [r EXCEPT !.left = r.left - 1] \in Result /\ Named([r EXCEPT !.left = r.left - 1])
<1>1. r.left \in 0..MaxDeliver - 1 /\ r.left # 0
  BY DEF Result
<1>2. r.left - 1 \in 0..MaxDeliver - 1
  BY <1>1, FewerDeliveries
<1> QED
  BY <1>1, <1>2, AgainBag, DeliveriesLeft DEF Named

\* Results are published, or come again.
LEMMA MoreResults ==
    ASSUME QueueTypes, NEW B, IsABag(B), \A m \in BagToSet(B) : m \in Result /\ Named(m),
           results' = results (+) B, UNCHANGED jobs
    PROVE  QueueTypes' /\ BagToSet(results') = BagToSet(results) \cup BagToSet(B)
<1>1. IsABag(results') /\ BagToSet(results') = BagToSet(results) \cup BagToSet(B)
  BY MoreInBag DEF QueueTypes
<1> QED
  BY <1>1 DEF QueueTypes

LEMMA RedeliverResultTypes == TaskTypes /\ RedeliverResult => TaskTypes'
<1> SUFFICES ASSUME TaskTypes, RedeliverResult PROVE TaskTypes'
  OBVIOUS
<1> USE DEF TaskTypes
<1>0. BudgetType' /\ 0 \in 0..MaxDeliver - 1
  BY FaultType, ConstantTypes DEF RedeliverResult
<1>1. ASSUME NEW p \in Handler, pc[p] # "idle", res[p].left > 0, results' = results (+) Again(res[p]),
             res' = [res EXCEPT ![p].left = 0], UNCHANGED writes
      PROVE  TaskTypes'
  <2>1. p \in Actor /\ res[p] \in Result /\ Named(res[p]) /\ res[p].text \in Reason
    BY ConstantTypes, HeldType DEF Named
  <2>2. QueueTypes'
    BY <1>1, <2>1, AgainResult, MoreResults DEF RedeliverResult
  <2> DEFINE copy == [res[p] EXCEPT !.left = 0]
  <2>3. copy \in Result /\ copy.text = res[p].text /\ copy.tried = res[p].tried /\ copy.attempt = res[p].attempt
    BY <1>0, <2>1, DeliveriesLeft
  <2>4. res' = [res EXCEPT ![p] = copy]
    BY <1>1
  <2> HIDE DEF copy
  <2>5. res' \in [Actor -> Result]
    BY <2>1, <2>3, <2>4 DEF ProcTypes
  <2>6. \A q \in Actor : res'[q].text = res[q].text /\ res'[q].tried = res[q].tried /\ res'[q].attempt = res[q].attempt
    BY <2>3, <2>4 DEF ProcTypes
  <2>7. ProcTypes'
    BY <2>5, <2>6 DEF RedeliverResult, ProcTypes, Fits, KeyLeft
  <2> QED
    BY <1>0, <1>1, <2>2, <2>7, TypesKept DEF RedeliverResult
<1>2. ASSUME NEW i \in DOMAIN writes, writes[i].left > 0, results' = results (+) Again(writes[i]),
             writes' = [writes EXCEPT ![i].left = 0], UNCHANGED res
      PROVE  TaskTypes'
  <2>1. writes[i] \in Result /\ Named(writes[i])
    BY DEF ServerTypes
  <2>2. QueueTypes'
    BY <1>2, <2>1, AgainResult, MoreResults DEF RedeliverResult
  <2>3. [writes[i] EXCEPT !.left = 0] \in Result /\ Named([writes[i] EXCEPT !.left = 0])
    BY <1>0, <2>1, DeliveriesLeft DEF Named
  <2>4. writes' \in Seq(Result) /\ DOMAIN writes' = DOMAIN writes
    BY <1>2, <2>3 DEF ServerTypes
  <2>5. \A j \in DOMAIN writes : writes'[j] = IF j = i THEN [writes[i] EXCEPT !.left = 0] ELSE writes[j]
    BY <1>2
  <2>6. ServerTypes'
    BY <2>3, <2>4, <2>5 DEF RedeliverResult, ServerTypes
  <2> QED
    BY <1>0, <1>2, <2>2, <2>6, TypesKept DEF RedeliverResult, procVars
<1> QED
  BY <1>1, <1>2 DEF RedeliverResult

LEMMA FlushTypes == TaskTypes /\ FlushBatch => TaskTypes'
<1> SUFFICES ASSUME TaskTypes, FlushBatch PROVE TaskTypes'
  OBVIOUS
<1> USE DEF TaskTypes
<1>1. PICK n \in 1..Len(writes) :
        LET batch == {writes[i] : i \in 1..n} IN
        \E lost \in SUBSET {r.outcome : r \in batch} :
        LET asyncs == {r \in batch : r.outcome = "async" /\ "async" \notin lost} IN
        /\ lost # {} => "db" \in Env /\ Cardinality(lost) <= budget
        /\ budget' = budget - Cardinality(lost)
        /\ writes' = SubSeq(writes, n + 1, Len(writes))
        /\ \/ /\ asyncs # {}
              /\ SetRow("processing", attempt, credits)
              /\ \E r \in asyncs : upstream' = r.attempt
           \/ /\ asyncs = {} /\ \E r \in batch : r.outcome = "done" /\ "done" \notin lost
              /\ SetStatus("done")
           \/ /\ {r.outcome : r \in batch} = lost
              /\ UNCHANGED rowVars
  BY DEF FlushBatch
<1> DEFINE batch == {writes[i] : i \in 1..n}
<1>2. batch \subseteq Result
  BY DEF ServerTypes
<1>3. PICK lost \in SUBSET {r.outcome : r \in batch} :
        /\ lost # {} => Cardinality(lost) <= budget
        /\ budget' = budget - Cardinality(lost)
        /\ writes' = SubSeq(writes, n + 1, Len(writes))
        /\ \/ SetRow("processing", attempt, credits) /\ \E r \in batch : upstream' = r.attempt
           \/ SetStatus("done")
           \/ UNCHANGED rowVars
  BY <1>1
<1> HIDE DEF batch
<1>4. lost \subseteq Outcome
  BY <1>2, <1>3 DEF Result
<1>5. IsFiniteSet(Outcome)
  <2>1. \A S, e : IsFiniteSet(S) => IsFiniteSet(S \cup {e})
    BY FS_AddElement
  <2>2. IsFiniteSet({"done", "async"})
    <3>1. IsFiniteSet({} \cup {"done"})
      BY <2>1, FS_EmptySet
    <3>2. IsFiniteSet(({} \cup {"done"}) \cup {"async"})
      BY <2>1, <3>1
    <3>3. ({} \cup {"done"}) \cup {"async"} = {"done", "async"}
      OBVIOUS
    <3> QED
      BY <3>2, <3>3
  <2>3. IsFiniteSet({"done", "async"} \cup {"rate_limited"})
    BY <2>1, <2>2
  <2>4. IsFiniteSet(({"done", "async"} \cup {"rate_limited"}) \cup {"pool_key_retry"})
    BY <2>1, <2>3
  <2>5. IsFiniteSet((({"done", "async"} \cup {"rate_limited"}) \cup {"pool_key_retry"}) \cup {"failed"})
    BY <2>1, <2>4
  <2>6. (({"done", "async"} \cup {"rate_limited"}) \cup {"pool_key_retry"}) \cup {"failed"} = Outcome
    BY DEF Outcome
  <2> QED
    BY <2>5, <2>6
<1>6. Cardinality(lost) \in Nat /\ (lost = {} => Cardinality(lost) = 0)
  BY <1>4, <1>5, FS_Subset, FS_CardinalityType, FS_EmptySet
<1>7. BudgetType'
  BY <1>3, <1>6, TaskAssumption DEF BudgetType
<1>8. RowTypes'
  BY <1>2, <1>3, ConstantTypes DEF RowTypes, SetRow, SetStatus, rowVars, Result, Attempt
<1>9. writes' \in Seq(Result) /\ \A i \in DOMAIN writes' : \E j \in DOMAIN writes : writes'[i] = writes[j]
  BY <1>3 DEF ServerTypes
<1>10. ServerTypes'
  BY <1>9 DEF ServerTypes, FlushBatch
<1> QED
  BY <1>7, <1>8, <1>10, TypesKept DEF FlushBatch

LEMMA SweepTypes == TaskTypes /\ (CleanStaleTask \/ PollTask) => TaskTypes'
<1> SUFFICES ASSUME TaskTypes, CleanStaleTask \/ PollTask PROVE TaskTypes'
  OBVIOUS
<1> USE DEF TaskTypes
<1>1. "stale" \in Reason /\ {"poller", "cleaner"} \subseteq Actor
  BY FailureNamed, ConstantTypes
<1>2. FailedResult(Row, "stale") \in Result /\ FailedResult(Row, "stale").text = "stale"
  BY <1>1, FailedResultType DEF Row, RowTypes, FailedResult
<1>3. ASSUME NEW p \in {"poller", "cleaner"}, ReadRow(p), NEW s \in {"poll", "fail"}, Goto(p, s),
             arg' \in [Actor -> Blame], asked' \in 0..Channels
      PROVE  ProcTypes'
  <2>1. s \in ProcessStep /\ s \notin CreateStep /\ \A r : Fits(r, s)
    BY DEF ProcessStep, CreateStep, Fits, NextStep, RetryStep
  <2>2. /\ pc' \in [Actor -> {"idle"} \cup CreateStep \cup ProcessStep]
        /\ \A q \in Actor : pc'[q] = IF q = p THEN s ELSE pc[q]
    BY <1>1, <1>3, <2>1 DEF Goto, ProcTypes
  <2>3. /\ res' \in [Actor -> Result]
        /\ \A q \in Actor : res'[q] = IF q = p THEN FailedResult(Row, "stale") ELSE res[q]
    BY <1>1, <1>2, <1>3 DEF ReadRow, ProcTypes
  <2> QED
    BY <1>1, <1>2, <1>3, <2>1, <2>2, <2>3, ConstantTypes DEF ProcTypes
<1>4. CASE CleanStaleTask
  <2>1. [attempt |-> attempt, credits |-> credits, text |-> "stale"] \in Blame
    BY <1>1 DEF RowTypes, Blame
  <2>2. arg' \in [Actor -> Blame] /\ asked' \in 0..Channels
    BY <1>4, <2>1 DEF CleanStaleTask, CallFail, ProcTypes
  <2>3. ProcTypes'
    BY <1>3, <1>4, <2>2 DEF CleanStaleTask, CallFail
  <2> QED
    BY <1>4, <2>3, TypesKept DEF CleanStaleTask
<1>5. CASE PollTask
  <2>1. arg' \in [Actor -> Blame] /\ asked' \in 0..Channels
    BY <1>5 DEF PollTask, ProcTypes, RowTypes
  <2>2. ProcTypes'
    BY <1>3, <1>5, <2>1 DEF PollTask
  <2> QED
    BY <1>5, <2>2, TypesKept DEF PollTask
<1> QED
  BY <1>4, <1>5

LEMMA PollTypes == TaskTypes /\ PollOne => TaskTypes'
<1> SUFFICES ASSUME TaskTypes, PollOne PROVE TaskTypes'
  OBVIOUS
<1> USE DEF TaskTypes
<1>1. "poller" \in Actor /\ "poller" # "api" /\ {"aged", "polled"} \subseteq Reason
  BY FailureNamed, ConstantTypes
<1>2. /\ res["poller"] \in Result /\ res["poller"].attempt \in Attempt /\ res["poller"].credits \in {0, 1}
      /\ Fits(res["poller"], "idle")
  BY <1>1, HeldType DEF Fits, NextStep, RetryStep
<1>3. ASSUME NEW text \in {"aged", "polled"}, PublishFailedResult(text),
             UNCHANGED <<rowVars, ledgerVars, jobs, workerVars, res, asked, writes, old>>
      PROVE  TaskTypes'
  <2>1. PICK reply \in Replies("publish") :
          /\ Answer(reply)
          /\ IF reply = "ok"
             THEN /\ results' = results (+) One(FailedResult(res["poller"], text))
                  /\ Goto("poller", "idle") /\ UNCHANGED arg
             ELSE /\ CallFail("poller", res["poller"].attempt, res["poller"].credits, text)
                  /\ UNCHANGED results
    BY <1>3 DEF PublishFailedResult
  <2>2. ProcTypes'
    BY <1>1, <1>2, <1>3, <2>1, GoOrFail
  <2>3. FailedResult(res["poller"], text) \in Result /\ Named(FailedResult(res["poller"], text))
    BY <1>1, <1>2, PolledResultType DEF FailedResult, Named
  <2>4. QueueTypes'
    <3>1. CASE UNCHANGED results
      BY <1>3, <3>1 DEF QueueTypes
    <3>2. CASE results' = results (+) One(FailedResult(res["poller"], text))
      BY <1>3, <2>3, <3>2, OneBag, MoreResults
    <3> QED
      BY <2>1, <3>1, <3>2
  <2> QED
    BY <1>3, <2>1, <2>2, <2>4, ReplyType, TypesKept
<1>4. CASE PollAged \/ PollFailed
  BY <1>3, <1>4 DEF PollAged, PollFailed
<1>5. CASE PollNothing
  <2>1. ProcTypes'
    BY <1>1, <1>2, <1>5, GoOrFail DEF PollNothing
  <2> QED
    BY <1>5, <2>1, TypesKept DEF PollNothing
<1>6. CASE PollDone
  <2>1. ProcTypes'
    BY <1>1, <1>2, <1>6, GoOrFail DEF PollDone
  <2> QED
    BY <1>6, <2>1, UncheckedStatus, TypesKept DEF PollDone
<1> QED
  BY <1>4, <1>5, <1>6 DEF PollOne

\* What comes again when the server dies: as many copies of each message as were
\* held, with one delivery less, of those that had one left.
LEMMA ServerDiesTypes == TaskTypes /\ ServerDies => TaskTypes'
<1> SUFFICES ASSUME TaskTypes, ServerDies PROVE TaskTypes'
  OBVIOUS
<1> USE DEF TaskTypes
<1> DEFINE unacked == {p \in Handler : pc[p] # "idle"}
           held    == {res[p] : p \in unacked} \cup {writes[i] : i \in DOMAIN writes}
           holders(m) == {p \in unacked : res[p] = m}
           waiting(m) == {i \in DOMAIN writes : writes[i] = m}
           copies  == [m \in held |-> Cardinality(holders(m)) + Cardinality(waiting(m))]
           again   == {m \in held : m.left > 0}
           less(m) == [m EXCEPT !.left = @ - 1]
           more(m) == [m EXCEPT !.left = @ + 1]
           back    == [m \in {less(n) : n \in again} |-> copies[more(m)]]
<1>1. results' = results (+) back
  BY DEF ServerDies
<1>2. ASSUME NEW m \in held PROVE m \in Result /\ Named(m)
  <2>1. \A p \in Handler : res[p] \in Result /\ Named(res[p])
    BY HeldType, ConstantTypes DEF Named
  <2>2. \A i \in DOMAIN writes : writes[i] \in Result /\ Named(writes[i])
    BY DEF ServerTypes
  <2> QED
    BY <2>1, <2>2
<1>3. ASSUME NEW m \in held PROVE copies[m] \in Nat /\ copies[m] > 0
  <2>1. holders(m) \subseteq Handler /\ waiting(m) \subseteq 1..Len(writes)
    BY DEF ServerTypes
  <2>2. IsFiniteSet(holders(m)) /\ IsFiniteSet(waiting(m))
    <3>1. Len(writes) \in Nat
      BY DEF ServerTypes
    <3>2. IsFiniteSet(1..Len(writes))
      BY <3>1, FS_Interval
    <3> QED
      BY <2>1, <3>2, FS_Subset, TaskAssumption
  <2>3. holders(m) # {} \/ waiting(m) # {}
    OBVIOUS
  <2>4. /\ Cardinality(holders(m)) \in Nat /\ Cardinality(waiting(m)) \in Nat
        /\ Cardinality(holders(m)) # 0 \/ Cardinality(waiting(m)) # 0
    BY <2>2, <2>3, FS_CardinalityType, FS_EmptySet
  <2>5. copies[m] = Cardinality(holders(m)) + Cardinality(waiting(m))
    OBVIOUS
  <2> HIDE DEF holders, waiting, copies
  <2> QED
    BY <2>4, <2>5
<1> HIDE DEF copies, held
<1>4. ASSUME NEW n \in again
      PROVE  /\ less(n) \in Result /\ Named(less(n)) /\ more(less(n)) = n
             /\ n \in held
  <2>1. n \in held /\ n.left > 0 /\ n \in Result /\ Named(n)
    BY <1>2
  <2>2. n.left \in 0..MaxDeliver - 1 /\ n.left - 1 \in 0..MaxDeliver - 1
    BY <2>1, FewerDeliveries DEF Result
  <2>3. less(n) \in Result /\ Named(less(n))
    BY <2>1, <2>2, DeliveriesLeft DEF Named
  <2>4. less(n).left + 1 = n.left
    BY <2>1, <2>2 DEF Result
  <2>5. more(less(n)) = [[n EXCEPT !.left = n.left - 1] EXCEPT !.left = n.left]
    BY <2>4
  <2> QED
    BY <2>1, <2>2, <2>3, <2>5, DeliveriesLeft
<1>5. ASSUME NEW m \in {less(n) : n \in again}
      PROVE  m \in Result /\ Named(m) /\ copies[more(m)] \in Nat /\ copies[more(m)] > 0
  BY <1>3, <1>4
<1>6. DOMAIN back = {less(n) : n \in again} /\ \A m \in DOMAIN back : back[m] = copies[more(m)]
  OBVIOUS
<1> HIDE DEF less, more, again
<1>7. IsABag(back) /\ BagToSet(back) = {less(n) : n \in again}
  BY <1>5, <1>6 DEF IsABag, BagToSet
<1>8. QueueTypes'
  BY <1>1, <1>5, <1>7, MoreResults DEF ServerDies
<1>9. ProcTypes'
  <2>1. pc' = [p \in Actor |-> "idle"] /\ UNCHANGED <<res, arg, asked>>
    BY DEF ServerDies
  <2> QED
    BY <2>1, ConstantTypes DEF ProcTypes, CreateStep, ProcessStep, Fits, NextStep, RetryStep
<1>10. ServerTypes'
  <2>1. writes' = <<>> /\ UNCHANGED old
    BY DEF ServerDies
  <2>2. writes' \in Seq(Result) /\ DOMAIN writes' = {}
    BY <2>1
  <2> QED
    BY <2>1, <2>2 DEF ServerTypes
<1> QED
  BY <1>8, <1>9, <1>10, FaultType, TypesKept DEF ServerDies

\* Every step keeps the types.
LEMMA StepTypes == TaskTypes /\ [Next]_vars => TaskTypes'
<1> SUFFICES ASSUME TaskTypes, [Next]_vars PROVE TaskTypes'
  OBVIOUS
<1>1. ASSUME NEW p \in Handler, handleResult(p) PROVE TaskTypes'
  BY <1>1, TakeResultTypes, FindTypes, RetryTypes, FailTypes DEF handleResult
<1>2. ASSUME NEW p \in {"poller", "cleaner"}, failTaskDB(p) PROVE TaskTypes'
  BY <1>2, FailTypes
<1>3. CASE UpstreamEnds
  <2>1. WorkerTypes'
    BY <1>3 DEF TaskTypes, UpstreamEnds, WorkerTypes, Final
  <2> QED
    BY <1>3, <2>1, TypesKept DEF TaskTypes, UpstreamEnds
<1>4. CASE GrowOld
  <2>1. ServerTypes'
    BY <1>4 DEF TaskTypes, GrowOld, ServerTypes
  <2> QED
    BY <1>4, <2>1, TypesKept DEF TaskTypes, GrowOld
<1>5. CASE UNCHANGED vars
  BY <1>5, TypesKept DEF TaskTypes, vars
<1> QED
  BY <1>1, <1>2, <1>3, <1>4, <1>5, CreateTypes, WorkerStepTypes, RedeliverResultTypes, FlushTypes, SweepTypes,
     PollTypes, ServerDiesTypes DEF Next

\* The row, the ledger, the streams and the goroutines of a task are of their
\* types, however many channels, keys, handlers, deliveries and faults there are.
THEOREM TaskTypeCorrect == Spec => []TypeOK
<1>1. TaskTypes => TypeOK
  BY DEF TaskTypes, RowTypes, LedgerTypes, QueueTypes, WorkerTypes, ProcTypes, ServerTypes, BudgetType, TypeOK
<1> QED
  BY <1>1, InitTypes, StepTypes, PTL DEF Spec

-----------------------------------------------------------------------------

(***************************************************************************)
(* Nothing of the task comes before its row.                               *)
(***************************************************************************)

\* Something of the task is there: its row is, and createTask is past the charge.
Started == status # "none" /\ (pc["api"] = "charge" => "slow" \in Env)

LEMMA SomethingThere ==
    ASSUME TaskTypes, InsertedFirst,
           \/ \E p \in Actor \ {"api"} : pc[p] # "idle"
           \/ \E m : m \in BagToSet(jobs) \cup BagToSet(running) \cup BagToSet(results)
           \/ writes # <<>>
           \/ upstream # 0
    PROVE  Started
BY NoBag DEF InsertedFirst, NothingYet, Started

\* From there on no step but those of createTask matters.
LEMMA StaysStarted ==
    ASSUME Started, InsertedFirst, status' # "none", pc'["api"] \in {pc["api"], "idle"}
    PROVE  InsertedFirst'
BY DEF Started, InsertedFirst, CreateStep

\* The row never goes.
LEMMA RowStays ==
    ASSUME status # "none",
           \/ UNCHANGED rowVars
           \/ \E s \in {"pending", "processing", "done", "failed"} : SetStatus(s) \/ Unchecked(SetStatus(s))
           \/ \E s \in {status, "processing"} : \E a, n : \/ SetRow(s, a, n)
                                                           \/ Unchecked(SetRow(s, a, n) /\ UNCHANGED upstream)
    PROVE  status' # "none"
BY DEF rowVars, SetStatus, SetRow, Unchecked

LEMMA OtherGoroutine ==
    ASSUME TaskTypes, NEW p \in Actor, p # "api", NEW s, Goto(p, s)
    PROVE  pc'["api"] = pc["api"]
BY ConstantTypes DEF TaskTypes, ProcTypes, Goto

LEMMA HandlerStarted ==
    ASSUME TaskTypes, InsertedFirst, NEW p \in Handler \cup {"poller", "cleaner"},
           failTaskDB(p) \/ (p \in Handler /\ handleResult(p))
    PROVE  InsertedFirst'
<1>1. p \in Actor /\ p # "api"
  BY ConstantTypes
<1>2. Started
  <2>1. pc[p] # "idle" \/ TakeResult(p)
    BY DEF handleResult, failTaskDB, FailTask, FailRefund, FailZero, RotateKey, SkipKey, Republish,
           FailedResultArrives, RetryRefund, RetryZero, RetryCharge, RetryWrite, RetryUpdate, RetryPublish
  <2>2. TakeResult(p) => \E m : m \in BagToSet(results)
    BY DEF TakeResult
  <2> QED
    BY <1>1, <2>1, <2>2, SomethingThere
<1>3. pc'["api"] = pc["api"]
  <2>1. (\E s : Goto(p, s)) \/ UNCHANGED pc
    BY DEF handleResult, failTaskDB, FailTask, FailRefund, FailZero, RotateKey, SkipKey, Republish, TakeResult,
           FailedResultArrives, RetryRefund, RetryZero, RetryCharge, RetryWrite, RetryUpdate, RetryPublish,
           CallFail, procVars
  <2> QED
    BY <1>1, <2>1, OtherGoroutine
<1>4. status' # "none"
  <2>1. CASE FailTask(p) \/ FailRefund(p) \/ FailZero(p)
    BY <1>2, <2>1, RowStays DEF Started, FailTask, FailRefund, FailZero
  <2>2. CASE TakeResult(p) \/ RotateKey(p) \/ Republish(p) \/ FailedResultArrives(p) \/ RetryRefund(p)
             \/ RetryCharge(p) \/ RetryWrite(p) \/ RetryPublish(p)
    BY <1>2, <2>2, RowStays DEF Started, TakeResult, RotateKey, Republish, FailedResultArrives, RetryRefund,
                               RetryCharge, RetryWrite, RetryPublish
  <2>3. CASE SkipKey(p) \/ RetryZero(p) \/ RetryUpdate(p)
    BY <1>2, <2>3, RowStays DEF Started, SkipKey, RetryZero, RetryUpdate
  <2> QED
    BY <2>1, <2>2, <2>3 DEF handleResult, failTaskDB
<1> QED
  BY <1>2, <1>3, <1>4, StaysStarted

LEMMA CreateInserted ==
    ASSUME TaskTypes, InsertedFirst, CreateTask
    PROVE  InsertedFirst'
<1>1. "api" \in Actor
  BY ConstantTypes
<1>2. ASSUME NEW s, Goto("api", s)
      PROVE  pc'["api"] = s /\ \A p \in Actor : p # "api" => pc'[p] = pc[p]
  BY <1>1, <1>2 DEF Goto, TaskTypes, ProcTypes
<1>3. ASSUME NothingYet, NEW s, Goto("api", s),
             UNCHANGED <<jobs, running, results, writes, upstream, charged, refunded>>
      PROVE  NothingYet'
  BY <1>2, <1>3 DEF NothingYet
<1>4. CASE ChargeUser
  BY <1>2, <1>3, <1>4 DEF ChargeUser, InsertedFirst, CreateStep, rowVars, ledgerVars, queueVars, workerVars
<1>5. CASE InsertTask
  <2>1. status = "none" /\ NothingYet
    BY <1>5 DEF InsertTask, InsertedFirst
  <2>2. PICK s \in {"charge", "idle"} : /\ Goto("api", s)
                                        /\ IF s = "charge" THEN status' = "pending" ELSE status' = status
    BY <1>5 DEF InsertTask, SetRow, rowVars
  <2>3. NothingYet'
    BY <1>3, <1>5, <2>1, <2>2 DEF InsertTask, ledgerVars, queueVars, workerVars
  <2> QED
    BY <1>2, <2>1, <2>2, <2>3 DEF InsertedFirst, CreateStep
<1>6. CASE WriteCharge \/ RefuseTask \/ PublishTask \/ FailUnpublished \/ RefundUnpublished \/ MarkProcessing
  <2>1. status # "none"
    BY <1>6 DEF InsertedFirst, CreateStep, WriteCharge, RefuseTask, PublishTask, FailUnpublished,
                RefundUnpublished, MarkProcessing
  <2>2. PICK s \in {"publish", "refuse", "idle", "mark", "pubFail", "pubRefund"} : Goto("api", s)
    BY <1>6 DEF WriteCharge, RefuseTask, PublishTask, FailUnpublished, RefundUnpublished, MarkProcessing
  <2>3. status' # "none"
    BY <1>6, <2>1, RowStays DEF WriteCharge, RefuseTask, PublishTask, FailUnpublished,
                                RefundUnpublished, MarkProcessing
  <2> QED
    BY <1>2, <2>2, <2>3 DEF InsertedFirst
<1> QED
  BY <1>4, <1>5, <1>6 DEF CreateTask

\* A server that dies before the row is there has nothing to hand back.
LEMMA ServerDiesInserted ==
    ASSUME TaskTypes, InsertedFirst, ServerDies
    PROVE  InsertedFirst'
<1>1. pc' = [p \in Actor |-> "idle"] /\ UNCHANGED <<rowVars, ledgerVars, jobs, workerVars>> /\ writes' = <<>>
  BY DEF ServerDies
<1>2. "api" \in Actor
  BY ConstantTypes
<1>3. ASSUME NothingYet PROVE NothingYet'
  <2> DEFINE unacked == {p \in Handler : pc[p] # "idle"}
             held    == {res[p] : p \in unacked} \cup {writes[i] : i \in DOMAIN writes}
             copies  == [m \in held |-> Cardinality({p \in unacked : res[p] = m})
                                      + Cardinality({i \in DOMAIN writes : writes[i] = m})]
             again   == {m \in held : m.left > 0}
             back    == [m \in {[n EXCEPT !.left = @ - 1] : n \in again} |-> copies[[m EXCEPT !.left = @ + 1]]]
  <2>1. results' = results (+) back
    BY DEF ServerDies
  <2>2. DOMAIN writes = {} /\ unacked = {}
    <3>1. writes = <<>> /\ \A p \in Handler : pc[p] = "idle"
      BY <1>3, ConstantTypes DEF NothingYet
    <3> QED
      BY <3>1
  <2>3. again = {}
    BY <2>2
  <2> HIDE DEF again, copies
  <2>4. DOMAIN back = {}
    BY <2>3
  <2> HIDE DEF back
  <2>5. results' = EmptyBag
    BY <1>3, <2>1, <2>4 DEF NothingYet, (+), EmptyBag, SetToBag
  <2> QED
    BY <1>1, <1>3, <2>5 DEF NothingYet, rowVars, ledgerVars, workerVars
<1> QED
  BY <1>1, <1>2, <1>3 DEF InsertedFirst, CreateStep, rowVars

LEMMA InsertedSteps == TaskTypes /\ InsertedFirst /\ [Next]_vars => InsertedFirst'
<1> SUFFICES ASSUME TaskTypes, InsertedFirst, [Next]_vars PROVE InsertedFirst'
  OBVIOUS
<1>1. CASE UNCHANGED vars
  BY <1>1 DEF vars, rowVars, ledgerVars, queueVars, workerVars, procVars, InsertedFirst, NothingYet
<1>2. CASE TakeJob \/ FinishJob \/ RedeliverJob \/ WorkerDies
  <2>1. \E m : m \in BagToSet(jobs) \cup BagToSet(running)
    BY <1>2 DEF TakeJob, FinishJob, RedeliverJob, WorkerDies
  <2>2. Started
    BY <2>1, SomethingThere
  <2>3. UNCHANGED <<status, pc>>
    BY <1>2 DEF TakeJob, FinishJob, RedeliverJob, WorkerDies, rowVars, procVars
  <2> QED
    BY <2>2, <2>3, StaysStarted DEF Started
<1>3. CASE RedeliverResult
  <2>1. (\E p \in Handler : pc[p] # "idle") \/ writes # <<>>
    BY <1>3 DEF RedeliverResult
  <2>2. Started
    BY <2>1, SomethingThere, ConstantTypes
  <2>3. UNCHANGED <<status, pc>>
    BY <1>3 DEF RedeliverResult, rowVars
  <2> QED
    BY <2>2, <2>3, StaysStarted DEF Started
<1>4. CASE FlushBatch
  <2>1. Started
    BY <1>4, SomethingThere DEF FlushBatch
  <2>2. UNCHANGED pc /\ status' \in {status, "processing", "done"}
    BY <1>4 DEF FlushBatch, procVars, SetRow, SetStatus, rowVars
  <2> QED
    BY <2>1, <2>2, StaysStarted DEF Started
<1>5. CASE CleanStaleTask
  <2>1. Started
    BY <1>5 DEF CleanStaleTask, Started, Quiet
  <2>2. UNCHANGED status /\ pc'["api"] = pc["api"]
    BY <1>5, OtherGoroutine, ConstantTypes DEF CleanStaleTask, CallFail, rowVars
  <2> QED
    BY <2>1, <2>2, StaysStarted DEF Started
<1>6. CASE PollTask
  <2>1. Started
    BY <1>6, SomethingThere DEF PollTask
  <2>2. UNCHANGED status /\ pc'["api"] = pc["api"]
    BY <1>6, OtherGoroutine, ConstantTypes DEF PollTask, rowVars
  <2> QED
    BY <2>1, <2>2, StaysStarted DEF Started
<1>7. CASE PollOne
  <2>1. pc["poller"] = "poll"
    BY <1>7 DEF PollOne, PollAged, PollNothing, PollDone, PollFailed
  <2>2. Started
    BY <2>1, SomethingThere, ConstantTypes
  <2>3. pc'["api"] = pc["api"]
    <3>1. \E s : Goto("poller", s)
      BY <1>7 DEF PollOne, PollAged, PollNothing, PollDone, PollFailed, PublishFailedResult, CallFail
    <3> QED
      BY <3>1, OtherGoroutine, ConstantTypes
  <2>4. status' # "none"
    BY <1>7, <2>2, RowStays DEF Started, PollOne, PollAged, PollNothing, PollDone, PollFailed
  <2> QED
    BY <2>2, <2>3, <2>4, StaysStarted
<1>8. CASE UpstreamEnds \/ GrowOld
  BY <1>8 DEF UpstreamEnds, GrowOld, rowVars, ledgerVars, queueVars, procVars, InsertedFirst, NothingYet, workerVars
<1> QED
  BY <1>1, <1>2, <1>3, <1>4, <1>5, <1>6, <1>7, <1>8, HandlerStarted, CreateInserted, ServerDiesInserted DEF Next

-----------------------------------------------------------------------------
(***************************************************************************)
(* The ledger: what a step may charge and refund.                          *)
(***************************************************************************)

Charge(a)    == charged' = charged \cup {a} /\ UNCHANGED refunded
LedgerSteps ==
    \/ UNCHANGED ledgerVars
    \/ pc["api"] = "charge" /\ Charge(1)
    \/ \E a \in charged : a < Channels /\ Back(a) /\ a + 1 \notin charged /\ Charge(a + 1)
    \/ UNCHANGED charged /\ \E a \in Attempt, reason \in Reason : Known(a) /\ WriteRefund(a, reason)
LedgerGrows == charged \subseteq charged' /\ refunded \subseteq refunded'

LEMMA LedgerStep ==
    ASSUME TaskTypes, ActorsTell, [Next]_vars
    PROVE  LedgerSteps
<1>1. CASE UNCHANGED vars
  BY <1>1 DEF vars, LedgerSteps
<1>2. CASE CreateTask
  <2>1. CASE WriteCharge
    BY <2>1 DEF WriteCharge, LedgerSteps, Charge, ledgerVars
  <2>2. CASE RefundUnpublished
    <3>1. Known(1) /\ 1 \in Attempt /\ "publishError" \in Reason
      BY ConstantTypes, FailureNamed DEF Known
    <3>2. UNCHANGED refunded \/ WriteRefund(1, "publishError")
      BY <2>2 DEF RefundUnpublished
    <3> QED
      BY <2>2, <3>1, <3>2 DEF RefundUnpublished, LedgerSteps, ledgerVars
  <2> QED
    BY <1>2, <2>1, <2>2 DEF CreateTask, ChargeUser, InsertTask, RefuseTask, PublishTask, FailUnpublished,
                            MarkProcessing, LedgerSteps
<1>3. ASSUME NEW p \in Handler, handleResult(p) PROVE LedgerSteps \/ failTaskDB(p)
  <2>1. p \in Actor /\ p # "cleaner" /\ res[p].attempt \in Attempt
    BY HeldType, ConstantTypes DEF TaskTypes
  <2>2. CASE RetryRefund(p)
    <3>1. Known(res[p].attempt)
      BY <2>1, <2>2 DEF RetryRefund, ActorsTell, Tells, Told, Known, ProcessStep
    <3>2. UNCHANGED refunded \/ WriteRefund(res[p].attempt, "channelRetry")
      BY <2>2 DEF RetryRefund
    <3> QED
      BY <2>1, <2>2, <3>1, <3>2, FailureNamed DEF RetryRefund, LedgerSteps, ledgerVars
  <2>3. CASE RetryWrite(p)
    <3>1. res[p].attempt \in charged /\ Back(res[p].attempt)
      BY <2>1, <2>3 DEF RetryWrite, ActorsTell, Tells, Told, ProcessStep, RetryStep
    <3>2. res[p].attempt < Channels
      BY <2>1, <2>3 DEF RetryWrite, TaskTypes, ProcTypes, Fits, NextStep, RetryStep
    <3>3. UNCHANGED charged \/ (res[p].attempt + 1 \notin charged /\ charged' = charged \cup {res[p].attempt + 1})
      BY <2>3 DEF RetryWrite
    <3> QED
      BY <2>3, <3>1, <3>2, <3>3 DEF RetryWrite, LedgerSteps, Charge, ledgerVars
  <2> QED
    BY <1>3, <2>2, <2>3 DEF handleResult, TakeResult, RotateKey, SkipKey, Republish, FailedResultArrives,
                            RetryZero, RetryCharge, RetryUpdate, RetryPublish, LedgerSteps
<1>4. ASSUME NEW p \in Handler \cup {"poller", "cleaner"}, failTaskDB(p) PROVE LedgerSteps
  <2>1. p \in Actor /\ arg[p].attempt \in Attempt /\ arg[p].text \in Reason
    BY HeldType, ConstantTypes DEF TaskTypes
  <2>2. CASE FailRefund(p)
    <3>1. Known(arg[p].attempt)
      BY <2>1, <2>2 DEF FailRefund, ActorsTell, Tells, ProcessStep, FailStep
    <3>2. UNCHANGED refunded \/ WriteRefund(arg[p].attempt, arg[p].text)
      BY <2>2 DEF FailRefund
    <3> QED
      BY <2>1, <2>2, <3>1, <3>2 DEF FailRefund, LedgerSteps, ledgerVars
  <2> QED
    BY <1>4, <2>2 DEF failTaskDB, FailTask, FailZero, LedgerSteps
<1>5. CASE TakeJob \/ FinishJob \/ RedeliverJob \/ WorkerDies \/ RedeliverResult \/ FlushBatch
           \/ CleanStaleTask \/ PollTask \/ UpstreamEnds \/ GrowOld \/ ServerDies
  BY <1>5 DEF TakeJob, FinishJob, RedeliverJob, WorkerDies, RedeliverResult, FlushBatch, CleanStaleTask, PollTask,
              UpstreamEnds, GrowOld, ServerDies, LedgerSteps
<1>6. CASE PollOne
  BY <1>6 DEF PollOne, PollAged, PollNothing, PollDone, PollFailed, LedgerSteps
<1> QED
  BY <1>1, <1>2, <1>3, <1>4, <1>5, <1>6 DEF Next

LEMMA OnlyGrows == LedgerSteps => LedgerGrows
BY DEF LedgerSteps, LedgerGrows, ledgerVars, Charge, WriteRefund

\* What was refunded, charged or told stays so.
LEMMA StaysBack ==
    ASSUME LedgerGrows
    PROVE  /\ \A a : Back(a) => Back(a)'
           /\ \A a : Known(a) => Known(a)'
           /\ \A m : Told(m) => Told(m)'
<1>1. ASSUME NEW CONSTANT a PROVE Back(a) => Back(a)'
  BY DEF LedgerGrows, Back, RefundsOf
<1> QED
  BY <1>1 DEF LedgerGrows, Known, Told

\* A refund is one of its attempt only.
LEMMA RefundOf ==
    ASSUME NEW CONSTANT a, NEW CONSTANT b, NEW CONSTANT reason \in Reason, WriteRefund(a, reason)
    PROVE  Back(a)' /\ (Back(b)' => b = a \/ Back(b))
BY DEF WriteRefund, Back, RefundsOf

LEMMA OrderSteps ==
    ASSUME TaskTypes, ChargedInOrder, LedgerSteps
    PROVE  ChargedInOrder'
<1>1. charged \subseteq Attempt /\ Attempt \subseteq Nat
  BY ConstantTypes DEF TaskTypes, LedgerTypes
<1>2. CASE UNCHANGED ledgerVars
  BY <1>2 DEF ledgerVars, ChargedInOrder, Back, RefundsOf, Known
<1>3. CASE Charge(1)
  BY <1>1, <1>3 DEF Charge, ChargedInOrder, Back, RefundsOf, Known, Attempt
<1>4. CASE \E a \in charged : Back(a) /\ Charge(a + 1)
  BY <1>1, <1>4 DEF Charge, ChargedInOrder, Back, RefundsOf, Known
<1>5. CASE UNCHANGED charged /\ \E a \in Attempt, reason \in Reason : Known(a) /\ WriteRefund(a, reason)
  <2>1. PICK a \in Attempt, reason \in Reason : Known(a) /\ WriteRefund(a, reason)
    BY <1>5
  <2>2. \A b : Back(b) => Back(b)'
    BY StaysBack, OnlyGrows
  <2>3. \A b : Back(b)' => b = a \/ Back(b)
    BY <2>1, RefundOf
  <2> QED
    BY <1>5, <2>1, <2>2, <2>3 DEF ChargedInOrder, Known
<1> QED
  BY <1>2, <1>3, <1>4, <1>5 DEF LedgerSteps

\* What a goroutine learns by its step; the others know what they knew.
LEMMA OneActor ==
    ASSUME TaskTypes, TaskTypes', ActorsTell, LedgerGrows, NEW p \in Actor,
           \A q \in Actor : q # p => pc'[q] = pc[q] /\ res'[q] = res[q] /\ arg'[q] = arg[q],
           pc'[p] \in ProcessStep => Tells(p)',
           pc'["api"] \in {"publish", "pubFail", "pubRefund", "mark"} => p # "api" \/ 1 \in charged'
    PROVE  ActorsTell'
<1>1. ASSUME NEW q \in Actor, q # p, pc'[q] \in ProcessStep PROVE Tells(q)'
  <2>1. Tells(q) /\ pc'[q] = pc[q] /\ res'[q] = res[q] /\ arg'[q] = arg[q]
    BY <1>1 DEF ActorsTell
  <2> QED
    BY <2>1, StaysBack DEF Tells, LedgerGrows
<1>2. pc'["api"] \in {"publish", "pubFail", "pubRefund", "mark"} => 1 \in charged'
  BY ConstantTypes DEF ActorsTell, LedgerGrows
<1> QED
  BY <1>1, <1>2 DEF ActorsTell

LEMMA ActorsKept ==
    ASSUME ActorsTell, LedgerGrows, UNCHANGED <<pc, res, arg>>
    PROVE  ActorsTell'
<1>1. ASSUME NEW q \in Actor, pc'[q] \in ProcessStep PROVE Tells(q)'
  <2>1. Tells(q) /\ pc'[q] = pc[q] /\ res'[q] = res[q] /\ arg'[q] = arg[q]
    BY <1>1 DEF ActorsTell
  <2> QED
    BY <2>1, StaysBack DEF Tells, LedgerGrows
<1> QED
  BY <1>1 DEF ActorsTell, LedgerGrows

\* A goroutine goes on with what it has, or calls failTaskDB.
LEMMA HandlerGoes ==
    ASSUME TaskTypes, TaskTypes', ActorsTell, LedgerGrows,
           NEW p \in Actor, p # "api", pc[p] \in ProcessStep, UNCHANGED <<res, arg>>,
           NEW s \in {"idle"} \cup ProcessStep, Goto(p, s),
           s \in RetryStep => Back(res[p].attempt)',
           s \in {"retryUpdate", "retryPublish"} => res[p].attempt + 1 \in charged',
           s \in FailStep => pc[p] \in FailStep,
           s = "failZero" => Back(arg[p].attempt)'
    PROVE  ActorsTell'
<1>1. pc'[p] = s /\ \A q \in Actor : q # p => pc'[q] = pc[q]
  BY DEF Goto, TaskTypes, ProcTypes
<1>2. Tells(p)
  BY DEF ActorsTell
<1>3. Tells(p)'
  <2>1. p # "cleaner" => Told(res[p])'
    BY <1>2, StaysBack DEF Tells
  <2>2. s \in FailStep => Known(arg[p].attempt)'
    BY <1>2, StaysBack DEF Tells
  <2> QED
    BY <1>1, <2>1, <2>2 DEF Tells
<1> QED
  BY <1>1, <1>3, OneActor

LEMMA HandlerFails ==
    ASSUME TaskTypes, TaskTypes', ActorsTell, LedgerGrows,
           NEW p \in Actor, p # "api", pc[p] \in ProcessStep, UNCHANGED res,
           NEW a \in Attempt, NEW n, NEW text, CallFail(p, a, n, text), Known(a)'
    PROVE  ActorsTell'
<1>1. pc'[p] = "fail" /\ \A q \in Actor : q # p => pc'[q] = pc[q] /\ arg'[q] = arg[q]
  BY DEF CallFail, Goto, TaskTypes, ProcTypes
<1>2. arg'[p].attempt = a
  BY DEF CallFail, TaskTypes, ProcTypes
<1>3. Tells(p)'
  <2>1. p # "cleaner" => Told(res[p])'
    BY StaysBack DEF ActorsTell, Tells
  <2> QED
    BY <1>1, <1>2, <2>1 DEF Tells, RetryStep
<1> QED
  BY <1>1, <1>3, OneActor

\* The jobs, results and writes that come are of attempts that are known.
LEMMA MessagesCome ==
    ASSUME MessagesTell, LedgerGrows,
           \A j \in BagToSet(jobs') \cup BagToSet(running') :
               j \in BagToSet(jobs) \cup BagToSet(running) \/ j.attempt \in charged',
           \A m \in BagToSet(results') : m \in BagToSet(results) \/ Told(m)',
           (\A i \in DOMAIN writes : Told(writes[i]))'
    PROVE  MessagesTell'
<1>1. \A j \in BagToSet(jobs') \cup BagToSet(running') : j.attempt \in charged'
  BY DEF MessagesTell, LedgerGrows
<1>2. \A m \in BagToSet(results') : Told(m)'
  BY StaysBack DEF MessagesTell
<1> QED
  BY <1>1, <1>2 DEF MessagesTell

LEMMA WritesKept ==
    ASSUME MessagesTell, LedgerGrows, UNCHANGED writes
    PROVE  (\A i \in DOMAIN writes : Told(writes[i]))'
<1>1. \A m : Told(m) => Told(m)'
  BY StaysBack
<1> QED
  BY <1>1 DEF MessagesTell, Told, Back, RefundsOf

LEMMA MessagesKept ==
    ASSUME MessagesTell, LedgerGrows, UNCHANGED <<jobs, running, results, writes>>
    PROVE  MessagesTell'
BY WritesKept, MessagesCome

\* The row says no more than is known.
LEMMA RowKept ==
    ASSUME RowTells, LedgerGrows, UNCHANGED <<attempt, credits, upstream>>, status' # "none" => status # "none"
    PROVE  RowTells'
<1>1. Known(attempt)' /\ (Back(attempt) => Back(attempt)')
  BY StaysBack DEF RowTells
<1> QED
  BY <1>1 DEF RowTells, LedgerGrows

\* The credits of the row are set to 0 for an attempt that was refunded; of two
\* attempts the row then has the last one, or its attempt was refunded as well.
LEMMA RowZeroed ==
    ASSUME TaskTypes, ChargedInOrder, RowTells, LedgerGrows, Channels <= 2 \/ OnlyLastPolled,
           NEW a \in Attempt, Back(a), UNCHANGED <<attempt, upstream>>
    PROVE  RowTells'
<1>1. Known(a) /\ a \in 1..Channels /\ attempt \in 1..Channels /\ Channels \in Nat
  BY ConstantTypes DEF TaskTypes, RowTypes, ChargedInOrder, Attempt
<1>2. ~OnlyLastPolled /\ attempt < Channels => Back(attempt)
  <2>1. CASE a = attempt
    BY <2>1
  <2>2. CASE ~OnlyLastPolled /\ attempt < Channels /\ a # attempt
    <3>1. attempt = 1 /\ a = 2 /\ a \in charged
      BY <1>1, <2>2 DEF Known
    <3> QED
      BY <3>1, ConstantTypes DEF ChargedInOrder
  <2> QED
    BY <2>1, <2>2
<1>3. ~OnlyLastPolled /\ attempt < Channels => Back(attempt)'
  BY <1>2, StaysBack
<1>4. Known(attempt)'
  BY StaysBack DEF RowTells
<1> QED
  BY <1>3, <1>4 DEF RowTells, LedgerGrows, OnlyLastPolled

-----------------------------------------------------------------------------
(***************************************************************************)
(* Of two channels, the first is given back before the second is paid for. *)
(***************************************************************************)

\* What every step has before it and after it.
Before == TaskTypes /\ TaskTypes' /\ InsertedFirst /\ GivenBackFirst /\ LedgerGrows /\ ChargedInOrder'

LEMMA CreateTells ==
    ASSUME Before, CreateTask
    PROVE  GivenBackFirst'
<1> USE DEF Before, GivenBackFirst
<1>1. "api" \in Actor /\ \A s \in {"idle"} \cup CreateStep : s \notin ProcessStep
  BY ConstantTypes DEF CreateStep, ProcessStep
<1>2. ASSUME NEW s \in {"idle"} \cup CreateStep, Goto("api", s), UNCHANGED <<res, arg>>,
             s \in {"publish", "pubFail", "pubRefund", "mark"} => 1 \in charged'
      PROVE  ActorsTell'
  <2>1. pc'["api"] = s /\ \A q \in Actor : q # "api" => pc'[q] = pc[q]
    BY <1>1, <1>2 DEF Goto, TaskTypes, ProcTypes
  <2> QED
    BY <1>1, <1>2, <2>1, OneActor
<1>3. {"start", "insert", "charge", "refuse", "publish", "pubFail", "pubRefund", "mark"} \subseteq CreateStep
  BY DEF CreateStep
<1>4. pc["api"] \in {"publish", "pubFail", "pubRefund", "mark"} => 1 \in charged'
  BY DEF ActorsTell, LedgerGrows
<1>5. ASSUME NEW s \in {"failed", "processing"}, pc["api"] \in CreateStep \ {"start", "insert"}, Unchecked(SetStatus(s))
      PROVE  RowTells'
  BY <1>5, RowKept DEF InsertedFirst, Unchecked, SetStatus, rowVars
<1>6. CASE ChargeUser
  BY <1>2, <1>3, <1>6, RowKept, MessagesKept DEF ChargeUser, rowVars, queueVars, workerVars
<1>7. CASE InsertTask
  <2>1. RowTells'
    <3>1. CASE SetRow("pending", 1, 1)
      BY <1>7, <3>1 DEF InsertTask, SetRow, RowTells, Known, LedgerGrows
    <3>2. CASE UNCHANGED rowVars
      BY <3>2, RowKept DEF rowVars
    <3> QED
      BY <1>7, <3>1, <3>2 DEF InsertTask
  <2> QED
    BY <1>2, <1>3, <1>7, <2>1, MessagesKept DEF InsertTask, queueVars, workerVars
<1>8. CASE WriteCharge
  <2>1. PICK s \in {"publish", "refuse"} : Goto("api", s) /\ (s = "publish" => 1 \in charged')
    BY <1>8 DEF WriteCharge
  <2> QED
    BY <1>2, <1>3, <1>8, <2>1, RowKept, MessagesKept DEF WriteCharge, rowVars, queueVars, workerVars
<1>9. CASE RefuseTask
  BY <1>2, <1>3, <1>5, <1>9, MessagesKept DEF RefuseTask, queueVars, workerVars
<1>10. CASE PublishTask
  <2>1. PICK s \in {"mark", "pubFail"} : Goto("api", s)
    BY <1>10 DEF PublishTask
  <2>2. NewJob(1, 0).attempt = 1
    BY DEF NewJob
  <2>3. \A j \in BagToSet(jobs') : j \in BagToSet(jobs) \/ j.attempt = 1
    <3>1. jobs' = jobs \/ jobs' = jobs (+) One(NewJob(1, 0))
      BY <1>10 DEF PublishTask
    <3> QED
      BY <2>2, <3>1, OneBag, MoreInBag DEF TaskTypes, QueueTypes
  <2>4. 1 \in charged'
    BY <1>4, <1>10 DEF PublishTask
  <2>5. MessagesTell'
    BY <1>10, <2>3, <2>4, WritesKept, MessagesCome DEF PublishTask, workerVars
  <2> QED
    BY <1>2, <1>3, <1>10, <2>1, <2>4, <2>5, RowKept DEF PublishTask, rowVars
<1>11. CASE FailUnpublished
  BY <1>2, <1>3, <1>4, <1>5, <1>11, MessagesKept DEF FailUnpublished, queueVars, workerVars
<1>12. CASE RefundUnpublished
  BY <1>2, <1>3, <1>12, RowKept, MessagesKept DEF RefundUnpublished, rowVars, queueVars, workerVars
<1>13. CASE MarkProcessing
  BY <1>2, <1>3, <1>5, <1>13, MessagesKept DEF MarkProcessing, queueVars, workerVars
<1> QED
  BY <1>6, <1>7, <1>8, <1>9, <1>10, <1>11, <1>12, <1>13 DEF CreateTask

\* Who runs or delivers a job or a result leaves its attempt as it is.
LEMMA WorkerTells ==
    ASSUME Before, TakeJob \/ FinishJob \/ RedeliverJob \/ WorkerDies
    PROVE  GivenBackFirst'
<1> USE DEF Before, GivenBackFirst
<1>1. RowTells' /\ ActorsTell'
  BY RowKept, ActorsKept DEF TakeJob, FinishJob, RedeliverJob, WorkerDies, rowVars, procVars
<1>2. IsABag(jobs) /\ IsABag(running) /\ IsABag(results)
  BY DEF TaskTypes, QueueTypes, WorkerTypes
<1>3. ASSUME NEW j \in BagToSet(running)
      PROVE  /\ IsABag(Again(j)) /\ \A i \in BagToSet(Again(j)) : i.attempt = j.attempt
             /\ IsABag(running (-) One(j)) /\ BagToSet(running (-) One(j)) \subseteq BagToSet(running)
             /\ j.attempt \in charged'
  <2>1. j \in Job
    BY DEF TaskTypes, WorkerTypes
  <2>2. \A i \in BagToSet(Again(j)) : i.attempt = j.attempt
    BY <2>1, AgainBag DEF Job
  <2> QED
    BY <1>2, <2>2, AgainBag, OneBag, LessInBag DEF MessagesTell, LedgerGrows
<1>4. CASE TakeJob
  <2>1. PICK j \in BagToSet(jobs) : jobs' = jobs (-) One(j) /\ running' = running (+) One(j)
    BY <1>4 DEF TakeJob
  <2>2. BagToSet(jobs') \subseteq BagToSet(jobs) /\ BagToSet(running') = BagToSet(running) \cup {j}
    BY <1>2, <2>1, OneBag, MoreInBag, LessInBag
  <2> QED
    BY <1>1, <1>4, <2>2, WritesKept, MessagesCome DEF TakeJob
<1>5. CASE FinishJob
  <2>1. PICK j \in BagToSet(running) : \E outcome \in Outcomes(j) : \E text :
          /\ running' = running (-) One(j)
          /\ results' = results \/ results' = results (+) One(ResultOf(j, outcome, text))
    BY <1>5 DEF FinishJob
  <2>2. PICK outcome \in Outcomes(j) :
          \E text : results' = results \/ results' = results (+) One(ResultOf(j, outcome, text))
    BY <2>1
  <2>a. PICK text : results' = results \/ results' = results (+) One(ResultOf(j, outcome, text))
    BY <2>2
  <2>b. outcome = "async" => j.attempt \in Async
    BY DEF Outcomes
  <2>3. /\ ResultOf(j, outcome, text).attempt = j.attempt /\ ResultOf(j, outcome, text).credits = 1
        /\ ResultOf(j, outcome, text).outcome = outcome
    BY DEF ResultOf
  <2>4. Told(ResultOf(j, outcome, text))'
    BY <1>3, <2>b, <2>3 DEF Told
  <2>5. BagToSet(results') \subseteq BagToSet(results) \cup {ResultOf(j, outcome, text)}
    BY <1>2, <2>a, OneBag, MoreInBag
  <2> QED
    BY <1>1, <1>3, <1>5, <2>1, <2>4, <2>5, WritesKept, MessagesCome DEF FinishJob
<1>6. CASE RedeliverJob
  <2>1. PICK j \in BagToSet(running) : /\ jobs' = jobs (+) Again(j)
                                      /\ running' = (running (-) One(j)) (+) One([j EXCEPT !.left = 0])
    BY <1>6 DEF RedeliverJob
  <2>2. [j EXCEPT !.left = 0].attempt = j.attempt
    BY DEF TaskTypes, WorkerTypes, Job
  <2>3. /\ BagToSet(jobs') = BagToSet(jobs) \cup BagToSet(Again(j))
        /\ BagToSet(running') = BagToSet(running (-) One(j)) \cup {[j EXCEPT !.left = 0]}
    BY <1>2, <1>3, <2>1, OneBag, MoreInBag
  <2> QED
    BY <1>1, <1>3, <1>6, <2>2, <2>3, WritesKept, MessagesCome DEF RedeliverJob
<1>7. CASE WorkerDies
  <2>1. PICK j \in BagToSet(running) : jobs' = jobs (+) Again(j) /\ running' = running (-) One(j)
    BY <1>7 DEF WorkerDies
  <2>2. BagToSet(jobs') = BagToSet(jobs) \cup BagToSet(Again(j))
    BY <1>2, <1>3, <2>1, MoreInBag
  <2> QED
    BY <1>1, <1>3, <1>7, <2>1, <2>2, WritesKept, MessagesCome DEF WorkerDies
<1> QED
  BY <1>4, <1>5, <1>6, <1>7

LEMMA FailTells ==
    ASSUME Before, Channels <= 2 \/ OnlyLastPolled, NEW p \in Handler \cup {"poller", "cleaner"}, failTaskDB(p)
    PROVE  GivenBackFirst'
<1> USE DEF Before, GivenBackFirst
<1>1. /\ p \in Actor /\ p # "api" /\ pc[p] \in FailStep /\ pc[p] \in ProcessStep
      /\ arg[p].attempt \in Attempt /\ arg[p].text \in Reason
  BY HeldType, ConstantTypes DEF TaskTypes, failTaskDB, FailTask, FailRefund, FailZero, FailStep, ProcessStep
<1>2. {"failRefund", "failZero"} \subseteq ProcessStep /\ RetryStep \cap {"idle", "failRefund", "failZero"} = {}
  BY DEF ProcessStep, RetryStep
<1>3. status # "none"
  BY <1>1 DEF InsertedFirst, NothingYet, ProcessStep
<1>4. CASE FailTask(p)
  <2>1. PICK s \in {"idle", "failRefund"} : Goto(p, s)
    BY <1>4 DEF FailTask
  <2>2. ActorsTell'
    BY <1>1, <1>2, <1>4, <2>1, HandlerGoes DEF FailTask
  <2>3. RowTells'
    BY <1>3, <1>4, RowKept DEF FailTask, SetStatus, rowVars
  <2> QED
    BY <1>4, <2>2, <2>3, MessagesKept DEF FailTask, queueVars, workerVars
<1>5. CASE FailRefund(p)
  <2>1. CASE Goto(p, "idle")
    <3>1. ActorsTell'
      BY <1>1, <1>2, <1>5, <2>1, HandlerGoes DEF FailRefund
    <3> QED
      BY <1>5, <3>1, RowKept, MessagesKept DEF FailRefund, rowVars, queueVars, workerVars
  <2>2. CASE Goto(p, "failZero") /\ WriteRefund(arg[p].attempt, arg[p].text)
    <3>1. Back(arg[p].attempt)'
      BY <1>1, <1>5, <2>2 DEF FailRefund, WriteRefund, Back, RefundsOf
    <3>2. ActorsTell'
      BY <1>1, <1>2, <1>5, <2>2, <3>1, HandlerGoes DEF FailRefund
    <3> QED
      BY <1>5, <3>2, RowKept, MessagesKept DEF FailRefund, rowVars, queueVars, workerVars
  <2> QED
    BY <1>5, <2>1, <2>2 DEF FailRefund
<1>6. CASE FailZero(p)
  <2>1. Goto(p, "idle")
    BY <1>6 DEF FailZero
  <2>2. ActorsTell'
    BY <1>1, <1>2, <1>6, <2>1, HandlerGoes DEF FailZero
  <2>3. Back(arg[p].attempt)
    BY <1>1, <1>6 DEF FailZero, ActorsTell, Tells
  <2>4. UNCHANGED <<attempt, upstream>>
    BY <1>6 DEF FailZero, Unchecked, SetRow, rowVars
  <2>5. RowTells'
    BY <1>1, <2>3, <2>4, RowZeroed
  <2> QED
    BY <1>6, <2>2, <2>5, MessagesKept DEF FailZero, queueVars, workerVars
<1> QED
  BY <1>4, <1>5, <1>6 DEF failTaskDB

\* A handler takes a result that is told, or hands it to the batch writer.
LEMMA TakeTells ==
    ASSUME Before, NEW p \in Handler, TakeResult(p)
    PROVE  GivenBackFirst'
<1> USE DEF Before, GivenBackFirst
<1>1. p \in Actor /\ p # "api" /\ p # "cleaner"
  BY ConstantTypes
<1>2. PICK r \in BagToSet(results) :
        /\ results' = results (-) One(r)
        /\ \/ writes' = Append(writes, r) /\ UNCHANGED procVars
           \/ /\ res' = [res EXCEPT ![p] = r] /\ UNCHANGED <<arg, asked, writes>>
              /\ \E s \in {"rotate", "skip", "failed"} : Goto(p, s)
  BY DEF TakeResult
<1>3. Told(r)' /\ BagToSet(results') \subseteq BagToSet(results)
  BY <1>2, OneBag, LessInBag, StaysBack DEF MessagesTell, TaskTypes, QueueTypes
<1>4. CASE writes' = Append(writes, r) /\ UNCHANGED procVars
  <2>1. \A i \in DOMAIN writes' : writes'[i] = r \/ (i \in DOMAIN writes /\ writes'[i] = writes[i])
    BY <1>2, <1>4 DEF TaskTypes, ServerTypes, QueueTypes
  <2>2. \A m : Told(m) => Told(m)'
    BY StaysBack
  <2>3. (\A i \in DOMAIN writes : Told(writes[i]))'
    BY <1>3, <2>1, <2>2 DEF MessagesTell, Told, Back, RefundsOf
  <2>4. MessagesTell'
    BY <1>3, <2>3, MessagesCome DEF TakeResult, workerVars
  <2> QED
    BY <1>4, <2>4, RowKept, ActorsKept DEF TakeResult, rowVars, procVars
<1>5. CASE res' = [res EXCEPT ![p] = r] /\ UNCHANGED <<arg, asked, writes>>
           /\ \E s \in {"rotate", "skip", "failed"} : Goto(p, s)
  <2>1. /\ pc'[p] \in {"rotate", "skip", "failed"} /\ res'[p] = r
        /\ \A q \in Actor : q # p => pc'[q] = pc[q] /\ res'[q] = res[q] /\ arg'[q] = arg[q]
    BY <1>1, <1>5 DEF Goto, TaskTypes, ProcTypes
  <2>2. Tells(p)'
    BY <1>3, <2>1 DEF Tells, FailStep, RetryStep, Told, Back, RefundsOf
  <2>3. ActorsTell'
    BY <1>1, <2>1, <2>2, OneActor
  <2>4. MessagesTell'
    BY <1>3, <1>5, WritesKept, MessagesCome DEF TakeResult, workerVars
  <2> QED
    BY <2>3, <2>4, RowKept DEF TakeResult, rowVars
<1> QED
  BY <1>2, <1>4, <1>5

\* A job of an attempt that was charged is published, or not.
LEMMA JobTold ==
    ASSUME TaskTypes, MessagesTell, LedgerGrows, NEW a, a \in charged', NEW tried,
           jobs' = jobs (+) One(NewJob(a, tried)) \/ UNCHANGED jobs, UNCHANGED <<results, running, writes>>
    PROVE  MessagesTell'
<1>1. NewJob(a, tried).attempt = a
  BY DEF NewJob
<1>2. \A j \in BagToSet(jobs') : j \in BagToSet(jobs) \/ j.attempt = a
  BY <1>1, OneBag, MoreInBag DEF TaskTypes, QueueTypes
<1> QED
  BY <1>2, WritesKept, MessagesCome

LEMMA FindTells ==
    ASSUME Before, NEW p \in Handler,
           RotateKey(p) \/ SkipKey(p) \/ Republish(p) \/ FailedResultArrives(p)
    PROVE  GivenBackFirst'
<1> USE DEF Before, GivenBackFirst
<1>1. p \in Actor /\ p # "api" /\ p # "cleaner" /\ pc[p] \in ProcessStep
  BY ConstantTypes DEF RotateKey, SkipKey, Republish, FailedResultArrives, ProcessStep
<1>2. /\ res[p].attempt \in Attempt /\ res[p].credits \in {0, 1}
      /\ Told(res[p]) /\ res[p].attempt \in charged'
  BY <1>1, HeldType DEF TaskTypes, ActorsTell, Tells, Told, LedgerGrows
<1>3. status # "none"
  BY <1>1 DEF InsertedFirst, NothingYet, ProcessStep
<1>4. {"skip", "republish", "failed", "retryRefund", "retryCharge"} \subseteq ProcessStep
  BY DEF ProcessStep
<1>5. ASSUME NEW s \in {"idle", "skip", "republish", "failed", "retryRefund"}, Goto(p, s), UNCHANGED <<res, arg>>
      PROVE  ActorsTell'
  BY <1>1, <1>4, <1>5, HandlerGoes DEF RetryStep, FailStep
<1>6. ASSUME NEW n, NEW text, CallFail(p, res[p].attempt, n, text), UNCHANGED res
      PROVE  ActorsTell'
  BY <1>1, <1>2, <1>6, HandlerFails DEF Known
<1>7. CASE RotateKey(p)
  <2>1. ActorsTell'
    BY <1>5, <1>6, <1>7 DEF RotateKey
  <2>2. jobs' = jobs (+) One(NewJob(res[p].attempt, res[p].tried)) \/ UNCHANGED jobs
    BY <1>7 DEF RotateKey
  <2> QED
    BY <1>2, <1>7, <2>1, <2>2, JobTold, RowKept DEF RotateKey, rowVars, workerVars
<1>8. CASE SkipKey(p)
  <2>1. ActorsTell'
    BY <1>5, <1>8 DEF SkipKey
  <2>2. RowTells'
    BY <1>3, <1>8, RowKept DEF SkipKey, Unchecked, SetStatus, rowVars
  <2> QED
    BY <1>8, <2>1, <2>2, MessagesKept DEF SkipKey, queueVars, workerVars
<1>9. CASE Republish(p)
  <2>1. ActorsTell'
    BY <1>5, <1>6, <1>9 DEF Republish
  <2>2. jobs' = jobs (+) One(NewJob(res[p].attempt, res[p].tried)) \/ UNCHANGED jobs
    BY <1>9 DEF Republish
  <2> QED
    BY <1>2, <1>9, <2>1, <2>2, JobTold, RowKept DEF Republish, rowVars, workerVars
<1>10. CASE FailedResultArrives(p)
  <2>1. ASSUME res[p].attempt < Channels, Goto(p, IF res[p].credits > 0 THEN "retryRefund" ELSE "retryCharge"),
               UNCHANGED arg
        PROVE  ActorsTell'
    <3>1. CASE res[p].credits > 0
      BY <1>5, <1>10, <2>1, <3>1 DEF FailedResultArrives
    <3>2. CASE res[p].credits = 0
      <4>1. Back(res[p].attempt)'
        BY <1>2, <1>10, <2>1, <3>2, StaysBack DEF Told, FailedResultArrives
      <4> QED
        BY <1>1, <1>4, <1>10, <2>1, <3>2, <4>1, HandlerGoes DEF FailedResultArrives, RetryStep, FailStep
    <3> QED
      BY <1>2, <3>1, <3>2
  <2>2. ActorsTell'
    BY <1>6, <1>10, <2>1 DEF FailedResultArrives
  <2> QED
    BY <1>10, <2>2, RowKept, MessagesKept DEF FailedResultArrives, rowVars, queueVars, workerVars
<1> QED
  BY <1>7, <1>8, <1>9, <1>10

LEMMA RetryTells ==
    ASSUME Before, Channels <= 2 \/ OnlyLastPolled, NEW p \in Handler,
           RetryRefund(p) \/ RetryZero(p) \/ RetryCharge(p) \/ RetryWrite(p) \/ RetryUpdate(p) \/ RetryPublish(p)
    PROVE  GivenBackFirst'
<1> USE DEF Before, GivenBackFirst
<1>1. p \in Actor /\ p # "api" /\ p # "cleaner" /\ pc[p] \in ProcessStep /\ UNCHANGED res
  BY ConstantTypes DEF RetryRefund, RetryZero, RetryCharge, RetryWrite, RetryUpdate, RetryPublish, ProcessStep
<1>2. /\ res[p].attempt \in Attempt /\ res[p].attempt < Channels
      /\ res[p].attempt \in charged'
      /\ pc[p] \in RetryStep => Back(res[p].attempt)
      /\ pc[p] \in {"retryUpdate", "retryPublish"} => res[p].attempt + 1 \in charged
  <2>1. res[p].attempt \in Attempt /\ Fits(res[p], pc[p]) /\ Tells(p)
    BY <1>1, HeldType DEF TaskTypes, ProcTypes, ActorsTell
  <2>2. pc[p] \in NextStep
    BY DEF RetryRefund, RetryZero, RetryCharge, RetryWrite, RetryUpdate, RetryPublish, NextStep, RetryStep
  <2> QED
    BY <1>1, <2>1, <2>2 DEF Tells, Told, Fits, LedgerGrows
<1>3. res[p].attempt + 1 \in Attempt
  BY <1>2, ConstantTypes DEF Attempt
<1>4. RetryStep \subseteq ProcessStep /\ status # "none"
  BY <1>1 DEF RetryStep, ProcessStep, InsertedFirst, NothingYet
<1>5. ASSUME NEW n, NEW text, CallFail(p, res[p].attempt, n, text)
      PROVE  ActorsTell'
  BY <1>1, <1>2, <1>5, HandlerFails DEF Known
<1>6. ASSUME NEW s \in RetryStep \cup {"idle"}, Goto(p, s), UNCHANGED arg, Back(res[p].attempt)',
             s \in {"retryUpdate", "retryPublish"} => res[p].attempt + 1 \in charged'
      PROVE  ActorsTell'
  <2>1. s \notin FailStep
    BY DEF RetryStep, FailStep
  <2>2. s # "failZero"
    BY <2>1 DEF FailStep
  <2> QED
    BY <1>1, <1>4, <1>6, <2>1, <2>2, HandlerGoes
<1>7. pc[p] \in RetryStep => Back(res[p].attempt)'
  BY <1>1, <1>2, StaysBack
<1>8. CASE RetryRefund(p)
  <2>1. CASE WriteRefund(res[p].attempt, "channelRetry") /\ Goto(p, "retryZero") /\ UNCHANGED arg
    <3>1. Back(res[p].attempt)'
      BY <1>1, <2>1, FailureNamed DEF WriteRefund, Back, RefundsOf
    <3> QED
      BY <1>6, <1>8, <2>1, <3>1, RowKept, MessagesKept DEF RetryRefund, RetryStep, rowVars, queueVars, workerVars
  <2>2. CASE CallFail(p, res[p].attempt, 0, res[p].text)
    BY <1>5, <1>8, <2>2, RowKept, MessagesKept DEF RetryRefund, rowVars, queueVars, workerVars
  <2> QED
    BY <1>8, <2>1, <2>2 DEF RetryRefund
<1>9. CASE RetryZero(p)
  <2>1. ActorsTell'
    BY <1>6, <1>7, <1>9 DEF RetryZero, RetryStep
  <2>2. UNCHANGED <<attempt, upstream>>
    BY <1>9 DEF RetryZero, Unchecked, SetRow, rowVars
  <2>3. RowTells'
    BY <1>2, <1>9, <2>2, RowZeroed DEF RetryZero, RetryStep
  <2> QED
    BY <1>9, <2>1, <2>3, MessagesKept DEF RetryZero, queueVars, workerVars
<1>10. CASE RetryCharge(p)
  <2>1. ActorsTell'
    BY <1>5, <1>6, <1>7, <1>10 DEF RetryCharge, RetryStep
  <2> QED
    BY <1>10, <2>1, RowKept, MessagesKept DEF RetryCharge, rowVars, queueVars, workerVars
<1>11. CASE RetryWrite(p)
  <2>1. CASE charged' = charged \cup {res[p].attempt + 1} /\ Goto(p, "retryUpdate") /\ UNCHANGED arg
    BY <1>6, <1>7, <1>11, <2>1, RowKept, MessagesKept DEF RetryWrite, RetryStep, rowVars, queueVars, workerVars
  <2>2. CASE CallFail(p, res[p].attempt, 0, res[p].text)
    BY <1>5, <1>11, <2>2, RowKept, MessagesKept DEF RetryWrite, rowVars, queueVars, workerVars
  <2> QED
    BY <1>11, <2>1, <2>2 DEF RetryWrite
<1>12. CASE RetryUpdate(p)
  <2>1. res[p].attempt + 1 \in charged'
    BY <1>2, <1>12 DEF RetryUpdate, LedgerGrows
  <2>2. ActorsTell'
    BY <1>6, <1>7, <1>12, <2>1 DEF RetryUpdate, RetryStep
  <2>3. RowTells'
    <3>1. CASE UNCHANGED rowVars
      BY <3>1, RowKept DEF rowVars
    <3>2. CASE attempt' = res[p].attempt + 1 /\ credits' = 1 /\ UNCHANGED upstream
      BY <2>1, <3>2 DEF RowTells, Known, LedgerGrows
    <3> QED
      BY <1>12, <3>1, <3>2 DEF RetryUpdate, Unchecked, SetRow
  <2> QED
    BY <1>12, <2>2, <2>3, MessagesKept DEF RetryUpdate, queueVars, workerVars
<1>13. CASE RetryPublish(p)
  <2>1. res[p].attempt + 1 \in charged'
    BY <1>2, <1>13 DEF RetryPublish, LedgerGrows
  <2>2. CASE jobs' = jobs (+) One(NewJob(res[p].attempt + 1, 0)) /\ Goto(p, "idle") /\ UNCHANGED arg
    <3>1. MessagesTell'
      BY <1>13, <2>1, <2>2, JobTold DEF RetryPublish, workerVars
    <3> QED
      BY <1>6, <1>7, <1>13, <2>2, <3>1, RowKept DEF RetryPublish, RetryStep, rowVars
  <2>3. CASE CallFail(p, res[p].attempt + 1, 1, "unpublished") /\ UNCHANGED jobs
    <3>1. ActorsTell'
      BY <1>1, <1>3, <2>1, <2>3, HandlerFails DEF Known
    <3> QED
      BY <1>13, <2>3, <3>1, RowKept, MessagesKept DEF RetryPublish, rowVars, queueVars, workerVars
  <2> QED
    BY <1>13, <2>2, <2>3 DEF RetryPublish
<1> QED
  BY <1>8, <1>9, <1>10, <1>11, <1>12, <1>13

\* A result that is told may come again.
LEMMA AgainTold ==
    ASSUME TaskTypes, NEW r \in Result, Told(r), LedgerGrows
    PROVE  /\ IsABag(Again(r)) /\ \A m \in BagToSet(Again(r)) : Told(m)'
           /\ \A n \in 0..MaxDeliver - 1 : Told([r EXCEPT !.left = n])'
<1>1. ASSUME NEW m, m.attempt = r.attempt, m.credits = r.credits, m.outcome = r.outcome PROVE Told(m)'
  <2>1. Told(r)'
    BY StaysBack
  <2> QED
    BY <1>1, <2>1 DEF Told
<1>2. ASSUME NEW n PROVE Told([r EXCEPT !.left = n])'
  <2>1. /\ [r EXCEPT !.left = n].attempt = r.attempt /\ [r EXCEPT !.left = n].credits = r.credits
        /\ [r EXCEPT !.left = n].outcome = r.outcome
    BY DEF Result
  <2> QED
    BY <1>1, <2>1
<1>3. \A m \in BagToSet(Again(r)) : m = [r EXCEPT !.left = r.left - 1]
  BY AgainBag
<1> QED
  BY <1>2, <1>3, AgainBag

LEMMA RedeliverTells ==
    ASSUME Before, RedeliverResult
    PROVE  GivenBackFirst'
<1> USE DEF Before, GivenBackFirst
<1>1. ASSUME NEW r \in Result, Told(r), results' = results (+) Again(r), (\A i \in DOMAIN writes : Told(writes[i]))'
      PROVE  MessagesTell'
  <2>1. \A m \in BagToSet(results') : m \in BagToSet(results) \/ m \in BagToSet(Again(r))
    BY <1>1, AgainTold, MoreInBag DEF TaskTypes, QueueTypes
  <2> QED
    BY <1>1, <2>1, AgainTold, MessagesCome DEF RedeliverResult, workerVars
<1>2. ASSUME NEW p \in Handler, pc[p] # "idle", results' = results (+) Again(res[p]),
             res' = [res EXCEPT ![p].left = 0], UNCHANGED writes
      PROVE  GivenBackFirst'
  <2>1. /\ p \in Actor /\ p # "cleaner" /\ p # "api" /\ res[p] \in Result
        /\ pc[p] \in ProcessStep
    BY <1>2, HeldType, ConstantTypes DEF TaskTypes, ProcTypes
  <2>2. Told(res[p])
    BY <2>1 DEF ActorsTell, Tells
  <2>3. MessagesTell'
    BY <1>1, <1>2, <2>1, <2>2, WritesKept
  <2>4. /\ [res[p] EXCEPT !.left = 0].attempt = res[p].attempt /\ [res[p] EXCEPT !.left = 0].credits = res[p].credits
        /\ [res[p] EXCEPT !.left = 0].outcome = res[p].outcome
    BY <2>1 DEF Result
  <2>5. /\ res'[p].attempt = res[p].attempt /\ res'[p].credits = res[p].credits /\ res'[p].outcome = res[p].outcome
        /\ \A q \in Actor : q # p => res'[q] = res[q]
    BY <1>2, <2>1, <2>4 DEF TaskTypes, ProcTypes
  <2>6. \A a : Back(a) => Back(a)'
    BY StaysBack
  <2>7. Tells(p)'
    <3>1. Tells(p) /\ UNCHANGED <<pc, arg>>
      BY <2>1 DEF ActorsTell, RedeliverResult
    <3> QED
      BY <2>5, <2>6, <3>1 DEF Tells, Told, Known, LedgerGrows, Back, RefundsOf
  <2>8. ActorsTell'
    BY <2>1, <2>5, <2>7, OneActor DEF RedeliverResult
  <2> QED
    BY <2>3, <2>8, RowKept DEF RedeliverResult, rowVars
<1>3. ASSUME NEW i \in DOMAIN writes, results' = results (+) Again(writes[i]),
             writes' = [writes EXCEPT ![i].left = 0], UNCHANGED res
      PROVE  GivenBackFirst'
  <2>1. writes[i] \in Result /\ Told(writes[i])
    BY DEF TaskTypes, ServerTypes, MessagesTell
  <2>2. /\ [writes[i] EXCEPT !.left = 0].attempt = writes[i].attempt
        /\ [writes[i] EXCEPT !.left = 0].credits = writes[i].credits
        /\ [writes[i] EXCEPT !.left = 0].outcome = writes[i].outcome
    BY <2>1 DEF Result
  <2>3. /\ DOMAIN writes' = DOMAIN writes
        /\ \A j \in DOMAIN writes : /\ writes'[j].attempt = writes[j].attempt /\ writes'[j].credits = writes[j].credits
                                    /\ writes'[j].outcome = writes[j].outcome
    BY <1>3, <2>2
  <2>4. \A a : Back(a) => Back(a)'
    BY StaysBack
  <2>5. (\A j \in DOMAIN writes : Told(writes[j]))'
    BY <2>3, <2>4 DEF MessagesTell, Told, LedgerGrows, Back, RefundsOf
  <2>6. MessagesTell'
    BY <1>1, <1>3, <2>1, <2>5
  <2> QED
    BY <1>3, <2>6, RowKept, ActorsKept DEF RedeliverResult, rowVars
<1> QED
  BY <1>2, <1>3 DEF RedeliverResult

LEMMA FlushTells ==
    ASSUME Before, FlushBatch
    PROVE  GivenBackFirst'
<1> USE DEF Before, GivenBackFirst
<1>1. PICK n \in 1..Len(writes) :
        LET batch == {writes[i] : i \in 1..n} IN
        \E lost \in SUBSET {r.outcome : r \in batch} :
        LET asyncs == {r \in batch : r.outcome = "async" /\ "async" \notin lost} IN
        /\ writes' = SubSeq(writes, n + 1, Len(writes))
        /\ \/ /\ SetRow("processing", attempt, credits)
              /\ \E r \in asyncs : upstream' = r.attempt
           \/ SetStatus("done")
           \/ UNCHANGED rowVars
  BY DEF FlushBatch
<1>2. /\ writes' = SubSeq(writes, n + 1, Len(writes))
      /\ \/ SetRow("processing", attempt, credits) /\ \E i \in 1..n : writes[i].outcome = "async" /\ upstream' = writes[i].attempt
         \/ SetStatus("done")
         \/ UNCHANGED rowVars
  BY <1>1
<1>3. 1..n \subseteq DOMAIN writes /\ writes \in Seq(Result)
  BY DEF TaskTypes, ServerTypes
<1>4. \A i \in DOMAIN writes' : i + n \in DOMAIN writes /\ writes'[i] = writes[i + n]
  <2>1. Len(writes) \in Nat /\ n \in 1..Len(writes) /\ DOMAIN writes = 1..Len(writes)
    BY <1>3
  <2> QED
    BY <1>2, <1>3, <2>1
<1>5. \A m : Told(m) => Told(m)'
  BY StaysBack
<1>6. (\A i \in DOMAIN writes : Told(writes[i]))'
  BY <1>4, <1>5 DEF MessagesTell, Told, Back, RefundsOf
<1>7. MessagesTell'
  BY <1>6, MessagesCome DEF FlushBatch, queueVars, workerVars
<1>8. ASSUME NEW i \in 1..n, writes[i].outcome = "async"
      PROVE  1 \in charged' /\ (OnlyLastPolled => Channels \in charged')
  <2>1. writes[i] \in Result /\ writes[i].attempt \in charged /\ writes[i].attempt \in Async
    BY <1>3, <1>8 DEF MessagesTell, Told
  <2>2. 1 \in Attempt /\ (writes[i].attempt = 1 \/ 1 < writes[i].attempt)
    BY <2>1, ConstantTypes DEF Attempt, Result
  <2> QED
    BY <2>1, <2>2 DEF ChargedInOrder, LedgerGrows, OnlyLastPolled
<1>9. RowTells'
  <2>1. status # "none"
    BY DEF FlushBatch, InsertedFirst, NothingYet
  <2>2. CASE /\ SetRow("processing", attempt, credits)
             /\ \E i \in 1..n : writes[i].outcome = "async" /\ upstream' = writes[i].attempt
    <3>1. Known(attempt)' /\ (Back(attempt) => Back(attempt)')
      BY <2>2, StaysBack DEF RowTells, SetRow
    <3> QED
      BY <1>8, <2>1, <2>2, <3>1 DEF SetRow, RowTells, OnlyLastPolled
  <2>3. CASE SetStatus("done") \/ UNCHANGED rowVars
    BY <2>1, <2>3, RowKept DEF SetStatus, rowVars
  <2> QED
    BY <1>2, <2>2, <2>3
<1> QED
  BY <1>7, <1>9, ActorsKept DEF FlushBatch, procVars

\* The sweep and the poller read what the row tells.
LEMMA SweepTells ==
    ASSUME Before, CleanStaleTask \/ PollTask
    PROVE  GivenBackFirst'
<1> USE DEF Before, GivenBackFirst
<1>1. {"cleaner", "poller"} \subseteq Actor /\ "poller" # "cleaner"
  BY ConstantTypes
<1>2. MessagesTell' /\ RowTells'
  BY RowKept, MessagesKept DEF CleanStaleTask, PollTask, rowVars, queueVars, workerVars
<1>3. /\ FailedResult(Row, "stale").attempt = attempt /\ FailedResult(Row, "stale").credits = credits
      /\ FailedResult(Row, "stale").outcome = "failed"
  BY DEF FailedResult, Row
<1>4. CASE CleanStaleTask
  <2>1. /\ pc'["cleaner"] = "fail" /\ arg'["cleaner"].attempt = attempt
        /\ \A q \in Actor : q # "cleaner" => pc'[q] = pc[q] /\ res'[q] = res[q] /\ arg'[q] = arg[q]
    BY <1>1, <1>4 DEF CleanStaleTask, CallFail, Goto, ReadRow, TaskTypes, ProcTypes
  <2>2. Tells("cleaner")'
    BY <1>4, <2>1 DEF CleanStaleTask, Tells, RetryStep, RowTells, Known, LedgerGrows
  <2> QED
    BY <1>1, <1>2, <2>1, <2>2, OneActor
<1>5. CASE PollTask
  <2>1. /\ pc'["poller"] = "poll" /\ res'["poller"] = FailedResult(Row, "stale")
        /\ \A q \in Actor : q # "poller" => pc'[q] = pc[q] /\ res'[q] = res[q] /\ arg'[q] = arg[q]
    BY <1>1, <1>5 DEF PollTask, Goto, ReadRow, TaskTypes, ProcTypes
  <2>2. attempt \in charged /\ status # "none" /\ UNCHANGED attempt
    BY <1>5 DEF PollTask, RowTells, Known, rowVars
  <2>3. Told(FailedResult(Row, "stale"))
    <3>1. OnlyLastPolled /\ attempt < Channels => Back(attempt)
      BY <1>5 DEF PollTask, RowTells, ChargedInOrder, TaskTypes, RowTypes
    <3> QED
      BY <1>3, <2>2, <3>1 DEF Told, RowTells
  <2>4. \A a : Back(a) => Back(a)'
    BY StaysBack
  <2>5. Tells("poller")'
    BY <2>1, <2>3, <2>4 DEF Tells, RetryStep, FailStep, Told, LedgerGrows, Back, RefundsOf
  <2> QED
    BY <1>1, <1>2, <2>1, <2>5, OneActor
<1> QED
  BY <1>4, <1>5

LEMMA PollTells ==
    ASSUME Before, PollOne
    PROVE  GivenBackFirst'
<1> USE DEF Before, GivenBackFirst
<1>1. "poller" \in Actor /\ "poller" # "api" /\ "poller" # "cleaner" /\ pc["poller"] = "poll"
      /\ UNCHANGED <<res, jobs, running, writes>>
  BY ConstantTypes DEF PollOne, PollAged, PollNothing, PollDone, PollFailed, workerVars, queueVars
<1>2. /\ res["poller"].attempt \in Attempt /\ res["poller"].attempt \in charged' /\ Told(res["poller"])
      /\ pc["poller"] \in ProcessStep
  BY <1>1, HeldType DEF TaskTypes, ActorsTell, Tells, Told, LedgerGrows, ProcessStep
<1>3. ASSUME Goto("poller", "idle"), UNCHANGED arg PROVE ActorsTell'
  BY <1>1, <1>2, <1>3, HandlerGoes DEF RetryStep, FailStep
<1>4. ASSUME NEW text, PublishFailedResult(text), UNCHANGED rowVars PROVE GivenBackFirst'
  <2>1. CASE results' = results (+) One(FailedResult(res["poller"], text)) /\ Goto("poller", "idle") /\ UNCHANGED arg
    <3>1. /\ FailedResult(res["poller"], text).attempt = res["poller"].attempt
          /\ FailedResult(res["poller"], text).credits = res["poller"].credits
          /\ FailedResult(res["poller"], text).outcome = "failed"
      BY DEF FailedResult
    <3>2. Told(FailedResult(res["poller"], text))
      BY <1>2, <3>1 DEF Told
    <3>3. \A m \in BagToSet(results') : m \in BagToSet(results) \/ m = FailedResult(res["poller"], text)
      BY <2>1, OneBag, MoreInBag DEF TaskTypes, QueueTypes
    <3>4. \A m : Told(m) => Told(m)'
      BY StaysBack
    <3>5. \A m \in BagToSet(results') : m \in BagToSet(results) \/ Told(m)'
      BY <3>2, <3>3, <3>4
    <3>6. MessagesTell'
      BY <1>1, <3>5, WritesKept, MessagesCome
    <3> QED
      BY <1>3, <1>4, <2>1, <3>6, RowKept DEF rowVars
  <2>2. CASE CallFail("poller", res["poller"].attempt, res["poller"].credits, text) /\ UNCHANGED results
    <3>1. ActorsTell'
      BY <1>1, <1>2, <2>2, HandlerFails DEF Known
    <3> QED
      BY <1>1, <1>4, <2>2, <3>1, RowKept, MessagesKept DEF rowVars
  <2> QED
    BY <1>4, <2>1, <2>2 DEF PublishFailedResult
<1>5. CASE PollAged \/ PollFailed
  BY <1>4, <1>5 DEF PollAged, PollFailed
<1>6. CASE PollNothing
  BY <1>3, <1>6, RowKept, MessagesKept DEF PollNothing, rowVars, queueVars, workerVars
<1>7. CASE PollDone
  <2>1. status # "none"
    BY <1>1 DEF InsertedFirst, NothingYet
  <2>2. RowTells'
    BY <1>7, <2>1, RowKept DEF PollDone, Unchecked, SetStatus, rowVars
  <2> QED
    BY <1>3, <1>7, <2>2, MessagesKept DEF PollDone, queueVars, workerVars
<1> QED
  BY <1>5, <1>6, <1>7 DEF PollOne

LEMMA ServerDiesTells ==
    ASSUME Before, ServerDies
    PROVE  GivenBackFirst'
<1> USE DEF Before, GivenBackFirst
<1> DEFINE unacked == {p \in Handler : pc[p] # "idle"}
           held    == {res[p] : p \in unacked} \cup {writes[i] : i \in DOMAIN writes}
           copies  == [m \in held |-> Cardinality({p \in unacked : res[p] = m})
                                    + Cardinality({i \in DOMAIN writes : writes[i] = m})]
           again   == {m \in held : m.left > 0}
           less(m) == [m EXCEPT !.left = @ - 1]
           back    == [m \in {less(n) : n \in again} |-> copies[[m EXCEPT !.left = @ + 1]]]
<1>1. results' = results (+) back
  BY DEF ServerDies
<1>2. ASSUME NEW m \in held PROVE m \in Result /\ Told(m)
  <2>1. ASSUME NEW p \in unacked PROVE res[p] \in Result /\ Told(res[p])
    <3>1. p \in Actor /\ p # "cleaner" /\ pc[p] \in ProcessStep
      BY ConstantTypes DEF TaskTypes, ProcTypes
    <3> QED
      BY <3>1, HeldType DEF TaskTypes, ActorsTell, Tells
  <2>2. \A i \in DOMAIN writes : writes[i] \in Result /\ Told(writes[i])
    BY DEF TaskTypes, ServerTypes, MessagesTell
  <2> QED
    BY <2>1, <2>2
<1> HIDE DEF copies, held
<1>3. ASSUME NEW n \in again PROVE Told(less(n))
  <2>1. n \in Result /\ Told(n)
    BY <1>2
  <2>2. less(n).attempt = n.attempt /\ less(n).credits = n.credits
    BY <2>1 DEF Result
  <2> QED
    BY <2>1, <2>2 DEF Told
<1>4. DOMAIN back = {less(n) : n \in again}
  OBVIOUS
<1> HIDE DEF less, again, back
<1>5. BagToSet(results') \subseteq BagToSet(results) \cup DOMAIN back
  <2>1. \A m \in DOMAIN (results (+) back) : m \in DOMAIN results \/ m \in DOMAIN back
    BY DEF (+)
  <2> QED
    BY <1>1, <2>1 DEF BagToSet
<1>6. \A m : Told(m) => Told(m)'
  BY StaysBack
<1>7. \A m \in BagToSet(results') : m \in BagToSet(results) \/ Told(m)'
  BY <1>3, <1>4, <1>5, <1>6
<1>8. writes' = <<>> /\ UNCHANGED <<jobs, running>>
  BY DEF ServerDies, workerVars
<1>9. (\A i \in DOMAIN writes : Told(writes[i]))'
  <2>1. DOMAIN writes' = {}
    BY <1>8
  <2> QED
    BY <2>1
<1>10. MessagesTell'
  BY <1>7, <1>8, <1>9, MessagesCome
<1>11. ActorsTell'
  <2>1. \A p \in Actor : pc'[p] = "idle"
    BY DEF ServerDies
  <2> QED
    BY <2>1, ConstantTypes DEF ActorsTell, ProcessStep
<1> QED
  BY <1>10, <1>11, RowKept DEF ServerDies, rowVars

LEMMA GivenBackSteps ==
    ASSUME Channels <= 2 \/ OnlyLastPolled, TaskTypes, InsertedFirst, GivenBackFirst, [Next]_vars
    PROVE  GivenBackFirst'
<1>1. Before
  BY StepTypes, LedgerStep, OnlyGrows, OrderSteps DEF Before, GivenBackFirst
<1>2. ASSUME NEW p \in Handler, handleResult(p) PROVE GivenBackFirst'
  BY <1>1, <1>2, TakeTells, FindTells, RetryTells, FailTells DEF handleResult
<1>3. ASSUME NEW p \in {"poller", "cleaner"}, failTaskDB(p) PROVE GivenBackFirst'
  BY <1>1, <1>3, FailTells
<1>4. CASE UpstreamEnds \/ GrowOld \/ UNCHANGED vars
  <2>1. UNCHANGED <<rowVars, queueVars, running, pc, res, arg, writes>>
    BY <1>4 DEF UpstreamEnds, GrowOld, vars, procVars, workerVars
  <2> QED
    BY <1>1, <2>1, RowKept, MessagesKept, ActorsKept DEF Before, GivenBackFirst, rowVars, queueVars
<1> QED
  BY <1>1, <1>2, <1>3, <1>4, CreateTells, WorkerTells, RedeliverTells, FlushTells, SweepTells, PollTells,
     ServerDiesTells DEF Next

LEMMA InitGiven == Init => InsertedFirst /\ GivenBackFirst
<1> SUFFICES ASSUME Init PROVE InsertedFirst /\ GivenBackFirst
  OBVIOUS
<1>1. TaskTypes
  BY InitTypes
<1>2. \A p \in Actor : pc[p] = IF p = "api" THEN "start" ELSE "idle"
  BY DEF Init
<1>3. pc["api"] = "start" /\ "start" \notin ProcessStep /\ "idle" \notin ProcessStep
  BY <1>2, ConstantTypes DEF ProcessStep
<1>4. InsertedFirst
  BY <1>2, <1>3 DEF Init, InsertedFirst, NothingYet, CreateStep
<1>5. DOMAIN writes = {} /\ BagToSet(jobs) = {} /\ BagToSet(running) = {} /\ BagToSet(results) = {}
  <2>1. writes = <<>>
    BY DEF Init
  <2> QED
    BY <2>1, NoBag DEF Init
<1>6. ActorsTell
  BY <1>2, <1>3 DEF ActorsTell
<1>7. ChargedInOrder /\ MessagesTell /\ RowTells
  BY <1>5 DEF Init, ChargedInOrder, MessagesTell, RowTells, Known, Back, RefundsOf
<1> QED
  BY <1>4, <1>6, <1>7 DEF GivenBackFirst

LEMMA TaskInvariant ==
    ASSUME Channels <= 2 \/ OnlyLastPolled
    PROVE  Spec => [](TaskTypes /\ InsertedFirst /\ GivenBackFirst)
<1>1. Init => TaskTypes /\ InsertedFirst /\ GivenBackFirst
  BY InitTypes, InitGiven
<1>2. TaskTypes /\ InsertedFirst /\ GivenBackFirst /\ [Next]_vars => (TaskTypes /\ InsertedFirst /\ GivenBackFirst)'
  BY StepTypes, InsertedSteps, GivenBackSteps
<1> QED
  BY <1>1, <1>2, PTL DEF Spec

\* What a user pays for is charged and was never refunded.
LEMMA PaidIsNotBack == Paid = {a \in charged : ~Back(a)}
BY DEF Paid, Returned, Back, RefundsOf

LEMMA AtMostOnePaid ==
    ASSUME TaskTypes, GivenBackFirst
    PROVE  Paid = {} \/ \E a \in charged : Paid = {a}
<1>1. charged \subseteq Attempt /\ Attempt \subseteq Nat
  BY ConstantTypes DEF TaskTypes, LedgerTypes
<1>2. \A a, b \in Paid : a = b
  BY <1>1, PaidIsNotBack DEF GivenBackFirst, ChargedInOrder
<1> QED
  BY <1>2, PaidIsNotBack

\* The user of a task never pays for two of its channels at a time, whatever
\* handlers, redeliveries, crashes, timeouts and failures come between the charges
\* and the refunds of handleResult, failTaskDB and createTask: of one or two
\* channels, or of any number of them if only the last is polled.  (Of three
\* channels whose second is polled, a late sweep breaks this.)
THEOREM OneChannelPaid ==
    ASSUME Channels <= 2 \/ Async \subseteq {Channels}
    PROVE  Spec => []OneAttemptPaid
<1>1. TaskTypes /\ GivenBackFirst => OneAttemptPaid
  <2> SUFFICES ASSUME TaskTypes, GivenBackFirst PROVE Cardinality(Paid) <= 1
    BY DEF OneAttemptPaid
  <2>1. CASE Paid = {}
    BY <2>1, FS_EmptySet
  <2>2. ASSUME NEW a \in charged, Paid = {a} PROVE Cardinality(Paid) <= 1
    <3>1. Cardinality({a}) = 1
      BY FS_Singleton
    <3> QED
      BY <2>2, <3>1
  <2> QED
    BY <2>1, <2>2, AtMostOnePaid
<1> QED
  BY <1>1, TaskInvariant, PTL DEF OnlyLastPolled

-----------------------------------------------------------------------------
(***************************************************************************)
(* The contract of TaskPromise.                                            *)
(***************************************************************************)

\* The attempts that were charged are the first ones.
LEMMA ChargedUpTo ==
    ASSUME TaskTypes, GivenBackFirst, NEW a \in charged, a + 1 \notin charged
    PROVE  a \in Attempt /\ charged = 1..a
<1>1. charged \subseteq 1..Channels /\ Channels \in Nat /\ Attempt = 1..Channels
  BY ConstantTypes DEF TaskTypes, LedgerTypes, Attempt
<1>2. \A b \in 1..a : b \in charged
  BY <1>1 DEF GivenBackFirst, ChargedInOrder
<1>3. ASSUME NEW b \in charged PROVE b \in 1..a
  <2>1. b \in Nat /\ a \in Nat /\ b >= 1
    BY <1>1
  <2>2. CASE b > a + 1
    <3>1. a + 1 \in Attempt
      BY <1>1, <2>1, <2>2
    <3> QED
      BY <2>2, <3>1 DEF GivenBackFirst, ChargedInOrder
  <2> QED
    BY <2>1, <2>2
<1> QED
  BY <1>1, <1>2, <1>3

LEMMA CountUpTo == ASSUME NEW a \in Nat PROVE Cardinality(1..a) = a
BY FS_Interval

\* The variables of TaskPromise.
PaidNow == IF Paid = {} THEN 0 ELSE CHOOSE a \in Paid : TRUE
Last    == Cardinality(charged)

LEMMA OnlyPaid ==
    ASSUME NEW a
    PROVE  (Paid = {a} => PaidNow = a) /\ ((Paid = {a})' => PaidNow' = a)
           /\ (Paid = {} => PaidNow = 0) /\ ((Paid = {})' => PaidNow' = 0)
BY DEF PaidNow

LEMMA KeptStep ==
    ASSUME Channels <= 2 \/ OnlyLastPolled, "slow" \notin Env, TaskTypes, InsertedFirst, GivenBackFirst, [Next]_vars
    PROVE  [Promise!Next]_<<PaidNow, Last>>
<1>1. LedgerSteps /\ Channels \in Nat \ {0}
  BY LedgerStep, ConstantTypes DEF GivenBackFirst
<1>2. CASE UNCHANGED ledgerVars
  BY <1>2 DEF ledgerVars, PaidNow, Last, Paid, Returned
<1>3. CASE pc["api"] = "charge" /\ Charge(1)
  <2>1. charged = {} /\ refunded = {}
    BY <1>3 DEF InsertedFirst, NothingYet
  <2>2. charged' = {1} /\ refunded' = {}
    BY <1>3, <2>1 DEF Charge
  <2>3. Paid = {} /\ (Paid = {1})'
    BY <2>1, <2>2 DEF Paid, Returned
  <2>4. PaidNow = 0 /\ PaidNow' = 1
    BY <2>3, OnlyPaid
  <2>5. Last = 0 /\ Last' = 1
    BY <2>1, <2>2, FS_EmptySet, FS_Singleton DEF Last
  <2> QED
    BY <1>1, <2>4, <2>5 DEF Promise!Next, Promise!Pay, PaidNow, Last
<1>4. CASE \E a \in charged : a < Channels /\ Back(a) /\ a + 1 \notin charged /\ Charge(a + 1)
  <2>1. PICK a \in charged : a < Channels /\ Back(a) /\ a + 1 \notin charged /\ Charge(a + 1)
    BY <1>4
  <2>2. a \in Attempt /\ charged = 1..a /\ a \in Nat /\ a + 1 \in Attempt
    BY <1>1, <2>1, ChargedUpTo DEF Attempt
  <2>3. charged' = 1..(a + 1) /\ charged' = charged \cup {a + 1} /\ UNCHANGED refunded
    BY <2>1, <2>2 DEF Charge
  <2>4. ~Back(a + 1) /\ \A b \in charged : Back(b)
    <3>1. a + 1 # 1 /\ \A b \in charged : b \in Attempt /\ (b < a \/ b = a)
      BY <1>1, <2>2 DEF Attempt
    <3>2. ~Back(a + 1)
      BY <2>1, <2>2, <3>1 DEF GivenBackFirst, ChargedInOrder, Known
    <3> QED
      BY <2>1, <2>2, <3>1, <3>2 DEF GivenBackFirst, ChargedInOrder
  <2>5. Paid = {}
    BY <2>4, PaidIsNotBack
  <2>6. (Paid = {a + 1})'
    BY <2>3, <2>4 DEF Paid, Returned, Back, RefundsOf
  <2>7. PaidNow = 0 /\ PaidNow' = a + 1
    BY <2>5, <2>6, OnlyPaid
  <2>8. Last = a /\ Last' = a + 1
    BY <2>2, <2>3, CountUpTo DEF Last
  <2> QED
    BY <2>1, <2>7, <2>8 DEF Promise!Next, Promise!Pay, PaidNow, Last
<1>5. CASE UNCHANGED charged /\ \E a \in Attempt, reason \in Reason : Known(a) /\ WriteRefund(a, reason)
  <2>1. PICK a \in Attempt, reason \in Reason : WriteRefund(a, reason)
    BY <1>5
  <2>2. Paid' = Paid \ {a}
    <3>1. Back(a)' /\ \A b : Back(b)' => b = a \/ Back(b)
      BY <2>1, RefundOf
    <3>2. \A b : Back(b) => Back(b)'
      BY <1>1, OnlyGrows, StaysBack
    <3>3. Paid' = {b \in charged : ~Back(b)'}
      BY <1>5, PaidIsNotBack DEF Paid, Returned, Back, RefundsOf
    <3> QED
      BY <3>1, <3>2, <3>3, PaidIsNotBack
  <2>3. Last' = Last
    BY <1>5 DEF Last
  <2>4. CASE a \notin Paid
    <3>1. Paid' = Paid
      BY <2>2, <2>4
    <3>2. PaidNow' = PaidNow
      BY <3>1 DEF PaidNow
    <3> QED
      BY <2>3, <3>2
  <2>5. CASE a \in Paid
    <3>1. Paid = {a} /\ (Paid = {})'
      BY <2>2, <2>5, AtMostOnePaid
    <3>2. PaidNow = a /\ PaidNow' = 0 /\ a # 0
      BY <3>1, OnlyPaid DEF Attempt
    <3> QED
      BY <2>3, <3>2 DEF Promise!Next, Promise!GiveBack, PaidNow, Last
  <2> QED
    BY <2>4, <2>5
<1> QED
  BY <1>1, <1>2, <1>3, <1>4, <1>5 DEF LedgerSteps

\* With such channels, and timeouts that leave a task its time, a task keeps the
\* contract of TaskPromise: its channels are paid for in order, each at most once,
\* and one is given back before the next is paid for.
THEOREM PromiseKept ==
    ASSUME Channels <= 2 \/ Async \subseteq {Channels}, "slow" \notin Env
    PROVE  Spec => KeepsPromise
<1>1. Init => Promise!Init
  BY FS_EmptySet DEF Init, Promise!Init, Paid
<1>2. TaskTypes /\ InsertedFirst /\ GivenBackFirst /\ [Next]_vars => [Promise!Next]_<<PaidNow, Last>>
  BY KeptStep DEF OnlyLastPolled
<1>3. Spec => [][Promise!Next]_<<PaidNow, Last>>
  BY <1>2, TaskInvariant, PTL DEF Spec, OnlyLastPolled
<1> QED
  BY <1>1, <1>3, PTL DEF Spec, KeepsPromise, Promise!Spec, PaidNow, Last
=============================================================================
