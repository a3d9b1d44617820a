--------------------------- MODULE TaskCalmProofs ---------------------------
(***************************************************************************)
(* Theorems about a task in calm weather: nothing fails but publishes, and *)
(* a channel that is polled has no next one. Then one thing happens at a   *)
(* time: the task is with one goroutine, one message or the upstream only, *)
(* and the ledger follows it from stage to stage.                          *)
(***************************************************************************)
EXTENDS TaskLifecycleProofs

-----------------------------------------------------------------------------
(***************************************************************************)
(* The stages of a task.                                                   *)
(***************************************************************************)

Calm == Env \subseteq {"publish", "redeliver"} /\ OnlyLastPolled

\* The first a attempts were charged, and all but the last of them given back, or all.
Open(a) == charged = 1..a /\ \A b \in Attempt : Back(b) <=> b < a
Shut(a) == charged = 1..a /\ \A b \in Attempt : Back(b) <=> b <= a

NoMessage == jobs = EmptyBag /\ running = EmptyBag /\ results = EmptyBag /\ writes = <<>>
Only(p)   == \A q \in Actor : q # p => pc[q] = "idle"
Resting   == \A q \in Actor : pc[q] = "idle"

Row1      == status = "pending" /\ attempt = 1 /\ credits = 1
Paying(a) == status = "processing" /\ attempt = a /\ credits = 1 /\ Open(a)

\* createTask is at work.
Creating ==
    /\ Only("api") /\ NoMessage /\ upstream = 0
    /\ \/ pc["api"] \in {"start", "insert"} /\ status = "none" /\ Shut(0)
       \/ pc["api"] = "charge" /\ Row1 /\ Shut(0)
       \/ pc["api"] \in {"publish", "pubFail"} /\ Row1 /\ Open(1)
       \/ pc["api"] = "pubRefund" /\ status = "failed" /\ Open(1)

\* It has published the job.
Marking ==
    /\ Only("api") /\ pc["api"] = "mark" /\ Row1 /\ Open(1) /\ upstream = 0
    /\ running = EmptyBag /\ results = EmptyBag /\ writes = <<>>
    /\ \E j \in BagToSet(jobs) : jobs = One(j) /\ j.attempt = 1

\* A worker has a job, or will have it.
AtWork ==
    /\ Resting /\ Paying(attempt) /\ upstream = 0 /\ results = EmptyBag /\ writes = <<>>
    /\ \/ running = EmptyBag /\ \E j \in BagToSet(jobs) : jobs = One(j) /\ j.attempt = attempt
       \/ jobs = EmptyBag /\ \E j \in BagToSet(running) : running = One(j) /\ j.attempt = attempt

\* The upstream has a task of the last attempt, which the poller asks for.
Polled == upstream = Channels /\ attempt = Channels

\* A result is waiting for a handler or for the batch writer.
Reports(r) ==
    /\ r.attempt = attempt /\ r.credits = 1
    /\ r.outcome = "async" => r.attempt \in Async
    /\ upstream = 0 \/ (Polled /\ r.outcome = "failed")
Reported ==
    /\ Resting /\ Paying(attempt) /\ jobs = EmptyBag /\ running = EmptyBag
    /\ \/ writes = <<>> /\ \E r \in BagToSet(results) : results = One(r) /\ Reports(r)
       \/ /\ results = EmptyBag /\ Len(writes) = 1 /\ Reports(writes[1])
          /\ writes[1].outcome \in {"done", "async"}

\* A handler works on a failed attempt or on the next one.
Handling(p) ==
    /\ Only(p) /\ NoMessage /\ status = "processing" /\ res[p].credits = 1
    /\ \/ pc[p] = "failed" /\ Paying(res[p].attempt) /\ (upstream = 0 \/ Polled)
       \/ pc[p] \in {"rotate", "skip", "republish", "retryRefund"} /\ Paying(res[p].attempt) /\ upstream = 0
       \/ pc[p] \in {"retryZero", "retryCharge", "retryWrite"} /\ Shut(res[p].attempt) /\ upstream = 0
       \/ pc[p] = "retryUpdate" /\ Open(res[p].attempt + 1) /\ upstream = 0
       \/ pc[p] = "retryPublish" /\ Paying(res[p].attempt + 1) /\ upstream = 0

\* failTaskDB is at work.
Failing(p) ==
    /\ Only(p) /\ NoMessage
    /\ (p = "cleaner" => upstream = 0) /\ (p = "poller" => upstream # 0)
    /\ (upstream = 0 \/ Polled) /\ (Channels \in charged => attempt = Channels)
    /\ \/ /\ pc[p] = "fail" /\ status = "processing"
          /\ IF arg[p].credits = 1 THEN Open(arg[p].attempt)
             ELSE Shut(arg[p].attempt) /\ arg[p].attempt < Channels
       \/ pc[p] = "failRefund" /\ status = "failed" /\ Open(arg[p].attempt)
       \/ pc[p] = "failZero" /\ status = "failed" /\ Shut(arg[p].attempt)

\* The poller asks.
Polling ==
    /\ Only("poller") /\ NoMessage /\ pc["poller"] = "poll" /\ Polled /\ Paying(Channels)
    /\ res["poller"].attempt = Channels /\ res["poller"].credits = 1 /\ asked = Channels

\* No message is under way: the poller or the sweep will take the task.
Waiting == Resting /\ NoMessage /\ Paying(attempt) /\ (upstream = 0 \/ Polled)

Ended ==
    /\ Resting /\ NoMessage
    /\ \/ status = "none"
       \/ status = "done" /\ Open(attempt)
       \/ status = "failed" /\ \E a \in Attempt : Shut(a)

OneStage ==
    \/ Creating \/ Marking \/ AtWork \/ Reported \/ Polling \/ Waiting \/ Ended
    \/ \E p \in Handler : Handling(p)
    \/ \E p \in Handler \cup {"poller", "cleaner"} : Failing(p)

-----------------------------------------------------------------------------
(***************************************************************************)
(* What cannot happen, and who is at work.                                 *)
(***************************************************************************)

\* A statement is carried out, nobody dies and nothing is late.
LEMMA Calmly ==
    ASSUME Calm
    PROVE  /\ Replies("db") = {"ok"}
           /\ ~Fault("worker") /\ ~Fault("server")
           /\ "slow" \notin Env /\ "slowCreate" \notin Env /\ "db" \notin Env
           /\ \A a \in Async : a = Channels
BY DEF Calm, OnlyLastPolled, Replies, Fault

\* The only message comes and goes.
LEMMA OneComes == ASSUME NEW m PROVE EmptyBag (+) One(m) = One(m)
<1>1. DOMAIN EmptyBag = {} /\ DOMAIN One(m) = {m} /\ One(m)[m] = 1
  BY DEF EmptyBag, One, SetToBag
<1>2. One(m) = [e \in {m} |-> 1]
  BY DEF One, SetToBag
<1> QED
  BY <1>1, <1>2 DEF (+)

LEMMA OneGoes == ASSUME NEW m PROVE One(m) (-) One(m) = EmptyBag
<1>1. DOMAIN One(m) = {m} /\ One(m)[m] = 1
  BY DEF One, SetToBag
<1>2. EmptyBag = [e \in {} |-> 1]
  BY DEF EmptyBag, SetToBag
<1>3. One(m) (-) One(m) = [e \in {} |-> One(m)[e] - One(m)[e]]
  BY <1>1 DEF (-)
<1> QED
  BY <1>2, <1>3

\* Whoever is at work is alone.
LEMMA WhoWorks ==
    ASSUME OneStage
    PROVE  /\ \A p \in Handler : pc[p] \notin FailStep \cup {"idle"} => Handling(p)
           /\ \A p \in Handler \cup {"poller", "cleaner"} : pc[p] \in FailStep => Failing(p)
           /\ pc["api"] # "idle" => Creating \/ Marking
           /\ pc["poller"] = "poll" => Polling
<1>1. ASSUME NEW p \in Actor, pc[p] # "idle"
      PROVE  \/ p = "api" /\ (Creating \/ Marking)
             \/ p = "poller" /\ Polling
             \/ p \in Handler /\ Handling(p)
             \/ p \in Handler \cup {"poller", "cleaner"} /\ Failing(p)
  <2>1. CASE Creating \/ Marking
    BY <1>1, <2>1 DEF Creating, Marking, Only
  <2>2. CASE AtWork \/ Reported \/ Waiting \/ Ended
    BY <1>1, <2>2 DEF AtWork, Reported, Waiting, Ended, Resting
  <2>3. CASE Polling
    BY <1>1, <2>3 DEF Polling, Only
  <2>4. CASE \E q \in Handler : Handling(q)
    BY <1>1, <2>4 DEF Handling, Only
  <2>5. CASE \E q \in Handler \cup {"poller", "cleaner"} : Failing(q)
    BY <1>1, <2>5 DEF Failing, Only
  <2> QED
    BY <2>1, <2>2, <2>3, <2>4, <2>5 DEF OneStage
<1>2. ASSUME NEW p \in Actor, Handling(p) PROVE pc[p] \notin FailStep
  BY <1>2 DEF Handling, FailStep
<1>3. ASSUME NEW p \in Actor, Failing(p) PROVE pc[p] \in FailStep
  BY <1>3 DEF Failing, FailStep
<1>4. Polling => pc["poller"] = "poll"
  BY DEF Polling
<1>5. "poll" \notin FailStep \cup {"idle"} /\ "idle" \notin FailStep
  BY DEF FailStep
<1> QED
  BY <1>1, <1>2, <1>3, <1>4, <1>5, ConstantTypes

\* A message is alone.
LEMMA WhatIsThere ==
    ASSUME OneStage
    PROVE  /\ jobs # EmptyBag => Marking \/ (AtWork /\ running = EmptyBag)
           /\ running # EmptyBag => AtWork /\ jobs = EmptyBag
           /\ results # EmptyBag => Reported /\ writes = <<>>
           /\ writes # <<>> => Reported /\ results = EmptyBag
BY NoBag DEF OneStage, Creating, Marking, AtWork, Reported, Polling, Waiting, Ended, Handling, Failing, NoMessage

\* When nothing is under way the poller or the sweep takes the task.
LEMMA WhoWaits ==
    ASSUME OneStage
    PROVE  /\ ServerQuiet /\ status = "processing" /\ upstream # 0 /\ pc["poller"] = "idle" => Waiting
           /\ Quiet /\ status = "processing" /\ upstream = 0 /\ pc["cleaner"] = "idle" => Waiting
           /\ Quiet => status # "pending"
<1>1. ASSUME ServerQuiet PROVE ~Reported /\ \A p \in Handler : ~Handling(p) /\ ~Failing(p)
  <2>1. ~Reported
    BY <1>1, NoBag DEF ServerQuiet, Reported
  <2>2. \A p \in Handler : ~Handling(p)
    BY <1>1 DEF ServerQuiet, Handling
  <2>3. \A p \in Handler : ~Failing(p)
    BY <1>1 DEF ServerQuiet, Failing
  <2> QED
    BY <2>1, <2>2, <2>3
<1>2. ASSUME ServerQuiet, status = "processing", upstream # 0, pc["poller"] = "idle" PROVE Waiting
  BY <1>1, <1>2 DEF OneStage, Creating, Marking, AtWork, Polling, Ended, Failing, Row1
<1>3. ASSUME Quiet PROVE ServerQuiet /\ ~Creating /\ ~Marking /\ ~AtWork
  BY <1>3, NoBag DEF Quiet, Creating, Marking, AtWork
<1>4. ASSUME Quiet, status = "processing", upstream = 0, pc["cleaner"] = "idle" PROVE Waiting
  BY <1>1, <1>3, <1>4, ConstantTypes DEF OneStage, Polling, Polled, Ended, Failing
<1>5. ASSUME Quiet PROVE status # "pending"
  BY <1>1, <1>3, <1>5 DEF OneStage, Polling, Waiting, Paying, Ended, Failing
<1> QED
  BY <1>2, <1>4, <1>5

-----------------------------------------------------------------------------
(***************************************************************************)
(* How the ledger moves from stage to stage.                               *)
(***************************************************************************)

LEMMA LedgerStays ==
    ASSUME NEW a, UNCHANGED ledgerVars
    PROVE  (Open(a) => Open(a)') /\ (Shut(a) => Shut(a)')
BY DEF ledgerVars, Open, Shut, Back, RefundsOf

LEMMA RefundShuts ==
    ASSUME NEW a \in Attempt, NEW reason \in Reason, Open(a), WriteRefund(a, reason), UNCHANGED charged
    PROVE  Shut(a)'
<1>1. \A b \in Attempt : (RefundsOf(b) # {})' <=> RefundsOf(b) # {} \/ b = a
  BY DEF WriteRefund, RefundsOf
<1> QED
  BY <1>1, ConstantTypes DEF Open, Shut, Back

LEMMA ChargeOpens ==
    ASSUME NEW a \in Nat, Shut(a), charged' = charged \cup {a + 1}, UNCHANGED refunded
    PROVE  Open(a + 1)'
<1>1. \A b \in Attempt : Back(b)' <=> Back(b)
  BY DEF Back, RefundsOf
<1> QED
  BY <1>1, ConstantTypes DEF Open, Shut

\* Everybody else is idle still.
LEMMA StaysOnly ==
    ASSUME NEW p \in Actor, NEW step, Only(p), Goto(p, step), ProcTypes
    PROVE  /\ Only(p)' /\ pc'[p] = step
           /\ step = "idle" => Resting'
BY DEF Only, Resting, Goto, ProcTypes

LEMMA InitCalm == Init => OneStage
<1> SUFFICES ASSUME Init PROVE Creating
  BY DEF OneStage
<1>1. \A p \in Actor : pc[p] = IF p = "api" THEN "start" ELSE "idle"
  BY DEF Init
<1>2. charged = 1..0 /\ \A b \in Attempt : ~Back(b) /\ ~(b <= 0)
  BY ConstantTypes DEF Init, Back, RefundsOf, Attempt
<1> QED
  BY <1>1, <1>2, ConstantTypes DEF Init, Creating, Only, NoMessage, Shut

LEMMA CreateCalm ==
    ASSUME Calm, TaskTypes, OneStage, CreateTask
    PROVE  OneStage'
<1>1. "api" \in Actor /\ ProcTypes /\ 1 \in Attempt /\ 0 \in Nat
  BY ConstantTypes DEF TaskTypes
<1>2. Creating \/ Marking
  BY WhoWorks DEF CreateTask, ChargeUser, InsertTask, WriteCharge, RefuseTask, PublishTask,
                  FailUnpublished, RefundUnpublished, MarkProcessing
<1>3. Only("api")
  BY <1>2 DEF Creating, Marking
<1>4. CASE ChargeUser
  <2>1. Creating /\ status = "none"
    BY <1>2, <1>4 DEF ChargeUser, Creating, Marking
  <2>2. PICK next \in {"insert", "idle"} : Goto("api", next)
    BY <1>4 DEF ChargeUser
  <2>3. NoMessage' /\ status' = "none" /\ upstream' = 0 /\ (Shut(0) => Shut(0)')
    BY <1>4, <2>1, LedgerStays DEF ChargeUser, Creating, NoMessage, rowVars, queueVars, workerVars
  <2>4. CASE next = "insert"
    BY <1>1, <1>3, <1>4, <2>1, <2>2, <2>3, <2>4, StaysOnly DEF ChargeUser, Creating, OneStage
  <2>5. CASE next = "idle"
    BY <1>1, <1>3, <2>2, <2>3, <2>5, StaysOnly DEF Ended, OneStage
  <2> QED
    BY <2>2, <2>4, <2>5
<1>5. CASE InsertTask
  <2>1. Creating /\ Shut(0)
    BY <1>2, <1>5 DEF InsertTask, Creating, Marking
  <2>2. SetRow("pending", 1, 1) /\ Goto("api", "charge")
    BY <1>5, Calmly DEF InsertTask
  <2>3. NoMessage' /\ upstream' = 0 /\ Shut(0)' /\ Row1'
    BY <1>5, <2>1, <2>2, LedgerStays DEF InsertTask, Creating, NoMessage, SetRow, Row1, queueVars, workerVars
  <2> QED
    BY <1>1, <1>3, <2>2, <2>3, StaysOnly DEF Creating, OneStage
<1>6. CASE WriteCharge
  <2>1. Creating /\ Shut(0) /\ Row1
    BY <1>2, <1>6 DEF WriteCharge, Creating, Marking
  <2>2. charged' = charged \cup {1} /\ Goto("api", "publish")
    BY <1>6, Calmly DEF WriteCharge
  <2>3. NoMessage' /\ upstream' = 0 /\ Row1'
    BY <1>6, <2>1 DEF WriteCharge, Creating, NoMessage, Row1, rowVars, queueVars, workerVars
  <2>4. Open(0 + 1)'
    BY <1>1, <1>6, <2>1, <2>2, ChargeOpens DEF WriteCharge
  <2> QED
    BY <1>1, <1>3, <2>2, <2>3, <2>4, StaysOnly DEF Creating, OneStage
<1>7. CASE RefuseTask
  BY <1>2, <1>7 DEF RefuseTask, Creating, Marking
<1>8. CASE PublishTask
  <2>1. Creating /\ Open(1) /\ Row1 /\ NoMessage
    BY <1>2, <1>8 DEF PublishTask, Creating, Marking
  <2>2. PICK reply \in Replies("publish") :
          /\ Answer(reply)
          /\ jobs' = IF reply = "ok" THEN jobs (+) One(NewJob(1, 0)) ELSE jobs
          /\ Goto("api", IF reply = "ok" THEN "mark" ELSE "pubFail")
    BY <1>8 DEF PublishTask
  <2>3. upstream' = 0 /\ Row1' /\ Open(1)' /\ running' = EmptyBag /\ results' = EmptyBag /\ writes' = <<>>
    BY <1>8, <2>1, LedgerStays DEF PublishTask, Creating, NoMessage, Row1, rowVars, workerVars
  <2>4. CASE reply = "ok"
    <3>1. jobs' = One(NewJob(1, 0)) /\ NewJob(1, 0).attempt = 1
      BY <2>1, <2>2, <2>4, OneComes, NewJobType, ConstantTypes DEF NoMessage
    <3>2. NewJob(1, 0) \in BagToSet(jobs')
      BY <3>1, OneBag
    <3> QED
      BY <1>1, <1>3, <2>2, <2>3, <2>4, <3>1, <3>2, StaysOnly DEF Marking, OneStage
  <2>5. CASE reply # "ok"
    BY <1>1, <1>3, <2>1, <2>2, <2>3, <2>5, StaysOnly DEF Creating, NoMessage, OneStage
  <2> QED
    BY <2>4, <2>5
<1>9. CASE FailUnpublished
  <2>1. Creating /\ Open(1)
    BY <1>2, <1>9 DEF FailUnpublished, Creating, Marking
  <2>2. SetStatus("failed")
    BY <1>9, Calmly DEF FailUnpublished, Unchecked
  <2>3. NoMessage' /\ upstream' = 0 /\ Open(1)' /\ status' = "failed"
    BY <1>9, <2>1, <2>2, LedgerStays DEF FailUnpublished, Creating, NoMessage, SetStatus, queueVars, workerVars
  <2> QED
    BY <1>1, <1>3, <1>9, <2>3, StaysOnly DEF FailUnpublished, Creating, OneStage
<1>10. CASE RefundUnpublished
  <2>1. Creating /\ Open(1) /\ status = "failed"
    BY <1>2, <1>10 DEF RefundUnpublished, Creating, Marking, Row1
  <2>2. WriteRefund(1, "publishError")
    BY <1>10, Calmly DEF RefundUnpublished
  <2>3. NoMessage' /\ status' = "failed"
    BY <1>10, <2>1 DEF RefundUnpublished, Creating, NoMessage, rowVars, queueVars, workerVars
  <2>4. Shut(1)'
    BY <1>1, <1>10, <2>1, <2>2, RefundShuts, FailureNamed DEF RefundUnpublished
  <2> QED
    BY <1>1, <1>3, <1>10, <2>3, <2>4, StaysOnly DEF RefundUnpublished, Ended, OneStage
<1>11. CASE MarkProcessing
  <2>1. Marking
    BY <1>2, <1>11 DEF MarkProcessing, Creating
  <2>2. SetStatus("processing")
    BY <1>11, Calmly DEF MarkProcessing, Unchecked
  <2>3. /\ status' = "processing" /\ attempt' = 1 /\ credits' = 1 /\ upstream' = 0 /\ Open(1)'
        /\ running' = EmptyBag /\ results' = EmptyBag /\ writes' = <<>> /\ jobs' = jobs
    BY <1>11, <2>1, <2>2, LedgerStays DEF MarkProcessing, Marking, Row1, SetStatus, queueVars, workerVars
  <2>4. Resting'
    BY <1>1, <1>3, <1>11, StaysOnly DEF MarkProcessing
  <2>5. \E j \in BagToSet(jobs') : jobs' = One(j) /\ j.attempt = 1
    BY <2>1, <2>3 DEF Marking
  <2>6. Paying(attempt)'
    BY <2>3 DEF Paying, Open
  <2> QED
    BY <2>3, <2>4, <2>5, <2>6 DEF AtWork, OneStage
<1> QED
  BY <1>4, <1>5, <1>6, <1>7, <1>8, <1>9, <1>10, <1>11 DEF CreateTask

\* A worker takes the job and reports.
LEMMA WorkerCalm ==
    ASSUME Calm, TaskTypes, OneStage, TakeJob \/ FinishJob \/ WorkerDies
    PROVE  OneStage'
<1>1. CASE TakeJob
  <2>1. PICK j \in BagToSet(jobs) : jobs' = jobs (-) One(j) /\ running' = running (+) One(j)
    BY <1>1 DEF TakeJob
  <2>2. pc["api"] = "idle"
    BY <1>1, Calmly DEF TakeJob
  <2>3. AtWork /\ running = EmptyBag
    BY <2>1, <2>2, NoBag, WhatIsThere DEF Marking
  <2>4. PICK i \in BagToSet(jobs) : jobs = One(i) /\ i.attempt = attempt
    BY <2>1, <2>3, NoBag DEF AtWork
  <2>5. j = i
    BY <2>1, <2>4, OneBag
  <2>6. jobs' = EmptyBag /\ running' = One(j) /\ j \in BagToSet(running')
    BY <2>1, <2>3, <2>4, <2>5, OneBag, OneComes, OneGoes
  <2>7. Resting' /\ upstream' = 0 /\ results' = EmptyBag /\ writes' = <<>> /\ attempt' = attempt
    BY <1>1, <2>3 DEF TakeJob, AtWork, Resting, rowVars, procVars
  <2>8. Paying(attempt)'
    BY <1>1, <2>3 DEF TakeJob, AtWork, Paying, Open, Back, RefundsOf, rowVars, ledgerVars
  <2> QED
    BY <2>4, <2>5, <2>6, <2>7, <2>8 DEF AtWork, OneStage
<1>2. CASE FinishJob
  <2>1. PICK j \in BagToSet(running), reply \in Replies("publish") :
        \E outcome \in Outcomes(j) : \E text \in Texts(outcome) :
          /\ Answer(reply)
          /\ running' = running (-) One(j)
          /\ results' = IF reply = "ok" THEN results (+) One(ResultOf(j, outcome, text))
                        ELSE results
    BY <1>2 DEF FinishJob
  <2>2. PICK outcome \in Outcomes(j) : \E text \in Texts(outcome) :
          /\ Answer(reply)
          /\ running' = running (-) One(j)
          /\ results' = IF reply = "ok" THEN results (+) One(ResultOf(j, outcome, text))
                        ELSE results
    BY <2>1
  <2>3. PICK text \in Texts(outcome) :
          /\ Answer(reply)
          /\ running' = running (-) One(j)
          /\ results' = IF reply = "ok" THEN results (+) One(ResultOf(j, outcome, text))
                        ELSE results
    BY <2>2
  <2>4. AtWork /\ jobs = EmptyBag
    BY <2>1, NoBag, WhatIsThere
  <2>5. PICK i \in BagToSet(running) : running = One(i) /\ i.attempt = attempt
    BY <2>1, <2>4, NoBag DEF AtWork
  <2>6. j = i
    BY <2>1, <2>5, OneBag
  <2>7. running' = EmptyBag
    BY <2>3, <2>5, <2>6, OneGoes
  <2>8. /\ Resting' /\ upstream' = 0 /\ jobs' = EmptyBag /\ writes' = <<>> /\ attempt' = attempt
        /\ results = EmptyBag
    BY <1>2, <2>4 DEF FinishJob, AtWork, Resting, rowVars, procVars
  <2>9. Paying(attempt)'
    BY <1>2, <2>4 DEF FinishJob, AtWork, Paying, Open, Back, RefundsOf, rowVars, ledgerVars
  <2>10. CASE reply = "ok"
    <3> DEFINE r == ResultOf(j, outcome, text)
    <3>1. results' = One(r) /\ r \in BagToSet(results')
      BY <2>3, <2>8, <2>10, OneBag, OneComes
    <3>2. r.attempt = attempt' /\ r.credits = 1 /\ (r.outcome = "async" => r.attempt \in Async)
      BY <2>5, <2>6, <2>8 DEF ResultOf, Outcomes
    <3> HIDE DEF r
    <3>3. \E m \in BagToSet(results') : results' = One(m) /\ Reports(m)'
      BY <2>8, <3>1, <3>2 DEF Reports
    <3> QED
      BY <2>7, <2>8, <2>9, <3>3 DEF Reported, OneStage
  <2>11. CASE reply # "ok"
    BY <2>3, <2>7, <2>8, <2>9, <2>11 DEF NoMessage, Waiting, OneStage
  <2> QED
    BY <2>10, <2>11
<1> QED
  BY <1>1, <1>2, Calmly DEF WorkerDies

\* A handler takes the result.
LEMMA TakeCalm ==
    ASSUME Calm, TaskTypes, OneStage, NEW p \in Handler, TakeResult(p)
    PROVE  OneStage'
<1>1. PICK r \in BagToSet(results) :
        /\ results' = results (-) One(r)
        /\ IF r.outcome \in {"done", "async"}
           THEN writes' = Append(writes, r) /\ UNCHANGED procVars
           ELSE /\ res' = [res EXCEPT ![p] = r]
                /\ Goto(p, CASE r.outcome = "rate_limited"   -> "rotate"
                             [] r.outcome = "pool_key_retry" -> "skip"
                             [] OTHER                        -> "failed")
                /\ UNCHANGED <<arg, asked, writes>>
  BY DEF TakeResult
<1>2. Reported /\ writes = <<>>
  BY <1>1, NoBag, WhatIsThere
<1>3. PICK m \in BagToSet(results) : results = One(m) /\ Reports(m)
  BY <1>1, <1>2, NoBag DEF Reported
<1>4. m = r /\ results' = EmptyBag
  BY <1>1, <1>3, OneBag, OneGoes
<1>5. /\ status' = status /\ attempt' = attempt /\ upstream' = upstream /\ jobs' = EmptyBag /\ running' = EmptyBag
      /\ Paying(attempt)'
  BY <1>2 DEF TakeResult, Reported, Paying, Open, Back, RefundsOf, rowVars, ledgerVars, workerVars
<1>6. CASE r.outcome \in {"done", "async"}
  <2>1. writes' = <<r>>
    BY <1>1, <1>2, <1>6
  <2>2. Len(writes') = 1 /\ writes'[1] = r
    BY <2>1
  <2>3. Reports(writes[1])' /\ writes'[1].outcome \in {"done", "async"}
    BY <1>3, <1>4, <1>5, <1>6, <2>2 DEF Reports, Polled
  <2>4. Resting'
    BY <1>1, <1>2, <1>6 DEF Reported, Resting, procVars
  <2> QED
    BY <1>4, <1>5, <2>2, <2>3, <2>4 DEF Reported, OneStage
<1>7. CASE r.outcome \notin {"done", "async"}
  <2>1. /\ \A q \in Actor : q # p => pc'[q] = "idle"
        /\ pc'[p] \in {"rotate", "skip", "failed"}
        /\ pc'[p] # "failed" => r.outcome # "failed"
        /\ res'[p] = r
    BY <1>1, <1>2, <1>7, ConstantTypes DEF Reported, Resting, Goto, TaskTypes, ProcTypes
  <2>2. NoMessage'
    BY <1>1, <1>2, <1>4, <1>5, <1>7 DEF NoMessage
  <2>3. Paying(res[p].attempt)' /\ status' = "processing" /\ (upstream' = 0 \/ Polled')
    BY <1>2, <1>3, <1>4, <1>5, <2>1 DEF Reports, Polled, Reported, Paying
  <2>4. Handling(p)'
    BY <1>3, <1>4, <1>5, <2>1, <2>2, <2>3 DEF Handling, Only, Reports
  <2> QED
    BY <2>4 DEF OneStage
<1> QED
  BY <1>6, <1>7

\* The handler at work publishes a job, or gives up.
LEMMA PublishedCalm ==
    ASSUME TaskTypes, NEW p \in Actor, Only(p), NoMessage, NEW a \in Attempt, NEW tried \in 0..Keys,
           Paying(a), upstream = 0, jobs' = jobs (+) One(NewJob(a, tried)), Goto(p, "idle"),
           UNCHANGED <<rowVars, ledgerVars, results, workerVars, writes>>
    PROVE  AtWork'
<1>1. jobs' = One(NewJob(a, tried)) /\ NewJob(a, tried) \in BagToSet(jobs') /\ NewJob(a, tried).attempt = a
  BY OneBag, OneComes, NewJobType DEF NoMessage
<1>2. Resting'
  BY StaysOnly DEF TaskTypes
<1>3. /\ status' = "processing" /\ attempt' = a /\ credits' = 1 /\ upstream' = 0 /\ Open(a)'
      /\ running' = EmptyBag /\ results' = EmptyBag /\ writes' = <<>>
  BY LedgerStays DEF Paying, NoMessage, rowVars, workerVars
<1>4. Paying(attempt)'
  BY <1>3 DEF Paying, Open
<1> QED
  BY <1>1, <1>2, <1>3, <1>4 DEF AtWork

LEMMA GivesUpCalm ==
    ASSUME TaskTypes, NEW p \in Handler \cup {"poller"}, Only(p), NoMessage', status' = "processing",
           p = "poller" => upstream' # 0,
           NEW a \in Attempt, NEW n \in {0, 1}, NEW text, CallFail(p, a, n, text),
           IF n = 1 THEN Open(a) /\ attempt' = a ELSE Shut(a) /\ a < Channels,
           upstream' = 0 \/ Polled', UNCHANGED ledgerVars
    PROVE  Failing(p)'
<1>1. p \in Actor /\ p # "cleaner"
  BY ConstantTypes
<1>2. Only(p)' /\ pc'[p] = "fail"
  BY <1>1, StaysOnly DEF TaskTypes, CallFail
<1>3. arg'[p].attempt = a /\ arg'[p].credits = n
  BY <1>1 DEF CallFail, TaskTypes, ProcTypes
<1>4. (n = 1 => Open(a)') /\ (n # 1 => Shut(a)')
  BY LedgerStays
<1>5. (Channels \in charged => attempt = Channels)'
  <2>1. charged' = 1..a /\ a <= Channels /\ Channels \in Nat /\ a \in Nat
    BY <1>4, ConstantTypes DEF Open, Shut, Attempt
  <2> QED
    BY <2>1
<1>6. IF arg'[p].credits = 1 THEN Open(a)' ELSE Shut(a)' /\ a < Channels
  BY <1>3, <1>4
<1> QED
  BY <1>1, <1>2, <1>3, <1>5, <1>6 DEF Failing, Open, Shut

\* It looks for a key.
LEMMA FindCalm ==
    ASSUME Calm, TaskTypes, OneStage, NEW p \in Handler, RotateKey(p) \/ SkipKey(p) \/ Republish(p)
    PROVE  OneStage'
<1>1. /\ Handling(p) /\ Only(p) /\ NoMessage /\ status = "processing" /\ Paying(res[p].attempt)
      /\ res[p].credits = 1 /\ upstream = 0
  <2>1. pc[p] \in {"rotate", "skip", "republish"}
    BY DEF RotateKey, SkipKey, Republish
  <2>2. Handling(p)
    BY <2>1, WhoWorks DEF FailStep
  <2> QED
    BY <2>1, <2>2 DEF Handling
<1>2. /\ p \in Actor /\ res[p].attempt \in Attempt /\ res[p].tried \in 0..Keys
      /\ Open(res[p].attempt)
  BY <1>1, HeldType, ConstantTypes DEF TaskTypes, Paying
<1>3. ASSUME NEW text, CallFail(p, res[p].attempt, res[p].credits, text), UNCHANGED jobs,
             UNCHANGED <<rowVars, ledgerVars, results, workerVars, writes>>
      PROVE  OneStage'
  <2>1. NoMessage' /\ status' = "processing" /\ upstream' = 0 /\ attempt' = res[p].attempt
    BY <1>1, <1>3 DEF NoMessage, Paying, rowVars, workerVars
  <2> QED
    BY <1>1, <1>2, <1>3, <2>1, GivesUpCalm, ConstantTypes DEF OneStage
<1>4. ASSUME NEW s \in {"skip", "republish", "failed"}, Goto(p, s), UNCHANGED res,
             UNCHANGED <<rowVars, ledgerVars, queueVars, workerVars, writes>>
      PROVE  OneStage'
  <2>1. Only(p)' /\ pc'[p] = s /\ NoMessage' /\ status' = "processing" /\ upstream' = 0
    BY <1>1, <1>2, <1>4, StaysOnly DEF TaskTypes, NoMessage, rowVars, queueVars, workerVars
  <2>2. Paying(res[p].attempt)'
    BY <1>1, <1>4 DEF Paying, Open, Back, RefundsOf, rowVars, ledgerVars
  <2>3. Handling(p)'
    BY <1>1, <1>4, <2>1, <2>2 DEF Handling
  <2> QED
    BY <2>3 DEF OneStage
<1>5. CASE RotateKey(p)
  <2>1. CASE /\ Goto(p, "skip") /\ UNCHANGED <<jobs, arg, budget>>
    BY <1>4, <1>5, <2>1 DEF RotateKey, queueVars
  <2>2. CASE \E reply \in Replies("publish") :
              /\ Answer(reply)
              /\ IF reply = "ok"
                 THEN /\ jobs' = jobs (+) One(NewJob(res[p].attempt, res[p].tried))
                      /\ Goto(p, "idle") /\ UNCHANGED arg
                 ELSE /\ CallFail(p, res[p].attempt, res[p].credits, "unpublished")
                      /\ UNCHANGED jobs
    <3>1. UNCHANGED <<rowVars, ledgerVars, results, workerVars, writes>>
      BY <1>5 DEF RotateKey
    <3>2. \/ jobs' = jobs (+) One(NewJob(res[p].attempt, res[p].tried)) /\ Goto(p, "idle")
          \/ CallFail(p, res[p].attempt, res[p].credits, "unpublished") /\ UNCHANGED jobs
      BY <2>2
    <3> QED
      BY <1>1, <1>2, <1>3, <3>1, <3>2, PublishedCalm DEF OneStage
  <2> QED
    BY <1>5, <2>1, <2>2 DEF RotateKey
<1>6. CASE SkipKey(p)
  <2>1. Goto(p, "republish") \/ Goto(p, "failed")
    BY <1>6 DEF SkipKey
  <2>2. UNCHANGED rowVars
    BY <1>1, <1>6, Calmly DEF SkipKey, Unchecked, SetStatus, rowVars
  <2> QED
    BY <1>4, <1>6, <2>1, <2>2 DEF SkipKey
<1>7. CASE Republish(p)
  <2>1. UNCHANGED <<rowVars, ledgerVars, results, workerVars, writes>>
    BY <1>7 DEF Republish
  <2>2. \/ jobs' = jobs (+) One(NewJob(res[p].attempt, res[p].tried)) /\ Goto(p, "idle")
        \/ CallFail(p, res[p].attempt, res[p].credits, "unpublished") /\ UNCHANGED jobs
    BY <1>7 DEF Republish
  <2> QED
    BY <1>1, <1>2, <1>3, <2>1, <2>2, PublishedCalm DEF OneStage
<1> QED
  BY <1>5, <1>6, <1>7

\* It moves on to the next channel.
LEMMA RetryCalm ==
    ASSUME Calm, TaskTypes, OneStage, NEW p \in Handler,
           \/ FailedResultArrives(p) \/ RetryRefund(p) \/ RetryZero(p) \/ RetryCharge(p)
           \/ RetryWrite(p) \/ RetryUpdate(p) \/ RetryPublish(p)
    PROVE  OneStage'
<1> DEFINE a == res[p].attempt
<1>1. Handling(p) /\ Only(p) /\ NoMessage /\ status = "processing" /\ res[p].credits = 1
  <2>1. pc[p] \in {"failed", "retryRefund", "retryZero", "retryCharge", "retryWrite", "retryUpdate", "retryPublish"}
    BY DEF FailedResultArrives, RetryRefund, RetryZero, RetryCharge, RetryWrite, RetryUpdate, RetryPublish
  <2>2. Handling(p)
    BY <2>1, WhoWorks DEF FailStep
  <2> QED
    BY <2>2 DEF Handling
<1>2. /\ p \in Actor /\ ProcTypes /\ a \in Attempt /\ a \in Nat /\ Attempt \subseteq Nat
      /\ pc[p] \in NextStep => a < Channels
  BY HeldType, ConstantTypes DEF TaskTypes, ProcTypes, Fits
<1>3. pc[p] \in NextStep => a + 1 \in Attempt
  BY <1>2, ConstantTypes DEF Attempt
<1>4. ASSUME NEW n \in {0, 1}, NEW b \in Attempt, NEW text, CallFail(p, b, n, text),
             IF n = 1 THEN Open(b) /\ attempt = b ELSE Shut(b) /\ b < Channels,
             upstream = 0 \/ Polled, UNCHANGED <<rowVars, ledgerVars, queueVars, workerVars, writes>>
      PROVE  OneStage'
  <2>1. NoMessage' /\ status' = "processing" /\ attempt' = attempt /\ (upstream' = 0 \/ Polled')
    BY <1>1, <1>4 DEF NoMessage, Polled, rowVars, queueVars, workerVars
  <2> QED
    BY <1>1, <1>4, <2>1, GivesUpCalm, ConstantTypes DEF OneStage
<1>5. ASSUME NEW s, Goto(p, s), UNCHANGED <<res, queueVars, workerVars, writes>>
      PROVE  /\ Only(p)' /\ pc'[p] = s /\ NoMessage'
             /\ res' = res
  BY <1>1, <1>2, <1>5, StaysOnly DEF NoMessage, queueVars, workerVars
<1>6. CASE FailedResultArrives(p)
  <2>1. Paying(a) /\ Open(a) /\ attempt = a /\ (upstream = 0 \/ Polled)
    BY <1>1, <1>6 DEF FailedResultArrives, Handling, Paying
  <2>2. IF a < Channels THEN Goto(p, "retryRefund") ELSE CallFail(p, a, 1, res[p].text)
    BY <1>1, <1>6, Calmly DEF FailedResultArrives
  <2>3. UNCHANGED <<rowVars, ledgerVars, queueVars, workerVars, writes, res>>
    BY <1>6 DEF FailedResultArrives
  <2>4. CASE a < Channels
    <3>1. upstream' = 0 /\ status' = "processing"
      BY <1>1, <1>2, <2>1, <2>3, <2>4, ConstantTypes DEF Polled, Paying, rowVars
    <3>2. Paying(res[p].attempt)'
      BY <2>1, <2>3 DEF Paying, Open, Back, RefundsOf, rowVars, ledgerVars
    <3>3. Handling(p)'
      BY <1>1, <1>5, <2>2, <2>3, <2>4, <3>1, <3>2 DEF Handling
    <3> QED
      BY <3>3 DEF OneStage
  <2> QED
    BY <1>2, <1>4, <2>1, <2>2, <2>3, <2>4
<1>7. CASE RetryRefund(p)
  <2>1. Open(a) /\ upstream = 0
    BY <1>1, <1>7 DEF RetryRefund, Handling, Paying
  <2>2. WriteRefund(a, "channelRetry") /\ Goto(p, "retryZero")
    BY <1>7, Calmly DEF RetryRefund
  <2>3. Shut(a)'
    BY <1>2, <1>7, <2>1, <2>2, RefundShuts, FailureNamed DEF RetryRefund
  <2>4. UNCHANGED <<rowVars, queueVars, workerVars, writes, res>>
    BY <1>7 DEF RetryRefund
  <2>5. Handling(p)'
    BY <1>1, <1>5, <2>1, <2>2, <2>3, <2>4 DEF Handling, Shut, rowVars
  <2> QED
    BY <2>5 DEF OneStage
<1>8. CASE RetryZero(p)
  <2>1. Shut(a) /\ upstream = 0
    BY <1>1, <1>8 DEF RetryZero, Handling
  <2>2. Shut(a)' /\ UNCHANGED <<status, upstream, ledgerVars, queueVars, workerVars, writes, res>> /\ Goto(p, "retryCharge")
    BY <1>8, <2>1, Calmly, LedgerStays DEF RetryZero, Unchecked, SetRow
  <2>3. Handling(p)'
    BY <1>1, <1>5, <2>1, <2>2 DEF Handling, Shut
  <2> QED
    BY <2>3 DEF OneStage
<1>9. CASE RetryCharge(p)
  <2>1. Shut(a) /\ upstream = 0 /\ a < Channels
    BY <1>1, <1>2, <1>9 DEF RetryCharge, Handling, NextStep, RetryStep
  <2>2. Goto(p, "retryWrite") \/ CallFail(p, a, 0, res[p].text)
    BY <1>9 DEF RetryCharge
  <2>3. Shut(a)' /\ UNCHANGED <<rowVars, ledgerVars, queueVars, workerVars, writes, res>>
    BY <1>9, <2>1, LedgerStays DEF RetryCharge
  <2>4. CASE Goto(p, "retryWrite")
    <3>1. Handling(p)'
      BY <1>1, <1>5, <2>1, <2>3, <2>4 DEF Handling, Shut, rowVars
    <3> QED
      BY <3>1 DEF OneStage
  <2> QED
    BY <1>2, <1>4, <2>1, <2>2, <2>3, <2>4
<1>10. CASE RetryWrite(p)
  <2>1. Shut(a) /\ upstream = 0 /\ a + 1 \notin charged
    BY <1>1, <1>2, <1>10 DEF RetryWrite, Handling, Shut
  <2>2. charged' = charged \cup {a + 1} /\ Goto(p, "retryUpdate")
    BY <1>10, <2>1, Calmly DEF RetryWrite
  <2>3. UNCHANGED <<rowVars, refunded, queueVars, workerVars, writes, res>>
    BY <1>10 DEF RetryWrite
  <2>4. Open(a + 1)'
    BY <1>2, <2>1, <2>2, <2>3, ChargeOpens
  <2>5. Handling(p)'
    BY <1>1, <1>5, <2>1, <2>2, <2>3, <2>4 DEF Handling, Open, rowVars
  <2> QED
    BY <2>5 DEF OneStage
<1>11. CASE RetryUpdate(p)
  <2>1. Open(a + 1) /\ upstream = 0
    BY <1>1, <1>11 DEF RetryUpdate, Handling
  <2>2. SetRow("processing", a + 1, 1) /\ UNCHANGED upstream /\ Goto(p, "retryPublish")
    BY <1>11, Calmly DEF RetryUpdate, Unchecked
  <2>3. Open(a + 1)' /\ UNCHANGED <<ledgerVars, queueVars, workerVars, writes, res>>
    BY <1>11, <2>1, LedgerStays DEF RetryUpdate
  <2>4. Paying(res[p].attempt + 1)'
    BY <2>2, <2>3 DEF Paying, SetRow, Open
  <2>5. Handling(p)'
    BY <1>1, <1>5, <2>1, <2>2, <2>3, <2>4 DEF Handling, SetRow
  <2> QED
    BY <2>5 DEF OneStage
<1>12. CASE RetryPublish(p)
  <2>1. Paying(a + 1) /\ Open(a + 1) /\ attempt = a + 1 /\ upstream = 0 /\ a + 1 \in Attempt
    BY <1>1, <1>3, <1>12 DEF RetryPublish, Handling, Paying, NextStep, RetryStep
  <2>2. \/ jobs' = jobs (+) One(NewJob(a + 1, 0)) /\ Goto(p, "idle")
        \/ CallFail(p, a + 1, 1, "unpublished") /\ UNCHANGED jobs
    BY <1>12 DEF RetryPublish
  <2>3. UNCHANGED <<rowVars, ledgerVars, results, workerVars, writes>>
    BY <1>12 DEF RetryPublish
  <2> QED
    BY <1>1, <1>2, <1>4, <2>1, <2>2, <2>3, PublishedCalm, ConstantTypes DEF OneStage, queueVars
<1> QED
  BY <1>6, <1>7, <1>8, <1>9, <1>10, <1>11, <1>12

\* failTaskDB ends the task and gives its credits back.
LEMMA FailCalm ==
    ASSUME Calm, TaskTypes, OneStage, NEW p \in Handler \cup {"poller", "cleaner"}, failTaskDB(p)
    PROVE  OneStage'
<1> DEFINE a == arg[p].attempt
<1>1. Failing(p) /\ Only(p) /\ NoMessage
  <2>1. pc[p] \in FailStep
    BY DEF failTaskDB, FailTask, FailRefund, FailZero, FailStep
  <2> QED
    BY <2>1, WhoWorks DEF Failing
<1>2. p \in Actor /\ ProcTypes /\ a \in Attempt /\ arg[p].text \in Reason /\ arg[p].credits \in {0, 1}
  BY HeldType, ConstantTypes DEF TaskTypes, ProcTypes, Blame
<1>3. ASSUME NEW s, Goto(p, s) PROVE Only(p)' /\ pc'[p] = s /\ (s = "idle" => Resting')
  BY <1>1, <1>2, <1>3, StaysOnly
<1>4. NoMessage' /\ arg' = arg
  BY <1>1 DEF failTaskDB, FailTask, FailRefund, FailZero, NoMessage, queueVars, workerVars
<1>8. ASSUME UNCHANGED <<attempt, upstream, charged>>
      PROVE  /\ (p = "cleaner" => upstream = 0)' /\ (p = "poller" => upstream # 0)'
             /\ (upstream = 0 \/ Polled)' /\ (Channels \in charged => attempt = Channels)'
  BY <1>8, <1>1 DEF Failing, Polled
<1>5. CASE FailTask(p)
  <2>1. status = "processing" /\ IF arg[p].credits = 1 THEN Open(a) ELSE Shut(a)
    BY <1>1, <1>5 DEF FailTask, Failing
  <2>2. SetStatus("failed") /\ Goto(p, IF arg[p].credits > 0 THEN "failRefund" ELSE "idle")
    BY <1>5, <2>1, Calmly DEF FailTask
  <2>3. (Open(a) => Open(a)') /\ (Shut(a) => Shut(a)')
    BY <1>5, <1>2, LedgerStays DEF FailTask
  <2>4. CASE arg[p].credits = 1
    <3>1. UNCHANGED <<attempt, upstream, charged>> /\ status' = "failed" /\ Goto(p, "failRefund")
      BY <1>5, <2>2, <2>4 DEF FailTask, SetStatus, ledgerVars
    <3>2. Open(arg[p].attempt)'
      BY <1>4, <2>1, <2>3, <2>4 DEF Open
    <3>3. Failing(p)'
      BY <1>8, <1>3, <1>4, <3>1, <3>2 DEF Failing
    <3> QED
      BY <3>3 DEF OneStage
  <2>5. CASE arg[p].credits = 0
    <3>1. Ended'
      BY <1>2, <1>3, <1>4, <2>1, <2>2, <2>3, <2>5 DEF Ended, SetStatus, Shut
    <3> QED
      BY <3>1 DEF OneStage
  <2> QED
    BY <1>2, <2>4, <2>5
<1>6. CASE FailRefund(p)
  <2>1. status = "failed" /\ Open(a)
    BY <1>1, <1>6 DEF FailRefund, Failing
  <2>2. WriteRefund(a, arg[p].text) /\ Goto(p, "failZero") /\ UNCHANGED <<rowVars, charged>>
    BY <1>6, Calmly DEF FailRefund
  <2>3. Shut(a)'
    BY <1>2, <1>4, <2>1, <2>2, RefundShuts DEF Shut, Back, RefundsOf
  <2>4. UNCHANGED <<attempt, upstream, charged>> /\ status' = "failed" /\ Shut(arg[p].attempt)'
    BY <1>4, <2>1, <2>2, <2>3 DEF Shut, rowVars
  <2>5. Failing(p)'
    BY <1>8, <1>3, <1>4, <2>2, <2>4 DEF Failing
  <2> QED
    BY <2>5 DEF OneStage
<1>7. CASE FailZero(p)
  <2>1. status = "failed" /\ Shut(a)
    BY <1>1, <1>7 DEF FailZero, Failing
  <2>2. status' = "failed" /\ Goto(p, "idle")
    BY <1>7, <2>1, Calmly DEF FailZero, Unchecked, SetRow
  <2>3. Shut(a)'
    BY <1>2, <1>7, <2>1, LedgerStays DEF FailZero
  <2>4. Ended'
    BY <1>2, <1>3, <1>4, <2>2, <2>3 DEF Ended, Shut
  <2> QED
    BY <2>4 DEF OneStage
<1> QED
  BY <1>5, <1>6, <1>7 DEF failTaskDB

\* The batch writer writes the result.
LEMMA FlushCalm ==
    ASSUME Calm, TaskTypes, OneStage, FlushBatch
    PROVE  OneStage'
<1> DEFINE r == writes[1]
<1>1. /\ Reported /\ results = EmptyBag /\ Len(writes) = 1 /\ Reports(r) /\ r.outcome \in {"done", "async"}
      /\ writes \in Seq(Result)
  BY WhatIsThere DEF FlushBatch, Reported, TaskTypes, ServerTypes
<1>2. PICK n \in 1..Len(writes) :
        LET batch == {writes[i] : i \in 1..n} IN
        \E lost \in SUBSET {m.outcome : m \in batch} :
        LET asyncs == {m \in batch : m.outcome = "async" /\ "async" \notin lost} IN
        /\ lost # {} => "db" \in Env /\ Cardinality(lost) <= budget
        /\ budget' = budget - Cardinality(lost)
        /\ writes' = SubSeq(writes, n + 1, Len(writes))
        /\ \/ /\ asyncs # {}
              /\ SetRow("processing", attempt, credits)
              /\ \E m \in asyncs : upstream' = m.attempt
           \/ /\ asyncs = {} /\ \E m \in batch : m.outcome = "done" /\ "done" \notin lost
              /\ SetStatus("done")
           \/ /\ {m.outcome : m \in batch} = lost
              /\ UNCHANGED rowVars
  BY DEF FlushBatch
<1>3. n = 1 /\ {writes[i] : i \in 1..n} = {r}
  BY <1>1, <1>2
<1>4. /\ writes' = SubSeq(writes, 2, 1)
      /\ \/ /\ r.outcome = "async" /\ SetRow("processing", attempt, credits) /\ upstream' = r.attempt
         \/ r.outcome = "done" /\ SetStatus("done")
  <2>1. PICK lost \in SUBSET {m.outcome : m \in {r}} :
        LET asyncs == {m \in {r} : m.outcome = "async" /\ "async" \notin lost} IN
        /\ lost # {} => "db" \in Env /\ Cardinality(lost) <= budget
        /\ writes' = SubSeq(writes, n + 1, Len(writes))
        /\ \/ /\ asyncs # {}
              /\ SetRow("processing", attempt, credits)
              /\ \E m \in asyncs : upstream' = m.attempt
           \/ /\ asyncs = {} /\ \E m \in {r} : m.outcome = "done" /\ "done" \notin lost
              /\ SetStatus("done")
           \/ /\ {m.outcome : m \in {r}} = lost
              /\ UNCHANGED rowVars
    BY <1>2, <1>3
  <2>2. lost = {}
    BY <2>1, Calmly
  <2>3. r \in {r} /\ {m.outcome : m \in {r}} # {}
    OBVIOUS
  <2> HIDE DEF r
  <2>4. \/ r.outcome = "async" /\ SetRow("processing", attempt, credits) /\ upstream' = r.attempt
        \/ r.outcome = "done" /\ SetStatus("done")
    BY <2>1, <2>2, <2>3
  <2> QED
    BY <1>1, <1>3, <2>1, <2>4
<1>5. writes' = <<>>
  BY <1>1, <1>4
<1>6. Resting' /\ NoMessage' /\ Paying(attempt) /\ UNCHANGED ledgerVars
  BY <1>1, <1>5 DEF FlushBatch, Reported, Resting, NoMessage, procVars, queueVars, workerVars
<1>7. CASE r.outcome = "async" /\ SetRow("processing", attempt, credits) /\ upstream' = r.attempt
  <2>1. Polled'
    BY <1>1, <1>7, Calmly DEF Reports, Polled, SetRow
  <2>2. Paying(attempt)'
    BY <1>6, <1>7 DEF Paying, SetRow, Open, Back, RefundsOf, ledgerVars
  <2> QED
    BY <1>6, <2>1, <2>2 DEF Waiting, OneStage
<1>8. CASE r.outcome = "done" /\ SetStatus("done")
  <2>1. Open(attempt)' /\ status' = "done"
    BY <1>6, <1>8 DEF Paying, SetStatus, Open, Back, RefundsOf, ledgerVars
  <2> QED
    BY <1>6, <2>1 DEF Ended, OneStage
<1> QED
  BY <1>4, <1>7, <1>8

\* The sweep or the poller takes a task of which nothing is under way.
LEMMA SweepCalm ==
    ASSUME Calm, TaskTypes, OneStage, CleanStaleTask \/ PollTask
    PROVE  OneStage'
<1>1. /\ {"poller", "cleaner"} \subseteq Actor /\ ProcTypes
      /\ attempt \in Attempt /\ credits \in {0, 1} /\ Channels \in Attempt
  BY ConstantTypes DEF TaskTypes, RowTypes, Attempt
<1>2. Waiting
  BY WhoWaits, Calmly DEF CleanStaleTask, PollTask
<1>3. /\ Resting /\ Paying(attempt) /\ credits = 1 /\ status = "processing"
      /\ \A p \in Actor : Only(p)
  BY <1>2 DEF Waiting, Resting, Paying, Only
<1>4. /\ NoMessage' /\ UNCHANGED <<status, attempt, credits, upstream, ledgerVars>> /\ Open(attempt)'
      /\ Paying(attempt)'
  BY <1>2 DEF CleanStaleTask, PollTask, Waiting, NoMessage, Paying, Open, Back, RefundsOf,
              rowVars, ledgerVars, queueVars, workerVars
<1>5. CASE CleanStaleTask
  <2>1. upstream' = 0
    BY <1>3, <1>5 DEF CleanStaleTask, rowVars
  <2>2. Only("cleaner")' /\ pc'["cleaner"] = "fail"
    BY <1>1, <1>3, <1>5, StaysOnly DEF CleanStaleTask, CallFail
  <2>3. arg'["cleaner"].attempt = attempt /\ arg'["cleaner"].credits = 1
    BY <1>1, <1>3, <1>5 DEF CleanStaleTask, CallFail, ProcTypes
  <2>4. (Channels \in charged => attempt = Channels)'
    BY <1>1, <1>3, <1>4, ConstantTypes DEF Paying, Open, ledgerVars, Attempt
  <2>5. Failing("cleaner")'
    BY <1>3, <1>4, <2>1, <2>2, <2>3, <2>4 DEF Failing, Open
  <2> QED
    BY <2>5 DEF OneStage
<1>6. CASE PollTask
  <2>1. Polled /\ Polled' /\ attempt = Channels /\ upstream = Channels
    BY <1>2, <1>4, <1>6 DEF PollTask, Waiting, Polled
  <2>2. Only("poller")' /\ pc'["poller"] = "poll"
    BY <1>1, <1>3, <1>6, StaysOnly DEF PollTask
  <2>3. res'["poller"].attempt = Channels /\ res'["poller"].credits = 1 /\ asked' = Channels
    <3>1. res'["poller"] = FailedResult(Row, "stale")
      BY <1>1, <1>6 DEF PollTask, ReadRow, ProcTypes
    <3> QED
      BY <1>3, <1>6, <2>1, <3>1 DEF PollTask, FailedResult, Row
  <2>4. Paying(Channels)'
    BY <1>4, <2>1 DEF Paying, Open
  <2>5. Polling'
    BY <1>4, <2>1, <2>2, <2>3, <2>4 DEF Polling
  <2> QED
    BY <2>5 DEF OneStage
<1> QED
  BY <1>5, <1>6

\* The poller asks the upstream.
LEMMA PollCalm ==
    ASSUME Calm, TaskTypes, OneStage, PollOne
    PROVE  OneStage'
<1>1. Polling
  BY WhoWorks DEF PollOne, PollAged, PollNothing, PollDone, PollFailed
<1>2. /\ "poller" \in Actor /\ ProcTypes /\ Channels \in Attempt /\ Channels # 0
      /\ Only("poller") /\ NoMessage /\ Polled /\ Paying(Channels) /\ Open(Channels)
      /\ res["poller"].attempt = Channels /\ res["poller"].credits = 1 /\ asked = Channels
      /\ res["poller"] \in Result
  BY <1>1, ConstantTypes DEF Polling, Paying, TaskTypes, ProcTypes, Attempt
<1>3. Open(Channels)'
  BY <1>2, LedgerStays DEF PollOne, PollAged, PollNothing, PollDone, PollFailed
<1>4. ASSUME NEW text \in Reason, PublishFailedResult(text), UNCHANGED <<rowVars, ledgerVars, jobs, workerVars, writes>>
      PROVE  OneStage'
  <2>1. PICK reply \in Replies("publish") :
          /\ Answer(reply)
          /\ IF reply = "ok"
             THEN /\ results' = results (+) One(FailedResult(res["poller"], text))
                  /\ Goto("poller", "idle") /\ UNCHANGED arg
             ELSE /\ CallFail("poller", res["poller"].attempt, res["poller"].credits, text)
                  /\ UNCHANGED results
    BY <1>4 DEF PublishFailedResult
  <2>2. /\ Polled' /\ Paying(Channels)' /\ attempt' = Channels /\ status' = "processing"
        /\ jobs' = EmptyBag /\ running' = EmptyBag /\ writes' = <<>>
    BY <1>2, <1>3, <1>4 DEF Polled, Paying, NoMessage, rowVars, workerVars
  <2>3. CASE reply = "ok"
    <3> DEFINE r == FailedResult(res["poller"], text)
    <3>1. results' = One(r) /\ r \in BagToSet(results')
      BY <1>2, <2>1, <2>3, OneBag, OneComes DEF NoMessage
    <3>2. r.attempt = Channels /\ r.credits = 1 /\ r.outcome = "failed"
      BY <1>2 DEF FailedResult
    <3> HIDE DEF r
    <3>3. Resting'
      BY <1>2, <2>1, <2>3, StaysOnly
    <3>4. \E m \in BagToSet(results') : results' = One(m) /\ Reports(m)'
      BY <2>2, <3>1, <3>2 DEF Reports
    <3>5. Paying(attempt)'
      BY <2>2 DEF Paying, Open
    <3> QED
      BY <2>2, <3>3, <3>4, <3>5 DEF Reported, OneStage
  <2>4. CASE reply # "ok"
    <3>1. NoMessage' /\ upstream' # 0
      BY <1>2, <2>1, <2>2, <2>4 DEF NoMessage, Polled
    <3>2. CallFail("poller", Channels, 1, text) /\ UNCHANGED ledgerVars
      BY <1>2, <1>4, <2>1, <2>4
    <3>3. Failing("poller")'
      BY <1>2, <2>2, <3>1, <3>2, GivesUpCalm
    <3> QED
      BY <3>3 DEF OneStage
  <2> QED
    BY <2>3, <2>4
<1>5. CASE PollAged
  BY <1>4, <1>5, FailureNamed DEF PollAged
<1>6. CASE PollFailed
  BY <1>4, <1>6, FailureNamed DEF PollFailed
<1>7. CASE PollNothing
  <2>1. Resting'
    BY <1>2, <1>7, StaysOnly DEF PollNothing
  <2>2. NoMessage' /\ Paying(attempt)' /\ Polled'
    BY <1>2, <1>3, <1>7 DEF PollNothing, NoMessage, Polled, Paying, Open, rowVars, queueVars, workerVars
  <2> QED
    BY <2>1, <2>2 DEF Waiting, OneStage
<1>8. CASE PollDone
  <2>1. Resting'
    BY <1>2, <1>8, StaysOnly DEF PollDone
  <2>2. SetStatus("done")
    BY <1>8, Calmly DEF PollDone, Unchecked
  <2>3. NoMessage' /\ status' = "done" /\ Open(attempt)'
    BY <1>2, <1>3, <1>8, <2>2 DEF PollDone, NoMessage, Polled, SetStatus, Open, queueVars, workerVars
  <2> QED
    BY <2>1, <2>3 DEF Ended, OneStage
<1> QED
  BY <1>5, <1>6, <1>7, <1>8 DEF PollOne

\* A message comes a second time.
ComesAgain == RedeliverJob \/ RedeliverResult

\* Every other step leads from stage to stage.
LEMMA StageSteps ==
    ASSUME Calm, TaskTypes, OneStage, [Next]_vars, ~ComesAgain
    PROVE  OneStage'
<1>1. CASE UNCHANGED <<status, attempt, credits, upstream, charged, refunded, jobs, results, running, pc, res, arg, asked, writes>>
  <2> USE <1>1 DEF Only, Resting, NoMessage, Open, Shut, Back, RefundsOf, Row1, Paying, Polled
  <2>1. Creating => Creating'
    BY DEF Creating
  <2>2. Marking => Marking'
    BY DEF Marking
  <2>3. AtWork => AtWork'
    BY DEF AtWork
  <2>4. Reported => Reported'
    BY DEF Reported, Reports
  <2>5. Polling => Polling'
    BY DEF Polling
  <2>6. Waiting => Waiting'
    BY DEF Waiting
  <2>7. Ended => Ended'
    BY DEF Ended
  <2>8. \A p \in Handler : Handling(p) => Handling(p)'
    BY DEF Handling
  <2>9. \A p \in Handler \cup {"poller", "cleaner"} : Failing(p) => Failing(p)'
    BY DEF Failing
  <2> QED
    BY <2>1, <2>2, <2>3, <2>4, <2>5, <2>6, <2>7, <2>8, <2>9 DEF OneStage
<1>2. UpstreamEnds \/ GrowOld \/ UNCHANGED vars => OneStage'
  BY <1>1 DEF UpstreamEnds, GrowOld, vars, rowVars, ledgerVars, queueVars, workerVars, procVars
<1>3. ~RedeliverJob /\ ~RedeliverResult /\ ~ServerDies
  BY Calmly DEF ComesAgain, ServerDies
<1>4. ASSUME NEW p \in Handler, handleResult(p)
      PROVE  OneStage'
  BY <1>4, TakeCalm, FindCalm, RetryCalm, FailCalm DEF handleResult
<1> QED
  BY <1>2, <1>3, <1>4, CreateCalm, WorkerCalm, FailCalm, FlushCalm, SweepCalm, PollCalm DEF Next

\* When nothing comes twice the task stays in one stage at a time.
LEMMA NothingAgain == ASSUME Env \subseteq {"publish"} PROVE ~ComesAgain
BY DEF ComesAgain, RedeliverJob, RedeliverResult, Fault

LEMMA CalmInvariant ==
    ASSUME Env \subseteq {"publish"}, OnlyLastPolled
    PROVE  Spec => [](TaskTypes /\ OneStage)
<1>1. Init => TaskTypes /\ OneStage
  BY InitTypes, InitCalm
<1>2. TaskTypes /\ OneStage /\ [Next]_vars => TaskTypes' /\ OneStage'
  BY StepTypes, StageSteps, NothingAgain DEF Calm
<1> QED
  BY <1>1, <1>2, PTL DEF Spec

-----------------------------------------------------------------------------
(***************************************************************************)
(* The properties.                                                         *)
(***************************************************************************)

LEMMA EndedAtLast ==
    ASSUME OneStage, AtRest \/ status = "done", status \in Final
    PROVE  Ended
<1>1. status # "pending" /\ status # "processing" /\ status # "none"
  BY DEF Final
<1>2. ~Marking /\ ~AtWork /\ ~Reported /\ ~Polling /\ ~Waiting /\ \A p \in Handler : ~Handling(p)
  BY <1>1 DEF Marking, Row1, AtWork, Reported, Polling, Waiting, Handling, Paying
<1>3. ~Creating
  BY <1>1, ConstantTypes DEF AtRest, Creating, Row1
<1>4. \A p \in Handler \cup {"poller", "cleaner"} : ~Failing(p)
  BY ConstantTypes DEF AtRest, Failing
<1> QED
  BY <1>2, <1>3, <1>4 DEF OneStage

\* When all is over a failed task has cost nothing.
THEOREM FailedCostsNothing ==
    ASSUME Env \subseteq {"publish"}, Async \subseteq {Channels}
    PROVE  Spec => []FailedIsRefunded
<1>1. OnlyLastPolled /\ Calm /\ ~ComesAgain
  BY NothingAgain DEF Calm, OnlyLastPolled
<1>2. TaskTypes /\ OneStage => FailedIsRefunded
  <2> SUFFICES ASSUME TaskTypes, OneStage, AtRest, status = "failed" PROVE Paid = {}
    BY DEF FailedIsRefunded
  <2>1. Ended
    BY EndedAtLast DEF Final
  <2>2. PICK a \in Attempt : Shut(a)
    BY <2>1 DEF Ended
  <2> QED
    BY <2>2, PaidIsNotBack, ConstantTypes DEF Shut, Attempt
<1> QED
  BY <1>1, <1>2, CalmInvariant, PTL

\* When all is over a finished task has cost the channel that did it.
THEOREM DoneIsPaidOnce ==
    ASSUME Env \subseteq {"publish"}, Async \subseteq {Channels}
    PROVE  Spec => []DoneIsPaid
<1>1. OnlyLastPolled /\ Calm /\ ~ComesAgain
  BY NothingAgain DEF Calm, OnlyLastPolled
<1>2. TaskTypes /\ OneStage => DoneIsPaid
  <2> SUFFICES ASSUME TaskTypes, OneStage, AtRest, status = "done" PROVE Paid = {attempt}
    BY DEF DoneIsPaid
  <2>1. Open(attempt)
    BY EndedAtLast DEF Final, Ended
  <2>2. attempt \in 1..Channels /\ Channels \in Nat
    BY ConstantTypes DEF TaskTypes, RowTypes, Attempt
  <2> QED
    BY <2>1, <2>2, PaidIsNotBack DEF Open, Attempt
<1> QED
  BY <1>1, <1>2, CalmInvariant, PTL

\* A finished task stays finished.
THEOREM FinishedForGood ==
    ASSUME Env \subseteq {"publish"}, Async \subseteq {Channels}
    PROVE  Spec => DoneStays
<1>1. OnlyLastPolled /\ Calm /\ ~ComesAgain
  BY NothingAgain DEF Calm, OnlyLastPolled
<1>2. TaskTypes /\ OneStage /\ [Next]_vars => [status = "done" => status' = "done"]_vars
  <2> SUFFICES ASSUME TaskTypes, OneStage, Next, status = "done" PROVE status' = "done"
    BY DEF vars, rowVars
  <2>1. Ended
    BY EndedAtLast DEF Final
  <2>2. /\ jobs = EmptyBag /\ running = EmptyBag /\ results = EmptyBag /\ writes = <<>>
        /\ \A p \in Actor : pc[p] = "idle"
    BY <2>1 DEF Ended, Resting, NoMessage
  <2>3. ~CreateTask
    BY <2>2, ConstantTypes DEF CreateTask, ChargeUser, InsertTask, WriteCharge, RefuseTask, PublishTask,
                               FailUnpublished, RefundUnpublished, MarkProcessing
  <2>4. ~TakeJob /\ ~FinishJob /\ ~RedeliverJob /\ ~WorkerDies
    BY <2>2, NoBag, Calmly, <1>1 DEF TakeJob, FinishJob, ComesAgain, WorkerDies
  <2>5. \A p \in Actor : ~failTaskDB(p)
    BY <2>2 DEF failTaskDB, FailTask, FailRefund, FailZero
  <2>6. \A p \in Handler : ~handleResult(p)
    BY <2>2, <2>5, NoBag, ConstantTypes
       DEF handleResult, TakeResult, RotateKey, SkipKey, Republish, FailedResultArrives, RetryRefund,
           RetryZero, RetryCharge, RetryWrite, RetryUpdate, RetryPublish
  <2>7. ~RedeliverResult /\ ~ServerDies /\ ~FlushBatch /\ ~CleanStaleTask /\ ~PollTask
    BY <1>1, <2>2, Calmly DEF ComesAgain, ServerDies, FlushBatch, CleanStaleTask, PollTask
  <2>8. ~PollOne
    BY <2>2, ConstantTypes DEF PollOne, PollAged, PollNothing, PollDone, PollFailed
  <2>9. UpstreamEnds \/ GrowOld
    BY <2>3, <2>4, <2>5, <2>6, <2>7, <2>8, ConstantTypes DEF Next
  <2> QED
    BY <2>9 DEF UpstreamEnds, GrowOld, rowVars
<1> QED
  BY <1>1, <1>2, CalmInvariant, PTL DEF Spec, DoneStays
=============================================================================
