--------------------------- MODULE TaskEchoProofs ---------------------------
(***************************************************************************)
(* Theorems about a task with an echo: nothing fails but publishes, and    *)
(* one message comes twice or is refused.  Until a message comes twice the *)
(* task is in one stage at a time (TaskCalmProofs).  Then two goroutines,  *)
(* messages or sweeps may take it further, and what is shown is that only  *)
(* one of them gives the last attempt back.                                *)
(***************************************************************************)
EXTENDS TaskCalmProofs, TotalsProofs

-----------------------------------------------------------------------------
(***************************************************************************)
(* What holds until a publish is refused.                                  *)
(***************************************************************************)

\* One publish is refused or one message comes twice, and no key of a pool is left
\* after the first.
Echoes == Calm /\ MaxFaults <= 1 /\ Keys <= 1

\* A handler that failTaskDB has let in, and one that has not come so far.
ClaimStep   == {"failRefund", "failZero"}
Claims(p)   == p \in Handler /\ pc[p] \in ClaimStep
AtIt        == {p \in Handler : pc[p] \notin ClaimStep \cup {"idle"}}
Promotes(p) == p \in Handler /\ pc[p] \in {"retryUpdate", "retryPublish"}

\* A task that is neither finished nor with the upstream is with somebody.
Alive ==
    status = "pending" \/ (status = "processing" /\ upstream = 0) =>
        \/ jobs # EmptyBag \/ running # EmptyBag \/ results # EmptyBag \/ writes # <<>>
        \/ AtIt # {} \/ pc["api"] \notin {"idle", "mark"}

\* Only a failure of the last attempt calls failTaskDB with credits.
Blames ==
    /\ \A p \in Handler : pc[p] \in FailStep /\ arg[p].credits = 1 =>
           arg[p].attempt = Channels /\ res[p].attempt = Channels /\ res[p].credits = 1
    /\ \A p \in Handler : Claims(p) => arg[p].credits = 1

Unhurt ==
    /\ pc["cleaner"] = "idle" /\ pc["poller"] \in {"idle", "poll"}
    /\ pc["api"] \notin {"refuse", "pubFail", "pubRefund"}
    /\ pc["api"] = "mark" => jobs # EmptyBag
    /\ \A x \in refunded : x[1] # Channels => x[2] = "channelRetry"
    /\ Alive /\ Blames

\* No key is left for a result that asks for one.
AsksKey  == {"rate_limited", "pool_key_retry"}
Spent(m) == m.outcome \in AsksKey => m.tried >= Keys
KeysSpent ==
    /\ \A m \in BagToSet(results) : Spent(m)
    /\ \A i \in DOMAIN writes : Spent(writes[i])
    /\ \A p \in Handler : Spent(res[p]) /\ pc[p] # "republish"
    /\ \A p \in Handler : pc[p] \in {"rotate", "skip"} => res[p].outcome \in AsksKey

\* An attempt is refunded once, after its charge.
RefundedOnceEach ==
    /\ \A x, y \in refunded : x[1] = y[1] => x = y
    /\ \A x \in refunded : x[1] \in charged

-----------------------------------------------------------------------------
(***************************************************************************)
(* What holds when a message has come twice.                               *)
(***************************************************************************)

\* The last attempt was refunded or is about to be.
Claimed == Back(Channels) \/ \E p \in Handler : Claims(p)
\* The poller asks, or nobody is in its way.
PollDue ==
    \/ pc["poller"] = "poll"
    \/ status = "processing" /\ upstream # 0 /\ results = EmptyBag /\ writes = <<>> /\ AtIt = {}
Flag(b) == IF b THEN 1 ELSE 0
Size(B) == Total(B, DOMAIN B)

\* Who may end the task or take it further.  There are two, and a refund of the last
\* attempt is in the place of one of them.
Weight  == Size(jobs) + Size(running) + Size(results) + Len(writes) + Cardinality(AtIt)
Counted ==
    /\ IsFiniteSet(DOMAIN jobs) /\ IsFiniteSet(DOMAIN running) /\ IsFiniteSet(DOMAIN results)
    /\ Weight + Flag(PollDue) + Flag(Claimed) <= 2

Created == pc["api"] = "idle" /\ status \notin {"none", "pending"}

\* The row names the last attempt when that one has been charged and the row was
\* updated, and no other attempt is with the upstream.
RowLast ==
    /\ Channels \in charged => attempt = Channels \/ \E p \in Handler : pc[p] = "retryUpdate"
    /\ upstream # 0 => upstream = Channels /\ attempt = Channels
    /\ pc["poller"] = "poll" => upstream # 0 /\ res["poller"].attempt = Channels

\* One handler at a time refunds the last attempt.
OneClaim ==
    /\ \A p \in Handler : pc[p] = "failRefund" => ~Back(Channels)
    /\ \A p, q \in Handler : Claims(p) /\ Claims(q) => p = q

\* A result that refunds nothing any more, and nobody who would refund the last
\* attempt.
Ends(m)     == m.outcome \in {"done", "async"}
Harmless(m) == m.attempt = Channels => m.credits = 0
NoClaimant  ==
    /\ \A j \in BagToSet(jobs) \cup BagToSet(running) : j.attempt # Channels
    /\ \A m \in BagToSet(results) : Ends(m) \/ Harmless(m)
    /\ \A p \in AtIt : Harmless(res[p])
    /\ pc["poller"] = "poll" => Harmless(res["poller"])

\* When the last attempt has its refund the task has failed, or nobody is left to
\* refund it again; and its row says that it cost nothing.
ClaimsSettled == Claimed =>
    /\ status = "failed" \/ NoClaimant
    /\ credits = 0 \/ \E p \in Handler : Claims(p)

\* While a handler moves the task to its next attempt nothing is about that one.
About(n) ==
    \/ \E j \in BagToSet(jobs) \cup BagToSet(running) : j.attempt = n
    \/ \E m \in BagToSet(results) : m.attempt = n
    \/ \E i \in DOMAIN writes : writes[i].attempt = n
    \/ \E q \in Handler : pc[q] # "idle" /\ res[q].attempt = n
Newest(n) == n + 1 \notin charged /\ ~About(n) /\ ~Back(n)
OnePromotion ==
    /\ \A p \in Handler, n \in Attempt : Promotes(p) /\ n = res[p].attempt + 1 => Newest(n)
    /\ \A p \in Handler : Promotes(p) => upstream = 0 /\ \A q \in Handler : Promotes(q) => q = p

Echoed == Counted /\ Created /\ RowLast /\ OneClaim /\ ClaimsSettled /\ OnePromotion

-----------------------------------------------------------------------------
(***************************************************************************)
(* Counting messages and handlers.                                         *)
(***************************************************************************)

\* A bag as a function to its counts.
LEMMA BagCounts ==
    ASSUME NEW B, IsABag(B)
    PROVE  /\ \A m \in DOMAIN B : B[m] \in Nat /\ B[m] >= 1
           /\ BagToSet(B) = DOMAIN B
BY DEF IsABag, BagToSet

\* A finite bag has a number of messages, and one at least when there is any.
LEMMA SizeType ==
    ASSUME NEW B, IsABag(B), IsFiniteSet(DOMAIN B)
    PROVE  Size(B) \in Nat /\ \A m \in BagToSet(B) : Size(B) >= 1
<1>1. Size(B) \in Nat
  BY BagCounts, TotalType DEF Size
<1>2. ASSUME NEW m \in DOMAIN B PROVE Size(B) >= 1
  <2>1. B[m] <= Total(B, DOMAIN B)
    BY BagCounts, TotalBound
  <2> QED
    BY <1>1, <2>1, BagCounts DEF Size
<1> QED
  BY <1>1, <1>2, BagCounts

\* The empty bag has none.
LEMMA SizeNone == IsFiniteSet(DOMAIN EmptyBag) /\ Size(EmptyBag) = 0
<1>1. DOMAIN EmptyBag = {}
  BY DEF EmptyBag, SetToBag
<1> QED
  BY <1>1, FS_EmptySet, TotalEmpty DEF Size

\* A bag of which nothing is left, and one that has something.
LEMMA BagEmpty == ASSUME NEW B, IsABag(B), B # EmptyBag PROVE \E m : m \in BagToSet(B)
<1> SUFFICES ASSUME BagToSet(B) = {} PROVE FALSE
  OBVIOUS
<1>1. B = [e \in {} |-> 1] /\ EmptyBag = [e \in {} |-> 1]
  BY DEF IsABag, BagToSet, EmptyBag, SetToBag
<1> QED
  BY <1>1

\* A message more, and one less.
LEMMA SizeMore ==
    ASSUME NEW B, IsABag(B), IsFiniteSet(DOMAIN B), NEW m
    PROVE  IsFiniteSet(DOMAIN (B (+) One(m))) /\ Size(B (+) One(m)) = Size(B) + 1
<1> DEFINE C == B (+) One(m)
<1>1. /\ DOMAIN C = DOMAIN B \cup {m}
      /\ \A e \in DOMAIN B \ {m} : C[e] = B[e]
      /\ C[m] = (IF m \in DOMAIN B THEN B[m] ELSE 0) + 1
  <2>1. DOMAIN One(m) = {m} /\ One(m)[m] = 1
    BY DEF One, SetToBag
  <2>2. \A e \in DOMAIN B : B[e] \in Nat
    BY BagCounts
  <2> QED
    BY <2>1, <2>2 DEF (+)
<1> HIDE DEF C
<1>2. \A e \in DOMAIN B : B[e] \in Nat /\ B[e] >= 1
  BY BagCounts
<1>3. IsFiniteSet(DOMAIN C)
  BY <1>1, FS_AddElement
<1>4. CASE m \in DOMAIN B
  <2>1. DOMAIN C = DOMAIN B /\ C[m] = B[m] + 1
    BY <1>1, <1>4
  <2>2. B[m] + 1 \in Nat /\ 1 \in Int
    BY <1>2, <1>4
  <2>3. Total(C, DOMAIN B) = Total(B, DOMAIN B) + 1
    BY <1>1, <1>2, <1>4, <2>1, <2>2, TotalUpdate
  <2> QED
    BY <1>3, <2>1, <2>3 DEF Size, C
<1>5. CASE m \notin DOMAIN B
  <2>1. C[m] = 1 /\ \A e \in DOMAIN B \cup {m} : C[e] \in Nat
    BY <1>1, <1>2, <1>5
  <2>2. Total(C, DOMAIN B \cup {m}) = C[m] + Total(C, DOMAIN B)
    BY <1>5, <2>1, TotalAdd
  <2>3. Total(C, DOMAIN B) = Total(B, DOMAIN B)
    <3>1. \A e \in DOMAIN B : C[e] = B[e]
      BY <1>1, <1>5
    <3> QED
      BY <3>1, TotalSame
  <2>4. Total(B, DOMAIN B) \in Nat
    BY <1>2, TotalType
  <2> QED
    BY <1>1, <1>3, <2>1, <2>2, <2>3, <2>4 DEF Size, C
<1> QED
  BY <1>4, <1>5

LEMMA SizeLess ==
    ASSUME NEW B, IsABag(B), IsFiniteSet(DOMAIN B), NEW m \in BagToSet(B)
    PROVE  IsFiniteSet(DOMAIN (B (-) One(m))) /\ Size(B (-) One(m)) = Size(B) - 1
<1> DEFINE C == B (-) One(m)
<1>1. m \in DOMAIN B /\ \A e \in DOMAIN B : B[e] \in Nat /\ B[e] >= 1
  BY BagCounts
<1>2. /\ DOMAIN C = IF B[m] = 1 THEN DOMAIN B \ {m} ELSE DOMAIN B
      /\ \A e \in DOMAIN B \ {m} : C[e] = B[e]
      /\ B[m] # 1 => C[m] = B[m] - 1
  <2>1. DOMAIN One(m) = {m} /\ One(m)[m] = 1
    BY DEF One, SetToBag
  <2> DEFINE D == [e \in DOMAIN B |-> IF e \in DOMAIN One(m) THEN B[e] - One(m)[e] ELSE B[e]]
  <2>2. C = [e \in {d \in DOMAIN D : D[d] > 0} |-> D[e]]
    BY DEF (-)
  <2>3. D[m] = B[m] - 1 /\ \A e \in DOMAIN B \ {m} : D[e] = B[e] /\ D[e] > 0
    BY <1>1, <2>1
  <2>4. DOMAIN D = DOMAIN B
    OBVIOUS
  <2> HIDE DEF C, D
  <2>5. B[m] = 1 => ~(D[m] > 0)
    BY <2>3
  <2>6. B[m] # 1 => D[m] > 0
    BY <1>1, <2>3
  <2> QED
    BY <1>1, <2>2, <2>3, <2>4, <2>5, <2>6
<1> HIDE DEF C
<1>3. IsFiniteSet(DOMAIN C)
  BY <1>2, FS_Subset
<1>4. CASE B[m] = 1
  <2>1. m \notin DOMAIN C /\ DOMAIN C \cup {m} = DOMAIN B
    BY <1>1, <1>2, <1>4
  <2>2. Total(B, DOMAIN C \cup {m}) = B[m] + Total(B, DOMAIN C)
    BY <1>1, <1>3, <2>1, TotalAdd
  <2>3. \A e \in DOMAIN C : B[e] = C[e]
    BY <1>2, <1>4
  <2>4. Total(B, DOMAIN C) = Total(C, DOMAIN C)
    BY <2>3, TotalSame
  <2>5. Total(B, DOMAIN C) \in Nat
    BY <1>1, <1>3, <2>1, TotalType
  <2> QED
    BY <1>3, <1>4, <2>1, <2>2, <2>4, <2>5 DEF Size, C
<1>5. CASE B[m] # 1
  <2>1. DOMAIN C = DOMAIN B /\ C[m] = B[m] + (-1)
    BY <1>1, <1>2, <1>5
  <2>2. B[m] + (-1) \in Nat /\ -1 \in Int
    BY <1>1, <1>5
  <2>3. Total(C, DOMAIN B) = Total(B, DOMAIN B) + (-1)
    BY <1>1, <1>2, <2>1, <2>2, TotalUpdate
  <2>4. Total(B, DOMAIN B) \in Nat
    BY <1>1, TotalType
  <2> QED
    BY <1>3, <2>1, <2>3, <2>4 DEF Size, C
<1> QED
  BY <1>4, <1>5

\* A handler that comes to work, and one that leaves.
LEMMA HandlersAtIt ==
    /\ IsFiniteSet(AtIt) /\ Cardinality(AtIt) \in Nat
    /\ \A p \in AtIt : Cardinality(AtIt) >= 1
<1>1. IsFiniteSet(AtIt)
  BY TaskAssumption, FS_Subset DEF AtIt
<1>2. \A p \in AtIt : Cardinality(AtIt) # 0
  BY <1>1, FS_EmptySet
<1>3. Cardinality(AtIt) \in Nat
  BY <1>1, FS_CardinalityType
<1> QED
  BY <1>1, <1>2, <1>3

LEMMA HandlerComes ==
    ASSUME NEW p, p \notin AtIt, AtIt' = AtIt \cup {p}
    PROVE  Cardinality(AtIt)' = Cardinality(AtIt) + 1
<1>1. Cardinality(AtIt \cup {p}) = Cardinality(AtIt) + 1
  BY HandlersAtIt, FS_AddElement
<1> QED
  BY <1>1

LEMMA HandlerLeaves ==
    ASSUME NEW p \in AtIt, AtIt' = AtIt \ {p}
    PROVE  Cardinality(AtIt)' = Cardinality(AtIt) - 1
<1>1. Cardinality(AtIt \ {p}) = Cardinality(AtIt) - 1
  BY HandlersAtIt, FS_RemoveElement
<1> QED
  BY <1>1

-----------------------------------------------------------------------------
(***************************************************************************)
(* The building blocks of the steps.                                       *)
(***************************************************************************)

\* While nothing is refused every publish and every statement succeeds.
LEMMA Published ==
    ASSUME BudgetType, NEW reply, Answer(reply), budget' = budget
    PROVE  reply = "ok"
BY ConstantTypes DEF BudgetType, Answer

\* A goroutine and its next step.
LEMMA Goes ==
    ASSUME TaskTypes, NEW p \in Actor, NEW s, Goto(p, s)
    PROVE  pc'[p] = s /\ \A q \in Actor : q # p => pc'[q] = pc[q]
BY DEF Goto, TaskTypes, ProcTypes

\* A goroutine that calls failTaskDB.
LEMMA Fails ==
    ASSUME TaskTypes, NEW p \in Actor, NEW a, NEW n, NEW text, CallFail(p, a, n, text)
    PROVE  /\ pc'[p] = "fail" /\ arg'[p].attempt = a /\ arg'[p].credits = n
           /\ \A q \in Actor : q # p => pc'[q] = pc[q] /\ arg'[q] = arg[q]
BY DEF CallFail, Goto, TaskTypes, ProcTypes

\* A handler is none of the goroutines with a name.
LEMMA Handlers ==
    ASSUME NEW p \in Handler
    PROVE  p \in Actor /\ p # "api" /\ p # "poller" /\ p # "cleaner"
BY ConstantTypes

\* What a step of a handler leaves alone.
Alone(p) == \A q \in Actor : q # p => pc'[q] = pc[q] /\ arg'[q] = arg[q] /\ res'[q] = res[q]

\* failTaskDB moves its goroutine and the row, and no message.
LEMMA FailAlone ==
    ASSUME TaskTypes, NEW p \in Actor, failTaskDB(p)
    PROVE  /\ Alone(p) /\ res' = res /\ arg' = arg
           /\ UNCHANGED <<queueVars, workerVars, writes, old>>
<1>1. \E s : Goto(p, s)
  BY DEF failTaskDB, FailTask, FailRefund, FailZero
<1>2. res' = res /\ arg' = arg /\ UNCHANGED <<queueVars, workerVars, writes, old>>
  BY DEF failTaskDB, FailTask, FailRefund, FailZero
<1> QED
  BY <1>1, <1>2, Goes DEF Alone

\* A handler goes on, or calls failTaskDB.
Onward(p) ==
    \/ UNCHANGED arg /\ \E s : Goto(p, s)
    \/ \E a, n, text : CallFail(p, a, n, text)

\* Such a step leaves the other goroutines where they are.
LEMMA OnwardAlone ==
    ASSUME TaskTypes, NEW p \in Actor, Onward(p), UNCHANGED res
    PROVE  Alone(p)
<1>1. CASE UNCHANGED arg /\ \E s : Goto(p, s)
  BY <1>1, Goes DEF Alone
<1>2. CASE \E a, n, text : CallFail(p, a, n, text)
  BY <1>2, Fails DEF Alone
<1> QED
  BY <1>1, <1>2 DEF Onward

HandlerStep(p) ==
    \/ RotateKey(p) \/ SkipKey(p) \/ Republish(p)
    \/ FailedResultArrives(p) \/ RetryRefund(p) \/ RetryZero(p) \/ RetryCharge(p)
    \/ RetryWrite(p) \/ RetryUpdate(p) \/ RetryPublish(p)

\* A step of handleResult moves its handler, and no result.
LEMMA HandlerAlone ==
    ASSUME TaskTypes, NEW p \in Handler, HandlerStep(p)
    PROVE  Alone(p) /\ UNCHANGED <<res, results, workerVars, writes, old>>
<1>1. Onward(p)
  <2>1. RotateKey(p) \/ SkipKey(p) \/ Republish(p) => Onward(p)
    BY DEF RotateKey, SkipKey, Republish, Onward
  <2>2. FailedResultArrives(p) \/ RetryRefund(p) \/ RetryZero(p) \/ RetryCharge(p) => Onward(p)
    BY DEF FailedResultArrives, RetryRefund, RetryZero, RetryCharge, Onward
  <2>3. RetryWrite(p) \/ RetryUpdate(p) \/ RetryPublish(p) => Onward(p)
    BY DEF RetryWrite, RetryUpdate, RetryPublish, Onward
  <2> QED
    BY <2>1, <2>2, <2>3 DEF HandlerStep
<1>2. UNCHANGED <<res, results, workerVars, writes, old>>
  BY DEF HandlerStep, RotateKey, SkipKey, Republish, FailedResultArrives, RetryRefund, RetryZero, RetryCharge,
         RetryWrite, RetryUpdate, RetryPublish, queueVars
<1> QED
  BY <1>1, <1>2, Handlers, OnwardAlone

-----------------------------------------------------------------------------
(***************************************************************************)
(* The keys are spent.                                                     *)
(***************************************************************************)

\* A result that comes asks for no key that is left, and no handler takes one.
LEMMA SpentKept ==
    ASSUME KeysSpent,
           \A m \in BagToSet(results') : m \in BagToSet(results) \/ Spent(m),
           \A i \in DOMAIN writes' : Spent(writes'[i]),
           \A p \in Handler : /\ Spent(res'[p]) /\ pc'[p] # "republish"
                              /\ pc'[p] \in {"rotate", "skip"} => res'[p].outcome \in AsksKey
    PROVE  KeysSpent'
BY DEF KeysSpent, Spent

\* At first there is no result.
LEMMA InitKeys == Init => KeysSpent
<1> SUFFICES ASSUME Init PROVE KeysSpent
  OBVIOUS
<1>1. BagToSet(results) = {} /\ DOMAIN writes = {}
  <2>1. writes = <<>> /\ results = EmptyBag
    BY DEF Init
  <2> QED
    BY <2>1, NoBag
<1>2. \A p \in Handler : pc[p] = "idle" /\ res[p].outcome = "failed"
  BY Handlers DEF Init, NoResult
<1> QED
  BY <1>1, <1>2 DEF KeysSpent, Spent, AsksKey

\* The goroutines of the handlers stay where they are, and no result comes.
LEMMA SpentStays ==
    ASSUME KeysSpent, UNCHANGED <<results, writes>>,
           \A p \in Handler : res'[p] = res[p] /\ pc'[p] = pc[p]
    PROVE  KeysSpent'
BY SpentKept DEF KeysSpent

\* A worker reports what it tried.
LEMMA FinishSpent ==
    ASSUME Echoes, TaskTypes, KeysSpent, FinishJob
    PROVE  KeysSpent'
<1>0. PICK j \in BagToSet(running) : \E outcome \in Outcomes(j) : \E text \in Texts(outcome) :
        results' = results (+) One(ResultOf(j, outcome, text)) \/ results' = results
  BY DEF FinishJob
<1>1. PICK outcome \in Outcomes(j) : \E text \in Texts(outcome) :
        results' = results (+) One(ResultOf(j, outcome, text)) \/ results' = results
  BY <1>0
<1>2. PICK text \in Texts(outcome) :
        results' = results (+) One(ResultOf(j, outcome, text)) \/ results' = results
  BY <1>1
<1>3. Spent(ResultOf(j, outcome, text))
  <2>1. j.tried \in 0..Keys /\ Keys \in Nat /\ Keys <= 1
    BY ConstantTypes DEF TaskTypes, WorkerTypes, Job, Echoes
  <2>2. outcome \in AsksKey => Keys = 1
    BY <2>1 DEF Outcomes, AsksKey
  <2> QED
    BY <2>1, <2>2 DEF ResultOf, Spent, AsksKey
<1>4. \A m \in BagToSet(results') : m \in BagToSet(results) \/ Spent(m)
  <2>1. IsABag(results)
    BY DEF TaskTypes, QueueTypes
  <2> QED
    BY <1>2, <1>3, <2>1, OneBag, MoreInBag
<1>5. UNCHANGED <<writes, res, pc>>
  BY DEF FinishJob, procVars
<1> QED
  BY <1>4, <1>5, SpentKept DEF KeysSpent

\* A handler takes a result as it is.
LEMMA TakeSpent ==
    ASSUME TaskTypes, KeysSpent, NEW p \in Handler, TakeResult(p)
    PROVE  KeysSpent'
<1>1. PICK r \in BagToSet(results) :
        /\ results' = results (-) One(r)
        /\ IF r.outcome \in {"done", "async"}
           THEN writes' = Append(writes, r) /\ UNCHANGED procVars
           ELSE /\ res' = [res EXCEPT ![p] = r]
                /\ Goto(p, CASE r.outcome = "rate_limited"   -> "rotate"
                             [] r.outcome = "pool_key_retry" -> "skip"
                             [] OTHER                        -> "failed")
                /\ UNCHANGED <<arg, asked, writes>>
  BY DEF TakeResult
<1>2. BagToSet(results') \subseteq BagToSet(results) /\ Spent(r)
  BY <1>1, OneBag, LessInBag DEF TaskTypes, QueueTypes, KeysSpent
<1>3. CASE r.outcome \in {"done", "async"}
  <2>1. \A i \in DOMAIN writes' : Spent(writes'[i])
    <3>1. writes \in Seq(Result) /\ r \in Result
      BY DEF TaskTypes, ServerTypes, QueueTypes
    <3>2. \A i \in DOMAIN writes' : writes'[i] = r \/ (i \in DOMAIN writes /\ writes'[i] = writes[i])
      BY <1>1, <1>3, <3>1
    <3> QED
      BY <1>2, <3>2 DEF KeysSpent
  <2> QED
    BY <1>1, <1>2, <1>3, <2>1, SpentKept DEF KeysSpent, procVars
<1>4. CASE r.outcome \notin {"done", "async"}
  <2>1. /\ res'[p] = r /\ \A q \in Handler : q # p => res'[q] = res[q] /\ pc'[q] = pc[q]
        /\ pc'[p] \in {"rotate", "skip", "failed"}
        /\ pc'[p] \in {"rotate", "skip"} => r.outcome \in AsksKey
    BY <1>1, <1>4, Goes, Handlers DEF TaskTypes, ProcTypes, AsksKey
  <2> QED
    BY <1>1, <1>2, <1>4, <2>1, SpentKept DEF KeysSpent
<1> QED
  BY <1>3, <1>4

\* The copy of a result is like it.
LEMMA AgainSpent ==
    ASSUME TaskTypes, KeysSpent, RedeliverResult
    PROVE  KeysSpent'
<1>1. ASSUME NEW m \in Result, Spent(m) PROVE \A c \in BagToSet(Again(m)) : Spent(c)
  BY <1>1, AgainBag DEF Spent, Result
<1>2. ASSUME NEW m \in Result, Spent(m), results' = results (+) Again(m)
      PROVE  \A c \in BagToSet(results') : c \in BagToSet(results) \/ Spent(c)
  BY <1>1, <1>2, AgainBag, MoreInBag DEF TaskTypes, QueueTypes
<1>3. CASE \E p \in Handler :
          /\ pc[p] # "idle" /\ res[p].left > 0
          /\ results' = results (+) Again(res[p])
          /\ res' = [res EXCEPT ![p].left = 0]
          /\ UNCHANGED writes
  <2>1. PICK p \in Handler : /\ results' = results (+) Again(res[p])
                             /\ res' = [res EXCEPT ![p].left = 0]
    BY <1>3
  <2>2. \A q \in Handler : Spent(res'[q]) /\ res'[q].outcome = res[q].outcome
    BY <2>1, Handlers DEF TaskTypes, ProcTypes, KeysSpent, Spent
  <2> QED
    BY <1>2, <1>3, <2>1, <2>2, SpentKept, HeldType, Handlers DEF KeysSpent, RedeliverResult, TaskTypes
<1>4. CASE \E i \in DOMAIN writes :
          /\ writes[i].left > 0
          /\ results' = results (+) Again(writes[i])
          /\ writes' = [writes EXCEPT ![i].left = 0]
          /\ UNCHANGED res
  <2>1. PICK i \in DOMAIN writes : /\ results' = results (+) Again(writes[i])
                                   /\ writes' = [writes EXCEPT ![i].left = 0]
    BY <1>4
  <2>2. \A k \in DOMAIN writes' : Spent(writes'[k])
    BY <2>1 DEF KeysSpent, Spent
  <2> QED
    BY <1>2, <1>4, <2>1, <2>2, SpentKept DEF KeysSpent, RedeliverResult, TaskTypes, ServerTypes
<1> QED
  BY <1>3, <1>4 DEF RedeliverResult

\* Without a key that is left the job is not published again.
LEMMA HandlerSpent ==
    ASSUME TaskTypes, KeysSpent, NEW p \in Handler, HandlerStep(p)
    PROVE  KeysSpent'
<1>1. UNCHANGED <<res, results, writes>> /\ \A q \in Handler : q # p => pc'[q] = pc[q]
  BY HandlerAlone, Handlers DEF Alone
<1>2. /\ pc'[p] # "republish" /\ pc'[p] # "rotate"
      /\ pc'[p] = "skip" => pc[p] = "rotate"
  <2>1. Keys \in Nat /\ res[p].tried \in 0..Keys
    BY HeldType, Handlers, ConstantTypes DEF TaskTypes
  <2>2. CASE SkipKey(p)
    <3>1. ~(res[p].tried < Keys)
      BY <2>1, <2>2 DEF SkipKey, KeysSpent, Spent
    <3> QED
      BY <2>2, <3>1, Goes, Handlers DEF SkipKey
  <2>3. CASE RotateKey(p)
    <3>1. ~(res[p].tried < Keys)
      BY <2>1, <2>3 DEF RotateKey, KeysSpent, Spent
    <3> QED
      BY <2>3, <3>1, Goes, Handlers DEF RotateKey
  <2>4. CASE Republish(p)
    BY <2>4 DEF Republish, KeysSpent
  <2>5. CASE FailedResultArrives(p) \/ RetryRefund(p) \/ RetryZero(p) \/ RetryCharge(p)
    BY <2>5, Goes, Fails, Handlers DEF FailedResultArrives, RetryRefund, RetryZero, RetryCharge
  <2>6. CASE RetryWrite(p) \/ RetryUpdate(p) \/ RetryPublish(p)
    BY <2>6, Goes, Fails, Handlers DEF RetryWrite, RetryUpdate, RetryPublish
  <2> QED
    BY <2>2, <2>3, <2>4, <2>5, <2>6 DEF HandlerStep
<1> QED
  BY <1>1, <1>2, SpentKept DEF KeysSpent

\* Every step keeps the keys spent.
LEMMA SpentSteps ==
    ASSUME Echoes, TaskTypes, KeysSpent, [Next]_vars
    PROVE  KeysSpent'
<1>1. ASSUME NEW p \in Actor, failTaskDB(p) PROVE KeysSpent'
  <2>1. UNCHANGED <<results, writes, res>> /\ \A q \in Actor : q # p => pc'[q] = pc[q]
    BY <1>1, FailAlone DEF Alone, queueVars
  <2>2. pc'[p] \notin {"republish", "rotate", "skip"}
    BY <1>1, Goes DEF failTaskDB, FailTask, FailRefund, FailZero
  <2> QED
    BY <2>1, <2>2, SpentKept, Handlers DEF KeysSpent
<1>2. ASSUME NEW p \in Handler, handleResult(p) PROVE KeysSpent'
  BY <1>1, <1>2, TakeSpent, HandlerSpent, Handlers DEF handleResult, HandlerStep
<1>3. CASE CreateTask
  <2>1. UNCHANGED <<results, writes, res>> /\ \E s : Goto("api", s)
    BY <1>3 DEF CreateTask, ChargeUser, InsertTask, WriteCharge, RefuseTask, PublishTask, FailUnpublished,
                RefundUnpublished, MarkProcessing, queueVars
  <2> QED
    BY <2>1, Goes, SpentStays, Handlers, ConstantTypes
<1>4. CASE TakeJob \/ RedeliverJob \/ UpstreamEnds \/ GrowOld \/ UNCHANGED vars
  <2>1. UNCHANGED <<results, writes, res, pc>>
    BY <1>4 DEF TakeJob, RedeliverJob, UpstreamEnds, GrowOld, vars, queueVars, procVars
  <2> QED
    BY <2>1, SpentStays
<1>5. CASE FlushBatch
  <2>1. PICK n \in 1..Len(writes) : writes' = SubSeq(writes, n + 1, Len(writes))
    BY <1>5 DEF FlushBatch
  <2>2. \A i \in DOMAIN writes' : \E k \in DOMAIN writes : writes'[i] = writes[k]
    <3>1. writes \in Seq(Result)
      BY DEF TaskTypes, ServerTypes
    <3>2. \A i \in DOMAIN writes' : i + n \in DOMAIN writes /\ writes'[i] = writes[i + n]
      BY <2>1, <3>1
    <3> QED
      BY <3>2
  <2> QED
    BY <1>5, <2>2, SpentKept DEF FlushBatch, KeysSpent, queueVars, procVars
<1>6. CASE CleanStaleTask \/ PollTask
  <2>1. /\ UNCHANGED <<results, writes>>
        /\ \A p \in Actor \ {"poller", "cleaner"} : pc'[p] = pc[p] /\ res'[p] = res[p]
    BY <1>6, ConstantTypes DEF CleanStaleTask, PollTask, CallFail, Goto, ReadRow, TaskTypes, ProcTypes, queueVars
  <2> QED
    BY <2>1, SpentStays, Handlers
<1>7. CASE PollOne
  <2>1. UNCHANGED <<writes, res>>
    BY <1>7 DEF PollOne, PollAged, PollNothing, PollDone, PollFailed
  <2>2. \A q \in Actor : q # "poller" => pc'[q] = pc[q]
    BY <1>7, Goes, Fails, ConstantTypes
       DEF PollOne, PollAged, PollNothing, PollDone, PollFailed, PublishFailedResult
  <2>3. \/ UNCHANGED results
        \/ \E text : results' = results (+) One(FailedResult(res["poller"], text))
    BY <1>7 DEF PollOne, PollAged, PollNothing, PollDone, PollFailed, PublishFailedResult, queueVars
  <2>4. \A text : Spent(FailedResult(res["poller"], text))
    BY DEF FailedResult, Spent, AsksKey
  <2>5. \A m \in BagToSet(results') : m \in BagToSet(results) \/ Spent(m)
    BY <2>3, <2>4, OneBag, MoreInBag DEF TaskTypes, QueueTypes
  <2> QED
    BY <2>1, <2>2, <2>5, SpentKept, Handlers DEF KeysSpent
<1>8. ~WorkerDies /\ ~ServerDies
  BY Calmly DEF Echoes, WorkerDies, ServerDies
<1> QED
  BY <1>1, <1>2, <1>3, <1>4, <1>5, <1>6, <1>7, <1>8, FinishSpent, AgainSpent, ConstantTypes DEF Next

-----------------------------------------------------------------------------
(***************************************************************************)
(* The steps of a handler while nothing is refused.                        *)
(***************************************************************************)

\* It goes on without a charge, a job or a change of the row but for its credits;
Moves(p) ==
    /\ pc[p] \in {"rotate", "skip", "failed", "retryRefund", "retryZero", "retryCharge", "retryWrite"}
    /\ pc'[p] \in {"skip", "failed", "retryRefund", "retryZero", "retryCharge", "retryWrite", "fail"}
    /\ pc'[p] = "fail" /\ arg'[p].credits = 1 =>
           arg'[p].attempt = Channels /\ res[p].attempt = Channels /\ res[p].credits = 1
    /\ UNCHANGED <<status, attempt, upstream, charged, jobs>> /\ credits' \in {credits, 0}
    /\ \/ UNCHANGED refunded
       \/ res[p].attempt < Channels /\ WriteRefund(res[p].attempt, "channelRetry")
\* it promotes the task;
Charges(p) ==
    /\ pc[p] = "retryWrite" /\ pc'[p] = "retryUpdate" /\ UNCHANGED <<rowVars, refunded, jobs>>
    /\ res[p].attempt + 1 \notin charged /\ charged' = charged \cup {res[p].attempt + 1}
Updates(p) ==
    /\ pc[p] = "retryUpdate" /\ pc'[p] = "retryPublish" /\ UNCHANGED <<upstream, ledgerVars, jobs>>
    /\ status' = "processing" /\ attempt' = res[p].attempt + 1 /\ credits' = 1
Publishes(p) ==
    /\ pc[p] = "retryPublish" /\ pc'[p] = "idle" /\ UNCHANGED <<rowVars, ledgerVars>>
    /\ jobs' = jobs (+) One(NewJob(res[p].attempt + 1, 0))

\* A step of handleResult is one of these.
LEMMA HandlerDoes ==
    ASSUME Echoes, TaskTypes, KeysSpent, NEW p \in Handler, HandlerStep(p), budget' = budget
    PROVE  (UNCHANGED arg /\ (Charges(p) \/ Updates(p) \/ Publishes(p))) \/ Moves(p)
<1>1. /\ p \in Actor /\ res[p].attempt \in Attempt /\ Channels \in Nat /\ Attempt \subseteq Nat
      /\ res[p].tried \in 0..Keys /\ Keys \in Nat /\ BudgetType /\ Replies("db") = {"ok"}
      /\ res[p].credits \in {0, 1} /\ res[p].attempt <= Channels
      /\ pc[p] \in NextStep => res[p].attempt < Channels
  BY HeldType, Handlers, ConstantTypes, Calmly DEF TaskTypes, ProcTypes, Fits, Echoes, Attempt
<1>2. CASE RotateKey(p)
  <2>1. pc[p] = "rotate" /\ ~(res[p].tried < Keys)
    BY <1>1, <1>2 DEF RotateKey, KeysSpent, Spent
  <2>2. Goto(p, "skip") /\ UNCHANGED <<jobs, rowVars, ledgerVars>>
    BY <1>2, <2>1 DEF RotateKey
  <2> QED
    BY <1>1, <2>1, <2>2, Goes DEF Moves, rowVars, ledgerVars
<1>3. CASE SkipKey(p)
  <2>1. pc[p] = "skip" /\ ~(res[p].tried < Keys)
    BY <1>1, <1>3 DEF SkipKey, KeysSpent, Spent
  <2>2. Goto(p, "failed") /\ UNCHANGED <<jobs, rowVars, ledgerVars>>
    BY <1>3, <2>1 DEF SkipKey, queueVars
  <2> QED
    BY <1>1, <2>1, <2>2, Goes DEF Moves, rowVars, ledgerVars
<1>4. CASE Republish(p)
  BY <1>4 DEF Republish, KeysSpent
<1>5. CASE FailedResultArrives(p)
  <2>1. pc[p] = "failed" /\ UNCHANGED <<jobs, rowVars, ledgerVars>>
    BY <1>5 DEF FailedResultArrives, queueVars
  <2>2. IF res[p].attempt < Channels
        THEN Goto(p, "retryRefund") \/ Goto(p, "retryCharge")
        ELSE CallFail(p, res[p].attempt, res[p].credits, res[p].text)
    BY <1>1, <1>5 DEF FailedResultArrives
  <2>3. CASE res[p].attempt < Channels
    <3>1. pc'[p] = "retryRefund" \/ pc'[p] = "retryCharge"
      BY <1>1, <2>2, <2>3, Goes
    <3> QED
      BY <2>1, <3>1 DEF Moves, rowVars, ledgerVars
  <2>4. CASE ~(res[p].attempt < Channels)
    <3>1. res[p].attempt = Channels
      <4> DEFINE a == res[p].attempt
      <4>1. a \in Nat /\ a <= Channels /\ ~(a < Channels)
        BY <1>1, <2>4
      <4> HIDE DEF a
      <4>2. a = Channels
        BY <1>1, <4>1
      <4> QED
        BY <4>2 DEF a
    <3>2. /\ pc'[p] = "fail" /\ arg'[p].attempt = res[p].attempt
          /\ arg'[p].credits = res[p].credits
      BY <1>1, <2>2, <2>4, Fails
    <3> QED
      BY <2>1, <3>1, <3>2 DEF Moves, rowVars, ledgerVars
  <2> QED
    BY <2>3, <2>4
<1>6. CASE RetryRefund(p)
  <2>1. pc[p] = "retryRefund" /\ UNCHANGED <<jobs, rowVars, charged>> /\ res[p].attempt < Channels
    BY <1>1, <1>6 DEF RetryRefund, queueVars, NextStep
  <2>2. Goto(p, "retryZero") /\ WriteRefund(res[p].attempt, "channelRetry")
    BY <1>1, <1>6 DEF RetryRefund
  <2> QED
    BY <1>1, <2>1, <2>2, Goes DEF Moves, rowVars
<1>7. CASE RetryZero(p)
  <2>1. pc[p] = "retryZero" /\ UNCHANGED <<jobs, ledgerVars>> /\ Goto(p, "retryCharge")
    BY <1>7 DEF RetryZero, queueVars
  <2>2. UNCHANGED <<status, attempt, upstream>> /\ credits' = 0
    BY <1>1, <1>7 DEF RetryZero, Unchecked, SetRow
  <2> QED
    BY <1>1, <2>1, <2>2, Goes DEF Moves, ledgerVars
<1>8. CASE RetryCharge(p)
  <2>1. pc[p] = "retryCharge" /\ UNCHANGED <<jobs, rowVars, ledgerVars>>
    BY <1>8 DEF RetryCharge, queueVars
  <2>2. Goto(p, "retryWrite") \/ CallFail(p, res[p].attempt, 0, res[p].text)
    BY <1>8 DEF RetryCharge
  <2> QED
    BY <1>1, <2>1, <2>2, Goes, Fails DEF Moves, rowVars, ledgerVars
<1>9. CASE RetryWrite(p)
  <2>1. pc[p] = "retryWrite" /\ UNCHANGED <<jobs, rowVars, refunded>>
    BY <1>9 DEF RetryWrite, queueVars
  <2>2. CASE res[p].attempt + 1 \notin charged
    <3>1. Goto(p, "retryUpdate") /\ UNCHANGED arg /\ charged' = charged \cup {res[p].attempt + 1}
      BY <1>1, <1>9, <2>2 DEF RetryWrite
    <3> QED
      BY <1>1, <2>1, <2>2, <3>1, Goes DEF Charges
  <2>3. CASE res[p].attempt + 1 \in charged
    <3>1. CallFail(p, res[p].attempt, 0, res[p].text) /\ UNCHANGED charged
      BY <1>1, <1>9, <2>3 DEF RetryWrite
    <3> QED
      BY <1>1, <2>1, <3>1, Fails DEF Moves, rowVars
  <2> QED
    BY <2>2, <2>3
<1>10. CASE RetryUpdate(p)
  <2>1. pc[p] = "retryUpdate" /\ UNCHANGED <<arg, jobs, ledgerVars>> /\ Goto(p, "retryPublish")
    BY <1>10 DEF RetryUpdate, queueVars
  <2>2. status' = "processing" /\ attempt' = res[p].attempt + 1 /\ credits' = 1 /\ UNCHANGED upstream
    BY <1>1, <1>10 DEF RetryUpdate, Unchecked, SetRow
  <2> QED
    BY <1>1, <2>1, <2>2, Goes DEF Updates
<1>11. CASE RetryPublish(p)
  <2>1. pc[p] = "retryPublish" /\ UNCHANGED <<rowVars, ledgerVars>>
    BY <1>11 DEF RetryPublish
  <2>2. Goto(p, "idle") /\ UNCHANGED arg /\ jobs' = jobs (+) One(NewJob(res[p].attempt + 1, 0))
    BY <1>1, <1>11, Published DEF RetryPublish
  <2> QED
    BY <1>1, <2>1, <2>2, Goes DEF Publishes
<1> QED
  BY <1>2, <1>3, <1>4, <1>5, <1>6, <1>7, <1>8, <1>9, <1>10, <1>11 DEF HandlerStep

\* failTaskDB: it gets in, comes too late, refunds, and writes the credits.
GetsIn(p) ==
    /\ pc[p] = "fail" /\ pc'[p] = "failRefund" /\ status # "failed" /\ arg[p].credits = 1
    /\ status' = "failed" /\ UNCHANGED <<attempt, credits, upstream, ledgerVars>>
GoesOff(p) ==
    /\ pc[p] = "fail" /\ pc'[p] = "idle"
    /\ status' = "failed" /\ UNCHANGED <<attempt, credits, upstream, ledgerVars>>
Refunds(p) ==
    /\ pc[p] = "failRefund" /\ pc'[p] = "failZero"
    /\ WriteRefund(arg[p].attempt, arg[p].text) /\ UNCHANGED <<rowVars, charged>>
Zeroes(p) ==
    /\ pc[p] = "failZero" /\ pc'[p] = "idle"
    /\ credits' = 0 /\ UNCHANGED <<status, attempt, upstream, ledgerVars>>

\* A step of failTaskDB is one of these.
LEMMA FailDoes ==
    ASSUME Echoes, TaskTypes, NEW p \in Actor, failTaskDB(p)
    PROVE  GetsIn(p) \/ GoesOff(p) \/ Refunds(p) \/ Zeroes(p)
<1>1. Replies("db") = {"ok"} /\ arg[p].credits \in {0, 1}
  BY Calmly DEF Echoes, TaskTypes, ProcTypes, Blame
<1>2. CASE FailTask(p)
  <2>1. pc[p] = "fail" /\ UNCHANGED ledgerVars
    BY <1>2 DEF FailTask
  <2>2. CASE status # "failed"
    <3>1. SetStatus("failed") /\ Goto(p, IF arg[p].credits > 0 THEN "failRefund" ELSE "idle")
      BY <1>1, <1>2, <2>2 DEF FailTask
    <3> QED
      BY <1>1, <2>1, <2>2, <3>1, Goes DEF SetStatus, GetsIn, GoesOff
  <2>3. CASE status = "failed"
    <3>1. UNCHANGED rowVars /\ Goto(p, "idle")
      BY <1>1, <1>2, <2>3 DEF FailTask
    <3> QED
      BY <2>1, <2>3, <3>1, Goes DEF rowVars, GoesOff
  <2> QED
    BY <2>2, <2>3
<1>3. CASE FailRefund(p)
  <2>1. /\ pc[p] = "failRefund" /\ Goto(p, "failZero") /\ UNCHANGED <<rowVars, charged>>
        /\ WriteRefund(arg[p].attempt, arg[p].text)
    BY <1>1, <1>3 DEF FailRefund
  <2> QED
    BY <2>1, Goes DEF Refunds
<1>4. CASE FailZero(p)
  <2>1. pc[p] = "failZero" /\ Goto(p, "idle") /\ UNCHANGED ledgerVars
    BY <1>4 DEF FailZero
  <2>2. credits' = 0 /\ UNCHANGED <<status, attempt, upstream>>
    BY <1>1, <1>4 DEF FailZero, Unchecked, SetRow
  <2> QED
    BY <2>1, <2>2, Goes DEF Zeroes
<1> QED
  BY <1>2, <1>3, <1>4 DEF failTaskDB

-----------------------------------------------------------------------------
(***************************************************************************)
(* Nothing is refused: the task is alive, and only its last attempt is      *)
(* refunded by failTaskDB.                                                 *)
(***************************************************************************)

\* At first the request has not been refused.
LEMMA InitUnhurt == Init => Unhurt
<1> SUFFICES ASSUME Init PROVE Unhurt
  OBVIOUS
<1>1. \A p \in Actor : pc[p] = IF p = "api" THEN "start" ELSE "idle"
  BY DEF Init
<1>2. pc["api"] = "start" /\ pc["cleaner"] = "idle" /\ pc["poller"] = "idle" /\ \A p \in Handler : pc[p] = "idle"
  BY <1>1, ConstantTypes
<1>3. status = "none" /\ refunded = {}
  BY DEF Init
<1> QED
  BY <1>2, <1>3 DEF Unhurt, Alive, Blames, Claims, ClaimStep, FailStep

\* A bag that a message has come to.
LEMMA JobComes ==
    ASSUME NEW B, IsABag(B), NEW m
    PROVE  B (+) One(m) # EmptyBag /\ BagToSet(B (+) One(m)) = BagToSet(B) \cup {m}
BY OneBag, MoreInBag, NoBag

\* The goroutines stay where they are, or come to a step before failTaskDB.
LEMMA BlamesKept ==
    ASSUME Blames,
           \A p \in Handler : \/ pc'[p] \notin FailStep
                              \/ /\ pc'[p] = pc[p] /\ arg'[p] = arg[p]
                                 /\ res'[p].attempt = res[p].attempt /\ res'[p].credits = res[p].credits
    PROVE  Blames'
BY DEF Blames, Claims, ClaimStep, FailStep

\* One handler takes a step.
LEMMA BlamesStep ==
    ASSUME Blames, NEW p \in Handler, Alone(p),
           pc'[p] \in FailStep /\ arg'[p].credits = 1 =>
               arg'[p].attempt = Channels /\ res'[p].attempt = Channels /\ res'[p].credits = 1,
           pc'[p] \in ClaimStep => arg'[p].credits = 1
    PROVE  Blames'
<1>1. \A q \in Handler : q # p => pc'[q] = pc[q] /\ arg'[q] = arg[q] /\ res'[q] = res[q]
  BY Handlers DEF Alone
<1>2. \A q \in Handler : pc'[q] \in FailStep /\ arg'[q].credits = 1 =>
           arg'[q].attempt = Channels /\ res'[q].attempt = Channels /\ res'[q].credits = 1
  BY <1>1 DEF Blames
<1>3. \A q \in Handler : pc'[q] \in ClaimStep => arg'[q].credits = 1
  BY <1>1 DEF Blames, Claims
<1> QED
  BY <1>2, <1>3 DEF Blames, Claims

\* Nothing of failTaskDB happens, and no refund is written.
LEMMA UnhurtKept ==
    ASSUME Unhurt, UNCHANGED refunded, pc'["cleaner"] = "idle", pc'["poller"] \in {"idle", "poll"},
           pc'["api"] \notin {"refuse", "pubFail", "pubRefund"}, pc'["api"] = "mark" => jobs' # EmptyBag,
           Alive',
           \A p \in Handler : \/ pc'[p] \notin FailStep
                              \/ /\ pc'[p] = pc[p] /\ arg'[p] = arg[p]
                                 /\ res'[p].attempt = res[p].attempt /\ res'[p].credits = res[p].credits
    PROVE  Unhurt'
<1>1. Blames'
  BY BlamesKept DEF Unhurt
<1> QED
  BY <1>1 DEF Unhurt

\* createTask succeeds.
LEMMA CreateUnhurt ==
    ASSUME Echoes, TaskTypes, InsertedFirst, Unhurt, CreateTask, budget' = budget
    PROVE  Unhurt'
<1>1. /\ UNCHANGED <<refunded, running, results, writes, upstream, res, arg>>
      /\ \E s : Goto("api", s)
  BY DEF Unhurt, CreateTask, ChargeUser, InsertTask, WriteCharge, RefuseTask, PublishTask, FailUnpublished,
         RefundUnpublished, MarkProcessing, Unchecked, SetStatus, rowVars, ledgerVars, queueVars, workerVars
<1>2. /\ \A q \in Actor : q # "api" => pc'[q] = pc[q]
      /\ pc'["cleaner"] = "idle" /\ pc'["poller"] \in {"idle", "poll"} /\ AtIt' = AtIt
  BY <1>1, Goes, ConstantTypes, Handlers DEF Unhurt, AtIt
<1>3. ASSUME Alive', pc'["api"] \notin {"refuse", "pubFail", "pubRefund"},
             pc'["api"] = "mark" => jobs' # EmptyBag
      PROVE  Unhurt'
  BY <1>1, <1>2, <1>3, UnhurtKept, Handlers
<1>4. CASE ChargeUser
  <2>1. status' = "none" /\ pc'["api"] \in {"insert", "idle"}
    BY <1>4, Goes, ConstantTypes DEF ChargeUser, InsertedFirst, rowVars
  <2> QED
    BY <1>3, <2>1 DEF Alive
<1>5. CASE InsertTask
  <2>1. pc'["api"] = "charge"
    BY <1>5, Calmly, Goes, ConstantTypes DEF Echoes, InsertTask
  <2> QED
    BY <1>3, <2>1 DEF Alive
<1>6. CASE WriteCharge
  <2>1. pc'["api"] = "publish"
    BY <1>6, Calmly, Goes, ConstantTypes DEF Echoes, WriteCharge
  <2> QED
    BY <1>3, <2>1 DEF Alive
<1>7. CASE PublishTask
  <2>1. Goto("api", "mark") /\ jobs' = jobs (+) One(NewJob(1, 0))
    BY <1>7, Published DEF PublishTask, TaskTypes
  <2>2. jobs' # EmptyBag
    BY <2>1, JobComes DEF TaskTypes, QueueTypes
  <2> QED
    BY <1>3, <2>1, <2>2, Goes, ConstantTypes DEF Alive
<1>8. CASE MarkProcessing
  <2>1. jobs' # EmptyBag /\ pc'["api"] = "idle"
    BY <1>8, Goes, ConstantTypes DEF MarkProcessing, Unhurt, queueVars
  <2> QED
    BY <1>3, <2>1 DEF Alive
<1> QED
  BY <1>4, <1>5, <1>6, <1>7, <1>8 DEF CreateTask, RefuseTask, FailUnpublished, RefundUnpublished, Unhurt

\* A handler that goes on leaves a job or stays at work,
LEMMA HandlerUnhurt ==
    ASSUME Echoes, TaskTypes, KeysSpent, Unhurt, NEW p \in Handler, HandlerStep(p), budget' = budget
    PROVE  Unhurt'
<1>1. p \in Actor /\ p # "api" /\ p # "cleaner" /\ p # "poller"
  BY Handlers
<1>2. /\ Alone(p) /\ UNCHANGED <<res, results, running, writes>>
      /\ pc'["api"] = pc["api"] /\ pc'["cleaner"] = pc["cleaner"] /\ pc'["poller"] = pc["poller"]
  BY <1>1, HandlerAlone, ConstantTypes DEF Alone, workerVars
<1>3. CASE Moves(p)
  <2>1. p \in AtIt'
    BY <1>3 DEF Moves, AtIt, ClaimStep
  <2>2. Blames'
    BY <1>2, <1>3, BlamesStep DEF Moves, Unhurt, FailStep, ClaimStep
  <2>3. \A x \in refunded' : x[1] # Channels => x[2] = "channelRetry"
    BY <1>3 DEF Moves, WriteRefund, Unhurt
  <2>4. jobs' = jobs
    BY <1>3 DEF Moves
  <2> QED
    BY <1>2, <2>1, <2>2, <2>3, <2>4 DEF Unhurt, Alive
<1>4. CASE Charges(p) \/ Updates(p) \/ Publishes(p)
  <2>1. p \in AtIt' \/ jobs' # EmptyBag
    BY <1>4, JobComes DEF Charges, Updates, Publishes, AtIt, ClaimStep, TaskTypes, QueueTypes
  <2>2. pc'[p] \notin FailStep
    BY <1>4 DEF Charges, Updates, Publishes, FailStep
  <2>3. Blames'
    BY <1>2, <2>2, BlamesStep DEF Unhurt, FailStep, ClaimStep
  <2>4. refunded' = refunded /\ (jobs' = jobs \/ jobs' # EmptyBag)
    BY <1>4, JobComes DEF Charges, Updates, Publishes, ledgerVars, TaskTypes, QueueTypes
  <2> QED
    BY <1>2, <2>1, <2>3, <2>4 DEF Unhurt, Alive
<1> QED
  BY <1>3, <1>4, HandlerDoes

\* one in failTaskDB fails the task,
LEMMA FailUnhurt ==
    ASSUME Echoes, TaskTypes, Unhurt, NEW p \in Handler, failTaskDB(p)
    PROVE  Unhurt'
<1>1. p \in Actor /\ p # "api" /\ p # "cleaner" /\ p # "poller"
  BY Handlers
<1>2. /\ Alone(p) /\ UNCHANGED <<res, arg, jobs, results, running, writes>>
      /\ pc'["api"] = pc["api"] /\ pc'["cleaner"] = pc["cleaner"] /\ pc'["poller"] = pc["poller"]
  BY <1>1, FailAlone, ConstantTypes DEF Alone, workerVars, queueVars
<1>3. GetsIn(p) \/ GoesOff(p) \/ Refunds(p) \/ Zeroes(p)
  BY <1>1, FailDoes
<1>4. Blames'
  <2>1. pc[p] \in FailStep /\ (pc[p] \in ClaimStep => arg[p].credits = 1)
    BY <1>3 DEF GetsIn, GoesOff, Refunds, Zeroes, FailStep, Unhurt, Blames, Claims
  <2>2. pc'[p] \in ClaimStep => arg[p].credits = 1
    BY <1>3, <2>1 DEF GetsIn, GoesOff, Refunds, Zeroes, ClaimStep
  <2> QED
    BY <1>2, <2>1, <2>2, BlamesStep DEF Unhurt, Blames
<1>5. \A x \in refunded' : x[1] # Channels => x[2] = "channelRetry"
  <2>1. CASE Refunds(p)
    <3>1. arg[p].attempt = Channels
      BY <2>1 DEF Refunds, Unhurt, Blames, Claims, ClaimStep, FailStep
    <3> QED
      BY <2>1, <3>1 DEF Refunds, WriteRefund, Unhurt
  <2> QED
    BY <1>3, <2>1 DEF GetsIn, GoesOff, Zeroes, ledgerVars, Unhurt
<1>6. Alive'
  <2>1. CASE GetsIn(p) \/ GoesOff(p)
    BY <2>1 DEF GetsIn, GoesOff, Alive
  <2>2. CASE Refunds(p) \/ Zeroes(p)
    <3>1. UNCHANGED <<status, upstream>> /\ p \notin AtIt /\ pc'[p] \in ClaimStep \cup {"idle"}
      BY <2>2 DEF Refunds, Zeroes, AtIt, ClaimStep, rowVars
    <3>2. AtIt' = AtIt
      BY <1>2, <3>1, Handlers DEF AtIt, Alone
    <3> QED
      BY <1>2, <3>1, <3>2 DEF Alive, Unhurt
  <2> QED
    BY <1>3, <2>1, <2>2
<1> QED
  BY <1>2, <1>4, <1>5, <1>6 DEF Unhurt

\* and one that takes a result is at work.
LEMMA TakeUnhurt ==
    ASSUME TaskTypes, Unhurt, NEW p \in Handler, TakeResult(p)
    PROVE  Unhurt'
<1>1. PICK r \in BagToSet(results) :
        IF r.outcome \in {"done", "async"}
        THEN writes' = Append(writes, r) /\ UNCHANGED procVars
        ELSE /\ res' = [res EXCEPT ![p] = r]
             /\ Goto(p, CASE r.outcome = "rate_limited"   -> "rotate"
                          [] r.outcome = "pool_key_retry" -> "skip"
                          [] OTHER                        -> "failed")
             /\ UNCHANGED <<arg, asked, writes>>
  BY DEF TakeResult
<1>2. refunded' = refunded /\ jobs' = jobs
  BY DEF TakeResult, ledgerVars
<1>3. CASE r.outcome \in {"done", "async"}
  <2>1. writes' # <<>>
    <3>1. writes \in Seq(Result) /\ r \in Result
      BY DEF TaskTypes, ServerTypes, QueueTypes
    <3> QED
      BY <1>1, <1>3, <3>1
  <2> QED
    BY <1>1, <1>2, <1>3, <2>1, UnhurtKept DEF procVars, Unhurt, Alive
<1>4. CASE r.outcome \notin {"done", "async"}
  <2>1. /\ \A q \in Actor : q # p => pc'[q] = pc[q] /\ res'[q] = res[q] /\ arg'[q] = arg[q]
        /\ pc'[p] \in {"rotate", "skip", "failed"}
    BY <1>1, <1>4, Goes, Handlers DEF TaskTypes, ProcTypes
  <2>2. p \in AtIt' /\ pc'[p] \notin FailStep
    BY <2>1 DEF AtIt, ClaimStep, FailStep
  <2>3. pc'["api"] = pc["api"] /\ pc'["cleaner"] = pc["cleaner"] /\ pc'["poller"] = pc["poller"]
    BY <2>1, ConstantTypes, Handlers
  <2> QED
    BY <1>2, <2>1, <2>2, <2>3, UnhurtKept, Handlers DEF Unhurt, Alive
<1> QED
  BY <1>3, <1>4

\* A result is written, a batch at a time.
LEMMA Flushes ==
    ASSUME Echoes, TaskTypes, FlushBatch
    PROVE  \E n \in 1..Len(writes) :
             /\ writes' = SubSeq(writes, n + 1, Len(writes)) /\ UNCHANGED <<attempt, credits>>
             /\ \/ /\ status' = "processing"
                   /\ \E i \in 1..n : writes[i].outcome = "async" /\ upstream' = writes[i].attempt
                \/ status' = "done" /\ UNCHANGED upstream
<1>1. PICK n \in 1..Len(writes) :
        LET batch == {writes[i] : i \in 1..n} IN
        \E lost \in SUBSET {m.outcome : m \in batch} :
        LET asyncs == {m \in batch : m.outcome = "async" /\ "async" \notin lost} IN
        /\ lost # {} => "db" \in Env /\ Cardinality(lost) <= budget
        /\ writes' = SubSeq(writes, n + 1, Len(writes))
        /\ \/ /\ asyncs # {}
              /\ SetRow("processing", attempt, credits)
              /\ \E m \in asyncs : upstream' = m.attempt
           \/ /\ asyncs = {} /\ \E m \in batch : m.outcome = "done" /\ "done" \notin lost
              /\ SetStatus("done")
           \/ /\ {m.outcome : m \in batch} = lost
              /\ UNCHANGED rowVars
  BY DEF FlushBatch
<1> DEFINE batch == {writes[i] : i \in 1..n}
<1>2. PICK lost \in SUBSET {m.outcome : m \in batch} :
        /\ lost # {} => "db" \in Env
        /\ writes' = SubSeq(writes, n + 1, Len(writes))
        /\ \/ /\ SetRow("processing", attempt, credits)
              /\ \E m \in batch : m.outcome = "async" /\ upstream' = m.attempt
           \/ SetStatus("done")
           \/ {m.outcome : m \in batch} = lost
  BY <1>1
<1>3. lost = {}
  BY <1>2, Calmly DEF Echoes
<1>4. 1 \in 1..n
  BY DEF TaskTypes, ServerTypes
<1>5. {m.outcome : m \in batch} # {}
  BY <1>4
<1>6. CASE SetStatus("done")
  BY <1>2, <1>6 DEF SetStatus
<1>7. CASE /\ SetRow("processing", attempt, credits)
           /\ \E m \in batch : m.outcome = "async" /\ upstream' = m.attempt
  <2>1. PICK i \in 1..n : writes[i].outcome = "async" /\ upstream' = writes[i].attempt
    BY <1>7
  <2> QED
    BY <1>2, <1>7, <2>1 DEF SetRow
<1> QED
  BY <1>2, <1>3, <1>5, <1>6, <1>7

\* What is written ends the task or names its upstream.
LEMMA FlushUnhurt ==
    ASSUME Echoes, TaskTypes, Unhurt, FlushBatch
    PROVE  Unhurt'
<1>1. PICK n \in 1..Len(writes) :
        \/ /\ status' = "processing"
           /\ \E i \in 1..n : writes[i].outcome = "async" /\ upstream' = writes[i].attempt
        \/ status' = "done" /\ UNCHANGED upstream
  BY Flushes
<1>2. \A i \in 1..n : writes[i].attempt # 0
  <2>1. writes \in Seq(Result) /\ n \in 1..Len(writes)
    BY DEF TaskTypes, ServerTypes
  <2>2. \A i \in 1..n : writes[i] \in Result
    BY <2>1
  <2> QED
    BY <2>2 DEF Result, Attempt
<1>3. status' = "done" \/ (status' = "processing" /\ upstream' # 0)
  BY <1>1, <1>2
<1> QED
  BY <1>3, UnhurtKept DEF FlushBatch, Unhurt, Alive, procVars, ledgerVars, queueVars

\* The poller publishes what it finds.
LEMMA PollUnhurt ==
    ASSUME Echoes, TaskTypes, Unhurt, PollOne, budget' = budget
    PROVE  Unhurt'
<1>1. /\ UNCHANGED <<res, jobs, running, writes, upstream, refunded>>
  BY DEF PollOne, PollAged, PollNothing, PollDone, PollFailed, Unchecked, SetStatus, rowVars, ledgerVars,
         queueVars, workerVars
<1>2. /\ Goto("poller", "idle") /\ UNCHANGED arg
      /\ status' = status \/ status' = "done"
      /\ results' = results \/ \E text : results' = results (+) One(FailedResult(res["poller"], text))
  <2>1. ASSUME NEW text, PublishFailedResult(text)
        PROVE  Goto("poller", "idle") /\ UNCHANGED arg /\ results' = results (+) One(FailedResult(res["poller"], text))
    BY <2>1, Published DEF PublishFailedResult, TaskTypes
  <2>2. CASE PollAged \/ PollFailed
    BY <2>1, <2>2 DEF PollAged, PollFailed, rowVars
  <2>3. CASE PollNothing \/ PollDone
    BY <2>3, Calmly DEF Echoes, PollNothing, PollDone, Unchecked, SetStatus, rowVars, queueVars
  <2> QED
    BY <2>2, <2>3 DEF PollOne
<1>3. pc'["poller"] = "idle" /\ \A q \in Actor : q # "poller" => pc'[q] = pc[q]
  BY <1>2, Goes, ConstantTypes
<1>4. AtIt' = AtIt /\ (results # EmptyBag => results' # EmptyBag)
  BY <1>2, <1>3, Handlers, JobComes DEF AtIt, TaskTypes, QueueTypes
<1> QED
  BY <1>1, <1>2, <1>3, <1>4, UnhurtKept, Handlers, ConstantTypes DEF Unhurt, Alive

\* Every step without a fault keeps the task unhurt.
LEMMA UnhurtSteps ==
    ASSUME Echoes, TaskTypes, InsertedFirst, KeysSpent, Unhurt, [Next]_vars, ~ComesAgain, budget' = budget
    PROVE  Unhurt'
<1>1. ASSUME NEW p \in Handler, handleResult(p) PROVE Unhurt'
  BY <1>1, TakeUnhurt, HandlerUnhurt, FailUnhurt DEF handleResult, HandlerStep
<1>2. ASSUME NEW p \in {"poller", "cleaner"} PROVE ~failTaskDB(p)
  BY DEF Unhurt, failTaskDB, FailTask, FailRefund, FailZero
<1>3. CASE UpstreamEnds \/ GrowOld \/ UNCHANGED vars
  <2>1. UNCHANGED <<status, upstream, refunded, jobs, running, results, writes, pc, res, arg>>
    BY <1>3 DEF UpstreamEnds, GrowOld, vars, rowVars, ledgerVars, queueVars, procVars, workerVars
  <2> QED
    BY <2>1, UnhurtKept DEF Unhurt, Alive, AtIt
<1>4. CASE TakeJob
  <2>1. PICK j \in BagToSet(jobs) : running' = running (+) One(j)
    BY <1>4 DEF TakeJob
  <2>2. running' # EmptyBag /\ pc["api"] = "idle"
    BY <1>4, <2>1, JobComes, Calmly DEF TakeJob, TaskTypes, WorkerTypes, Echoes
  <2> QED
    BY <1>4, <2>2, UnhurtKept DEF TakeJob, Unhurt, Alive, procVars, ledgerVars
<1>5. CASE FinishJob
  <2>1. PICK m : results' = results (+) One(m)
    BY <1>5, Published DEF FinishJob, TaskTypes
  <2>2. results' # EmptyBag
    BY <2>1, JobComes DEF TaskTypes, QueueTypes
  <2> QED
    BY <1>5, <2>2, UnhurtKept DEF FinishJob, Unhurt, Alive, procVars, ledgerVars
<1>6. CASE CleanStaleTask
  <2>1. Quiet /\ (status = "pending" \/ (status = "processing" /\ upstream = 0))
    BY <1>6, Calmly DEF CleanStaleTask, Echoes
  <2> QED
    BY <2>1 DEF Quiet, ServerQuiet, Unhurt, Alive, AtIt
<1>7. CASE PollTask
  <2>1. pc'["poller"] = "poll" /\ \A q \in Actor : q # "poller" => pc'[q] = pc[q] /\ res'[q] = res[q]
    BY <1>7, Goes, ConstantTypes DEF PollTask, ReadRow, TaskTypes, ProcTypes
  <2>2. UNCHANGED <<status, upstream, refunded, jobs, running, results, writes, arg>> /\ upstream # 0
        /\ status = "processing"
    BY <1>7 DEF PollTask, rowVars, ledgerVars, queueVars, workerVars
  <2> QED
    BY <2>1, <2>2, UnhurtKept, Handlers, ConstantTypes DEF Unhurt, Alive
<1>8. ~WorkerDies /\ ~ServerDies
  BY Calmly DEF Echoes, WorkerDies, ServerDies
<1> QED
  BY <1>1, <1>2, <1>3, <1>4, <1>5, <1>6, <1>7, <1>8, CreateUnhurt, FlushUnhurt, PollUnhurt DEF Next, ComesAgain

-----------------------------------------------------------------------------
(***************************************************************************)
(* While the task is in one stage an attempt is refunded before any other   *)
(* refund of it.                                                           *)
(***************************************************************************)

\* The steps that refund.
LEMMA RefundSteps ==
    ASSUME [Next]_vars
    PROVE  \/ UNCHANGED refunded \/ RefundUnpublished
           \/ \E p \in Handler : RetryRefund(p)
           \/ \E p \in Handler \cup {"poller", "cleaner"} : FailRefund(p)
<1>1. CASE CreateTask
  BY <1>1 DEF CreateTask, ChargeUser, InsertTask, WriteCharge, RefuseTask, PublishTask, FailUnpublished,
              MarkProcessing, ledgerVars
<1>2. ASSUME NEW p \in Handler \cup {"poller", "cleaner"}, failTaskDB(p)
      PROVE  UNCHANGED refunded \/ FailRefund(p)
  BY <1>2 DEF failTaskDB, FailTask, FailZero, ledgerVars
<1>3. ASSUME NEW p \in Handler, handleResult(p)
      PROVE  UNCHANGED refunded \/ RetryRefund(p) \/ failTaskDB(p)
  BY <1>3 DEF handleResult, TakeResult, RotateKey, SkipKey, Republish, FailedResultArrives, RetryZero, RetryCharge,
              RetryWrite, RetryUpdate, RetryPublish, ledgerVars
<1>4. CASE TakeJob \/ FinishJob \/ RedeliverJob \/ WorkerDies \/ RedeliverResult \/ FlushBatch
           \/ CleanStaleTask \/ PollTask \/ UpstreamEnds \/ GrowOld \/ ServerDies \/ UNCHANGED vars
  BY <1>4 DEF TakeJob, FinishJob, RedeliverJob, WorkerDies, RedeliverResult, FlushBatch, CleanStaleTask, PollTask,
              UpstreamEnds, GrowOld, ServerDies, vars, ledgerVars
<1>5. CASE PollOne
  BY <1>5 DEF PollOne, PollAged, PollNothing, PollDone, PollFailed, ledgerVars
<1> QED
  BY <1>1, <1>2, <1>3, <1>4, <1>5 DEF Next

\* Without a refund nothing changes.
LEMMA RefundedKept ==
    ASSUME RefundedOnceEach, LedgerGrows, UNCHANGED refunded
    PROVE  RefundedOnceEach'
BY DEF RefundedOnceEach, LedgerGrows

\* The first refund of an attempt.
LEMMA FirstRefund ==
    ASSUME LedgerTypes, RefundedOnceEach, LedgerGrows, NEW a \in charged, ~Back(a), NEW reason,
           WriteRefund(a, reason)
    PROVE  RefundedOnceEach'
<1>1. \A x \in refunded : x[1] # a
  <2> SUFFICES ASSUME NEW x \in refunded, x[1] = a PROVE FALSE
    OBVIOUS
  <2>1. x[2] \in Reason /\ x = <<a, x[2]>>
    BY DEF LedgerTypes
  <2> QED
    BY <2>1 DEF Back, RefundsOf
<1>2. refunded' = refunded \cup {<<a, reason>>}
  BY DEF WriteRefund
<1> QED
  BY <1>1, <1>2 DEF RefundedOnceEach, LedgerGrows

\* An attempt that is open has been charged and not refunded.
LEMMA OpenIsCharged ==
    ASSUME NEW a \in Attempt, Open(a)
    PROVE  a \in charged /\ ~Back(a)
BY ConstantTypes DEF Open, Attempt

\* A task in one stage refunds what is open.
LEMMA StageRefunds ==
    ASSUME Calm, TaskTypes, ActorsTell, OneStage, RefundedOnceEach, [Next]_vars
    PROVE  RefundedOnceEach'
<1>1. LedgerGrows /\ LedgerTypes
  BY LedgerStep, OnlyGrows DEF TaskTypes
<1>2. CASE RefundUnpublished
  <2>1. Open(1)
    BY <1>2, WhoWorks DEF RefundUnpublished, Creating, Marking
  <2>2. WriteRefund(1, "publishError")
    BY <1>2, Calmly DEF RefundUnpublished
  <2> QED
    BY <1>1, <2>1, <2>2, OpenIsCharged, FirstRefund, ConstantTypes
<1>3. ASSUME NEW p \in Handler, RetryRefund(p) PROVE RefundedOnceEach'
  <2>1. pc[p] = "retryRefund" /\ WriteRefund(res[p].attempt, "channelRetry")
    BY <1>3, Calmly DEF RetryRefund
  <2>2. Open(res[p].attempt)
    BY <2>1, WhoWorks DEF FailStep, Handling, Paying
  <2>3. res[p].attempt \in Attempt
    BY HeldType, Handlers DEF TaskTypes
  <2> QED
    BY <1>1, <2>1, <2>2, <2>3, OpenIsCharged, FirstRefund
<1>4. ASSUME NEW p \in Handler \cup {"poller", "cleaner"}, FailRefund(p) PROVE RefundedOnceEach'
  <2>1. pc[p] = "failRefund" /\ WriteRefund(arg[p].attempt, arg[p].text)
    BY <1>4, Calmly DEF FailRefund
  <2>2. Open(arg[p].attempt)
    BY <2>1, WhoWorks DEF FailStep, Failing
  <2>3. arg[p].attempt \in Attempt
    BY HeldType, ConstantTypes DEF TaskTypes
  <2> QED
    BY <1>1, <2>1, <2>2, <2>3, OpenIsCharged, FirstRefund
<1> QED
  BY <1>1, <1>2, <1>3, <1>4, RefundSteps, RefundedKept

-----------------------------------------------------------------------------
(***************************************************************************)
(* A message comes twice.                                                  *)
(***************************************************************************)

\* A bag of one message.
LEMMA SizeOne == ASSUME NEW m PROVE IsFiniteSet(DOMAIN One(m)) /\ Size(One(m)) = 1
<1>1. IsFiniteSet(DOMAIN (EmptyBag (+) One(m))) /\ Size(EmptyBag (+) One(m)) = Size(EmptyBag) + 1
  BY SizeNone, SizeMore, NoBag
<1> QED
  BY <1>1, OneComes, SizeNone

\* The copy, and what is left of the delivery.
LEMMA OneAgain ==
    ASSUME NEW m, m.left > 0
    PROVE  Again(m) = One([m EXCEPT !.left = @ - 1])
BY DEF Again

\* A job comes twice: its worker goes on.
LEMMA JobAgain ==
    ASSUME Calm, TaskTypes, OneStage, RedeliverJob
    PROVE  Echoed'
<1>1. PICK j \in BagToSet(running) :
        /\ j.left > 0
        /\ jobs' = jobs (+) Again(j)
        /\ running' = (running (-) One(j)) (+) One([j EXCEPT !.left = 0])
  BY DEF RedeliverJob
<1>2. AtWork /\ jobs = EmptyBag
  BY <1>1, NoBag, WhatIsThere
<1>3. PICK i \in BagToSet(running) : running = One(i) /\ i.attempt = attempt
  BY <1>1, <1>2, NoBag DEF AtWork
<1>4. i = j
  BY <1>1, <1>3, OneBag
<1> DEFINE b == [j EXCEPT !.left = @ - 1]
           c == [j EXCEPT !.left = 0]
<1>5. jobs' = One(b) /\ running' = One(c)
  BY <1>1, <1>2, <1>3, <1>4, OneAgain, OneComes, OneGoes
<1> HIDE DEF b, c
<1>6. /\ results' = EmptyBag /\ writes' = <<>> /\ upstream' = 0 /\ \A p \in Actor : pc'[p] = "idle"
      /\ UNCHANGED <<attempt, charged, refunded>> /\ status' = "processing"
  BY <1>2 DEF RedeliverJob, AtWork, Resting, Paying, rowVars, ledgerVars, procVars
<1>7. AtIt' = {} /\ \A p \in Handler : ~Claims(p)' /\ ~Promotes(p)'
  BY <1>6, Handlers DEF AtIt, Claims, Promotes, ClaimStep
<1>8. ~Back(Channels)' /\ (Channels \in charged => attempt = Channels)
  <2>1. Open(attempt) /\ attempt \in Attempt /\ Channels \in Attempt
    BY <1>2, ConstantTypes DEF AtWork, Paying, TaskTypes, RowTypes, Attempt
  <2> QED
    BY <1>6, <2>1, ConstantTypes DEF Open, Attempt, Back, RefundsOf
<1>9. ~Claimed' /\ ~PollDue'
  BY <1>6, <1>7, <1>8, ConstantTypes DEF Claimed, PollDue, Claims
<1>10. Counted'
  <2>1. Size(jobs') = 1 /\ Size(running') = 1 /\ Size(results') = 0 /\ Len(writes') = 0 /\ Cardinality(AtIt') = 0
    BY <1>5, <1>6, <1>7, SizeOne, SizeNone, FS_EmptySet
  <2>2. IsFiniteSet(DOMAIN jobs') /\ IsFiniteSet(DOMAIN running') /\ IsFiniteSet(DOMAIN results')
    BY <1>5, <1>6, SizeOne, SizeNone
  <2> QED
    BY <1>9, <2>1, <2>2 DEF Counted, Weight, Flag
<1> QED
  BY <1>6, <1>7, <1>8, <1>9, <1>10, ConstantTypes
     DEF Echoed, Created, RowLast, OneClaim, ClaimsSettled, OnePromotion

\* What a handler has done of a task that has not failed.
LEMMA HeldStage ==
    ASSUME TaskTypes, NEW p \in Handler, Handling(p) \/ (Failing(p) /\ pc[p] = "fail")
    PROVE  /\ ~Back(Channels) /\ status = "processing" /\ (upstream = 0 \/ Polled)
           /\ Channels \in charged => attempt = Channels \/ pc[p] = "retryUpdate"
           /\ Promotes(p) => upstream = 0 /\ Open(res[p].attempt + 1)
<1> DEFINE a == res[p].attempt
<1>1. /\ a \in Attempt /\ arg[p].attempt \in Attempt
      /\ pc[p] \in NextStep => a < Channels
      /\ Channels \in Attempt /\ Attempt = 1..Channels /\ Channels \in Nat
  BY HeldType, Handlers, ConstantTypes DEF TaskTypes, ProcTypes, Fits, Attempt
<1>2. ASSUME NEW b \in Attempt, Open(b) PROVE ~Back(Channels) /\ (Channels \in charged => b = Channels)
  BY <1>1, <1>2 DEF Open
<1>3. ASSUME NEW b \in Attempt, b < Channels, Shut(b) PROVE ~Back(Channels) /\ Channels \notin charged
  BY <1>1, <1>3 DEF Shut
<1>4. CASE Handling(p) /\ pc[p] \in {"failed", "rotate", "skip", "republish", "retryRefund"}
  <2>1. Paying(a) /\ (upstream = 0 \/ Polled)
    BY <1>4 DEF Handling
  <2> QED
    BY <1>1, <1>2, <1>4, <2>1 DEF Paying, Promotes
<1>5. CASE Handling(p) /\ pc[p] \in {"retryZero", "retryCharge", "retryWrite"}
  <2>1. Shut(a) /\ upstream = 0 /\ status = "processing" /\ a < Channels
    BY <1>1, <1>5 DEF Handling, NextStep, RetryStep
  <2> QED
    BY <1>1, <1>3, <1>5, <2>1 DEF Promotes
<1>6. CASE Handling(p) /\ pc[p] \in {"retryUpdate", "retryPublish"}
  <2>1. /\ Open(a + 1) /\ upstream = 0 /\ status = "processing" /\ a < Channels
        /\ pc[p] = "retryPublish" => attempt = a + 1
    BY <1>1, <1>6 DEF Handling, Paying, NextStep, RetryStep
  <2>2. a + 1 \in Attempt
    BY <1>1, <2>1
  <2> QED
    BY <1>2, <1>6, <2>1, <2>2
<1>7. CASE Failing(p) /\ pc[p] = "fail"
  <2>1. /\ status = "processing" /\ (upstream = 0 \/ Polled) /\ (Channels \in charged => attempt = Channels)
        /\ Open(arg[p].attempt) \/ (Shut(arg[p].attempt) /\ arg[p].attempt < Channels)
    BY <1>7 DEF Failing
  <2> QED
    BY <1>1, <1>2, <1>3, <1>7, <2>1 DEF Promotes
<1>8. Handling(p) => pc[p] \in {"failed", "rotate", "skip", "republish", "retryRefund", "retryZero", "retryCharge",
                                "retryWrite", "retryUpdate", "retryPublish"}
  BY DEF Handling
<1> QED
  BY <1>4, <1>5, <1>6, <1>7, <1>8

\* A result comes twice while a handler works on it.
LEMMA HeldAgain ==
    ASSUME Calm, TaskTypes, OneStage, Unhurt, RedeliverResult, NEW p \in Handler,
           pc[p] # "idle", res[p].left > 0, results' = results (+) Again(res[p]),
           res' = [res EXCEPT ![p].left = 0], UNCHANGED writes
    PROVE  Echoed'
<1> DEFINE b == [res[p] EXCEPT !.left = @ - 1]
<1>1. /\ p \in Actor /\ p # "api" /\ p # "poller" /\ pc[p] \in ProcessStep
      /\ res[p].attempt \in Attempt /\ Channels \in Attempt /\ Attempt = 1..Channels /\ Channels \in Nat
  BY HeldType, Handlers, ConstantTypes DEF TaskTypes, ProcTypes, Attempt
<1>2. /\ UNCHANGED <<status, attempt, credits, upstream, charged, refunded, jobs, running, pc, arg>>
      /\ res'[p].attempt = res[p].attempt /\ b.attempt = res[p].attempt
  <2>1. res[p] \in Result /\ res \in [Actor -> Result]
    BY <1>1 DEF TaskTypes, ProcTypes
  <2> QED
    BY <1>1, <2>1 DEF RedeliverResult, Result, rowVars, ledgerVars, workerVars
<1>3. Only(p) /\ NoMessage /\ (Handling(p) \/ Failing(p))
  BY WhoWorks DEF Handling, Failing
<1>4. results' = One(b)
  BY <1>3, OneAgain, OneComes DEF NoMessage
<1> HIDE DEF b
<1>5. /\ jobs' = EmptyBag /\ running' = EmptyBag /\ writes' = <<>>
      /\ BagToSet(results') = {b} /\ results' # EmptyBag
      /\ \A q \in Actor : q # p => pc'[q] = "idle"
  BY <1>2, <1>3, <1>4, OneBag, NoBag DEF NoMessage, Only
<1>6. ~PollDue' /\ pc'["api"] = "idle" /\ pc'["poller"] = "idle"
  BY <1>1, <1>5, ConstantTypes DEF PollDue
<1>7. \A q \in Handler : (Claims(q)' => q = p) /\ (Promotes(q)' => q = p)
  BY <1>5, Handlers DEF Claims, Promotes, ClaimStep
<1>8. /\ Size(jobs') = 0 /\ Size(running') = 0 /\ Size(results') = 1 /\ Len(writes') = 0
      /\ IsFiniteSet(DOMAIN jobs') /\ IsFiniteSet(DOMAIN running') /\ IsFiniteSet(DOMAIN results')
  BY <1>4, <1>5, SizeOne, SizeNone
<1>9. CASE pc[p] \in ClaimStep
  <2>1. /\ Failing(p) /\ status = "failed" /\ (upstream = 0 \/ Polled)
        /\ (Channels \in charged => attempt = Channels)
        /\ pc[p] = "failRefund" => Open(arg[p].attempt)
    BY <1>3, <1>9 DEF Failing, Handling, ClaimStep
  <2>2. arg[p].attempt = Channels
    BY <1>9 DEF Unhurt, Blames, Claims, ClaimStep, FailStep
  <2>3. pc[p] = "failRefund" => ~Back(Channels)
    BY <1>1, <2>1, <2>2, OpenIsCharged
  <2>4. AtIt' = {} /\ Claims(p)' /\ ~Promotes(p)'
    BY <1>2, <1>5, <1>9, Handlers DEF AtIt, Claims, Promotes, ClaimStep
  <2>5. Counted'
    BY <1>6, <1>8, <2>4, FS_EmptySet DEF Counted, Weight, Flag
  <2>6. OneClaim'
    BY <1>2, <1>5, <1>7, <2>3, Handlers DEF OneClaim, Back, RefundsOf
  <2>7. RowLast'
    BY <1>2, <1>6, <2>1 DEF RowLast, Polled
  <2>8. ClaimsSettled'
    BY <1>2, <2>1, <2>4 DEF ClaimsSettled
  <2>9. OnePromotion'
    BY <1>7, <2>4 DEF OnePromotion
  <2> QED
    BY <1>2, <1>6, <2>1, <2>5, <2>6, <2>7, <2>8, <2>9 DEF Echoed, Created
<1>10. CASE pc[p] \notin ClaimStep
  <2>1. /\ ~Back(Channels) /\ status = "processing" /\ (upstream = 0 \/ Polled)
        /\ Channels \in charged => attempt = Channels \/ pc[p] = "retryUpdate"
        /\ Promotes(p) => upstream = 0 /\ Open(res[p].attempt + 1)
    <3>1. Failing(p) => pc[p] = "fail"
      BY <1>10 DEF Failing, ClaimStep
    <3> QED
      BY <1>3, <3>1, HeldStage
  <2>2. AtIt' = {p} /\ \A q \in Handler : ~Claims(q)'
    BY <1>2, <1>5, <1>7, <1>10, Handlers DEF AtIt, Claims, ClaimStep
  <2>3. ~Claimed'
    BY <1>2, <2>1, <2>2 DEF Claimed, Claims, Back, RefundsOf
  <2>4. Counted'
    <3>1. Cardinality(AtIt') = 1
      BY <2>2, FS_Singleton
    <3> QED
      BY <1>6, <1>8, <2>3, <3>1 DEF Counted, Weight, Flag
  <2>5. OneClaim' /\ ClaimsSettled'
    BY <2>2, <2>3, <1>2, <2>1 DEF OneClaim, ClaimsSettled, Claims, ClaimStep, Back, RefundsOf
  <2>6. RowLast'
    BY <1>2, <1>6, <2>1 DEF RowLast, Polled
  <2>7. OnePromotion'
    <3>1. ASSUME Promotes(p)', NEW CONSTANT n \in Attempt, n = res'[p].attempt + 1
          PROVE  Newest(n)'
      <4>1. Promotes(p) /\ n = res[p].attempt + 1 /\ Open(n)
        BY <1>2, <2>1, <3>1 DEF Promotes
      <4>2. n + 1 \notin charged' /\ ~Back(n)'
        <5>1. n \in Nat /\ charged = 1..n /\ ~Back(n)
          BY <1>1, <4>1 DEF Open
        <5>2. Back(n)' <=> Back(n)
          BY <1>2 DEF Back, RefundsOf
        <5>3. n + 1 \notin charged
          BY <5>1
        <5> QED
          BY <1>2, <5>1, <5>2, <5>3
      <4>3. res[p].attempt # n
        BY <1>1, <4>1
      <4>4. ~About(n)'
        BY <1>2, <1>5, <4>3, NoBag, Handlers DEF About
      <4> QED
        BY <4>2, <4>4 DEF Newest
    <3>2. Promotes(p)' => upstream' = 0
      BY <1>2, <2>1 DEF Promotes
    <3> QED
      BY <1>7, <3>1, <3>2 DEF OnePromotion
  <2> QED
    BY <1>2, <1>6, <2>1, <2>4, <2>5, <2>6, <2>7 DEF Echoed, Created
<1> QED
  BY <1>9, <1>10

\* Two messages are left, and nobody else.
LEMMA CountedThen ==
    ASSUME IsFiniteSet(DOMAIN jobs'), IsFiniteSet(DOMAIN running'), IsFiniteSet(DOMAIN results'),
           Size(jobs') = 0, Size(running') = 0, Size(results') = 1, Len(writes') = 1, Cardinality(AtIt') = 0,
           ~PollDue', ~Claimed'
    PROVE  Counted'
BY DEF Counted, Weight, Flag

\* A result comes twice while it waits for the batch writer.
LEMMA WriteAgain ==
    ASSUME Calm, TaskTypes, OneStage, RedeliverResult, NEW i \in DOMAIN writes,
           writes[i].left > 0, results' = results (+) Again(writes[i]),
           writes' = [writes EXCEPT ![i].left = 0], UNCHANGED res
    PROVE  Echoed'
<1> DEFINE b == [writes[i] EXCEPT !.left = @ - 1]
<1>1. writes \in Seq(Result) /\ writes # <<>>
  <2>1. writes \in Seq(Result)
    BY DEF TaskTypes, ServerTypes
  <2> QED
    BY <2>1
<1>2. Reported /\ results = EmptyBag /\ Len(writes) = 1 /\ Reports(writes[1])
  <2>1. Reported /\ results = EmptyBag
    BY <1>1, WhatIsThere
  <2> QED
    BY <1>1, <2>1 DEF Reported
<1>3. results' = One(b) /\ Len(writes') = 1
  BY <1>1, <1>2, OneAgain, OneComes
<1> HIDE DEF b
<1>4. /\ jobs' = EmptyBag /\ running' = EmptyBag /\ results' # EmptyBag
      /\ \A p \in Actor : pc'[p] = "idle"
      /\ UNCHANGED <<attempt, charged, refunded, upstream>> /\ status' = "processing"
      /\ upstream = 0 \/ Polled
  BY <1>2, <1>3, OneBag, NoBag
     DEF RedeliverResult, Reported, Reports, Resting, Paying, rowVars, ledgerVars, workerVars
<1>5. AtIt' = {} /\ \A p \in Handler : ~Claims(p)' /\ ~Promotes(p)'
  BY <1>4, Handlers DEF AtIt, Claims, Promotes, ClaimStep
<1>6. ~Back(Channels)' /\ (Channels \in charged => attempt = Channels)
  <2>1. Open(attempt) /\ attempt \in Attempt /\ Channels \in Attempt
    BY <1>2, ConstantTypes DEF Reported, Paying, TaskTypes, RowTypes, Attempt
  <2> QED
    BY <1>4, <2>1, ConstantTypes DEF Open, Attempt, Back, RefundsOf
<1>7. ~Claimed' /\ ~PollDue'
  BY <1>4, <1>5, <1>6, ConstantTypes DEF Claimed, PollDue, Claims
<1>8. Counted'
  <2>1. Size(jobs') = 0 /\ Size(running') = 0 /\ Size(results') = 1 /\ Cardinality(AtIt') = 0
    BY <1>3, <1>4, <1>5, SizeOne, SizeNone, FS_EmptySet
  <2>2. IsFiniteSet(DOMAIN jobs') /\ IsFiniteSet(DOMAIN running') /\ IsFiniteSet(DOMAIN results')
    BY <1>3, <1>4, SizeOne, SizeNone
  <2> QED
    BY <1>3, <1>7, <2>1, <2>2, CountedThen
<1> QED
  BY <1>4, <1>5, <1>6, <1>7, <1>8, ConstantTypes
     DEF Echoed, Created, RowLast, OneClaim, ClaimsSettled, OnePromotion, Polled

\* Whatever comes twice, there are two who may go on.
LEMMA ComesAgainEchoes ==
    ASSUME Calm, TaskTypes, OneStage, Unhurt, ComesAgain
    PROVE  Echoed'
<1>1. CASE RedeliverResult
  <2>1. CASE \E p \in Handler :
          /\ pc[p] # "idle" /\ res[p].left > 0
          /\ results' = results (+) Again(res[p])
          /\ res' = [res EXCEPT ![p].left = 0]
          /\ UNCHANGED writes
    BY <1>1, <2>1, HeldAgain
  <2>2. CASE \E i \in DOMAIN writes :
          /\ writes[i].left > 0
          /\ results' = results (+) Again(writes[i])
          /\ writes' = [writes EXCEPT ![i].left = 0]
          /\ UNCHANGED res
    BY <1>1, <2>2, WriteAgain
  <2> QED
    BY <1>1, <2>1, <2>2 DEF RedeliverResult
<1> QED
  BY <1>1, JobAgain DEF ComesAgain

\* Whatever comes twice, the rest is as it was.
LEMMA AgainUnhurt ==
    ASSUME TaskTypes, Unhurt, ComesAgain
    PROVE  Unhurt'
<1>1. UNCHANGED <<status, upstream, refunded, pc, arg>>
  BY DEF ComesAgain, RedeliverJob, RedeliverResult, rowVars, ledgerVars, procVars
<1>2. CASE RedeliverJob
  <2>1. PICK j \in BagToSet(running) :
          jobs' = jobs (+) Again(j) /\ running' = (running (-) One(j)) (+) One([j EXCEPT !.left = 0])
    BY <1>2 DEF RedeliverJob
  <2>2. IsABag(running (-) One(j)) /\ IsABag(jobs) /\ IsABag(Again(j))
    BY OneBag, LessInBag, AgainBag DEF TaskTypes, QueueTypes, WorkerTypes
  <2>3. running' # EmptyBag
    BY <2>1, <2>2, JobComes
  <2>4. jobs # EmptyBag => jobs' # EmptyBag
    BY <2>1, <2>2, MoreInBag, BagEmpty, NoBag
  <2> QED
    BY <1>1, <1>2, <2>3, <2>4, UnhurtKept DEF RedeliverJob, Unhurt, Alive, AtIt, procVars
<1>3. CASE RedeliverResult
  <2>1. results # EmptyBag => results' # EmptyBag
    <3>1. PICK m : results' = results (+) Again(m)
      BY <1>3 DEF RedeliverResult
    <3>2. IsABag(results) /\ IsABag(Again(m))
      BY AgainBag DEF TaskTypes, QueueTypes
    <3> QED
      BY <3>1, <3>2, MoreInBag, BagEmpty, NoBag
  <2>2. writes # <<>> => writes' # <<>>
    <3>1. writes' = writes \/ \E i \in DOMAIN writes : writes' = [writes EXCEPT ![i].left = 0]
      BY <1>3 DEF RedeliverResult
    <3>2. writes \in Seq(Result)
      BY DEF TaskTypes, ServerTypes
    <3> QED
      BY <3>1, <3>2
  <2>3. \A p \in Handler : res'[p].attempt = res[p].attempt /\ res'[p].credits = res[p].credits
    <3>1. res' = res \/ \E p \in Handler : res' = [res EXCEPT ![p].left = 0]
      BY <1>3 DEF RedeliverResult
    <3>2. res \in [Actor -> Result]
      BY DEF TaskTypes, ProcTypes
    <3> QED
      BY <3>1, <3>2, Handlers DEF Result
  <2> QED
    BY <1>1, <1>3, <2>1, <2>2, <2>3, UnhurtKept DEF RedeliverResult, Unhurt, Alive, AtIt, workerVars
<1> QED
  BY <1>2, <1>3 DEF ComesAgain

-----------------------------------------------------------------------------
(***************************************************************************)
(* What the steps of a task with an echo start from and keep.              *)
(***************************************************************************)

Under ==
    /\ Echoes /\ TaskTypes /\ TaskTypes' /\ GivenBackFirst /\ GivenBackFirst' /\ LedgerGrows
    /\ KeysSpent /\ RefundedOnceEach /\ Unhurt /\ Echoed

\* The numbers that are counted.
LEMMA Numbers ==
    ASSUME TaskTypes, Counted
    PROVE  /\ Size(jobs) \in Nat /\ Size(running) \in Nat /\ Size(results) \in Nat
           /\ Len(writes) \in Nat /\ Cardinality(AtIt) \in Nat
           /\ \A j \in BagToSet(jobs) : Size(jobs) >= 1
           /\ \A j \in BagToSet(running) : Size(running) >= 1
           /\ \A m \in BagToSet(results) : Size(results) >= 1
           /\ \A p \in AtIt : Cardinality(AtIt) >= 1
           /\ Flag(PollDue) \in {0, 1} /\ Flag(Claimed) \in {0, 1}
           /\ Weight \in Nat /\ Weight + Flag(PollDue) + Flag(Claimed) <= 2
<1>1. Len(writes) \in Nat
  BY DEF TaskTypes, ServerTypes
<1>2. /\ Size(jobs) \in Nat /\ Size(running) \in Nat /\ Size(results) \in Nat
      /\ \A j \in BagToSet(jobs) : Size(jobs) >= 1
      /\ \A j \in BagToSet(running) : Size(running) >= 1
      /\ \A m \in BagToSet(results) : Size(results) >= 1
  BY SizeType DEF TaskTypes, QueueTypes, WorkerTypes, Counted
<1> QED
  BY <1>1, <1>2, HandlersAtIt DEF Counted, Weight, Flag

\* Whoever is at work knows of an attempt that was charged.
LEMMA AboutCharged ==
    ASSUME TaskTypes, GivenBackFirst, NEW n, About(n)
    PROVE  n \in charged
<1>1. ASSUME NEW q \in Handler, pc[q] # "idle" PROVE res[q].attempt \in charged
  <2>1. pc[q] \in ProcessStep
    BY <1>1, Handlers DEF TaskTypes, ProcTypes
  <2> QED
    BY <2>1, Handlers DEF GivenBackFirst, ActorsTell, Tells, Told
<1> QED
  BY <1>1 DEF About, GivenBackFirst, MessagesTell, Told

\* The attempt a handler promotes the task to is the newest; nobody is at work on
\* the last attempt, and it has no refund.
LEMMA PromotedTo ==
    ASSUME TaskTypes, GivenBackFirst, Unhurt, OnePromotion, NEW p, Promotes(p)
    PROVE  /\ res[p].attempt \in Nat /\ res[p].attempt < Channels /\ res[p].attempt + 1 \in charged
           /\ \A a \in charged : a <= res[p].attempt + 1
           /\ ~About(Channels) /\ ~About(res[p].attempt + 1) /\ ~Claimed /\ upstream = 0
           /\ \A q \in Handler : Promotes(q) => q = p
<1>1. p \in Handler /\ pc[p] \in RetryStep /\ pc[p] \in ProcessStep /\ pc[p] \in NextStep
  BY DEF Promotes, RetryStep, ProcessStep, NextStep
<1>2. res[p].attempt \in Attempt /\ res[p].attempt < Channels
  BY <1>1, Handlers, HeldType DEF TaskTypes, ProcTypes, Fits
<1>3. PICK n \in Attempt : n = res[p].attempt + 1
  BY <1>2, ConstantTypes DEF Attempt
<1>4. n \in charged /\ n + 1 \notin charged /\ ~About(n) /\ ~Back(n)
  <2>1. Tells(p)
    BY <1>1, Handlers DEF GivenBackFirst, ActorsTell
  <2> QED
    BY <1>1, <1>3, <2>1 DEF OnePromotion, Newest, Tells, Promotes
<1>5. charged \subseteq Attempt /\ Attempt = 1..Channels /\ Channels \in Nat /\ n \in Nat
  BY ConstantTypes DEF TaskTypes, LedgerTypes, Attempt
<1>6. ASSUME NEW a \in charged PROVE a <= n
  <2>1. CASE n + 1 < a
    <3>1. n + 1 \in Attempt
      BY <1>5, <2>1
    <3> QED
      BY <1>4, <2>1, <3>1 DEF GivenBackFirst, ChargedInOrder
  <2> QED
    BY <1>4, <1>5, <2>1
<1>7. Channels \in charged => n = Channels
  BY <1>5, <1>6
<1>8. ~About(Channels)
  BY <1>4, <1>7, AboutCharged
<1>9. ASSUME NEW q \in Handler, Claims(q) PROVE FALSE
  BY <1>8, <1>9 DEF Unhurt, Blames, Claims, ClaimStep, FailStep, About
<1>10. ~Back(Channels)
  <2>1. Channels \in Attempt /\ Channels # 1
    BY <1>2, <1>5
  <2> QED
    BY <1>4, <1>7, <2>1 DEF GivenBackFirst, ChargedInOrder, Known
<1>11. upstream = 0 /\ \A q \in Handler : Promotes(q) => q = p
  BY <1>1 DEF OnePromotion
<1>12. ~Claimed
  BY <1>9, <1>10 DEF Claimed
<1>13. res[p].attempt + 1 \in charged /\ ~About(res[p].attempt + 1)
  BY <1>3, <1>4
<1>14. \A a \in charged : a <= res[p].attempt + 1
  BY <1>3, <1>6
<1>15. res[p].attempt \in Nat /\ res[p].attempt < Channels
  BY <1>2, <1>5
<1> QED
  BY <1>8, <1>11, <1>12, <1>13, <1>14, <1>15

\* The parts of the invariant that a step keeps: the count goes down,
LEMMA CountedKept ==
    ASSUME TaskTypes, Counted, IsFiniteSet(DOMAIN jobs'), IsFiniteSet(DOMAIN running'), IsFiniteSet(DOMAIN results'),
           Weight' + Flag(PollDue') + Flag(Claimed') <= Weight + Flag(PollDue) + Flag(Claimed),
           Weight' \in Nat
    PROVE  Counted'
<1>1. Weight + Flag(PollDue) + Flag(Claimed) <= 2 /\ Weight \in Nat
  BY Numbers
<1>2. Flag(PollDue') \in {0, 1} /\ Flag(Claimed') \in {0, 1} /\ Flag(PollDue) \in {0, 1} /\ Flag(Claimed) \in {0, 1}
  BY DEF Flag
<1>3. Weight' + Flag(PollDue') + Flag(Claimed') <= 2
  BY <1>1, <1>2
<1> QED
  BY <1>3 DEF Counted, Flag

\* the row stays,
LEMMA LastKept ==
    ASSUME RowLast, UNCHANGED <<charged, attempt, upstream>>,
           pc'["poller"] = "poll" => pc["poller"] = "poll" /\ res'["poller"].attempt = res["poller"].attempt,
           \A p \in Handler : pc[p] = "retryUpdate" => pc'[p] = "retryUpdate"
    PROVE  RowLast'
BY DEF RowLast

\* nobody gets in to refund the last attempt,
LEMMA ClaimKept ==
    ASSUME OneClaim, Back(Channels)' => Back(Channels),
           \A p \in Handler : Claims(p)' => Claims(p) /\ (pc'[p] = "failRefund" => pc[p] = "failRefund")
    PROVE  OneClaim'
BY DEF OneClaim, Claims, ClaimStep

\* what was refunded stays settled,
LEMMA SettledKept ==
    ASSUME ClaimsSettled, Claimed' => Claimed, status' \in {status, "failed"}, NoClaimant => NoClaimant',
           credits' \in {credits, 0},
           (\E p \in Handler : Claims(p)) => credits' = 0 \/ (\E p \in Handler : Claims(p))'
    PROVE  ClaimsSettled'
BY DEF ClaimsSettled

\* nobody promotes the task,
LEMMA PromotionKept ==
    ASSUME OnePromotion, UNCHANGED <<charged, upstream>>,
           \A n : About(n)' => About(n), \A n : Back(n)' => Back(n) \/ About(n),
           \A p \in Handler : Promotes(p)' => Promotes(p) /\ res'[p].attempt = res[p].attempt
    PROVE  OnePromotion'
<1>1. ASSUME NEW CONSTANT p \in Handler, NEW CONSTANT n \in Attempt, Promotes(p)', n = res'[p].attempt + 1
      PROVE  Newest(n)'
  <2>1. Newest(n)
    BY <1>1 DEF OnePromotion
  <2> QED
    BY <2>1 DEF Newest
<1>2. ASSUME NEW CONSTANT p \in Handler, Promotes(p)'
      PROVE  upstream' = 0 /\ \A q \in Handler : Promotes(q)' => q = p
  BY <1>2 DEF OnePromotion
<1> QED
  BY <1>1, <1>2 DEF OnePromotion

\* no message comes.
LEMMA AboutKept ==
    ASSUME UNCHANGED <<jobs, running, results, writes>>,
           \A q \in Handler : pc'[q] # "idle" => pc[q] # "idle" /\ res'[q].attempt = res[q].attempt
    PROVE  \A n : About(n)' => About(n)
<1>1. ASSUME NEW CONSTANT n PROVE About(n)' => About(n)
  BY DEF About
<1> QED
  BY <1>1

\* A message comes that is of an attempt somebody knew of, or none.
LEMMA AboutLess ==
    ASSUME \A j \in BagToSet(jobs') \cup BagToSet(running') : About(j.attempt),
           \A m \in BagToSet(results') : About(m.attempt),
           \A i \in DOMAIN writes' : About(writes'[i].attempt),
           \A q \in Handler : pc'[q] # "idle" => About(res'[q].attempt)
    PROVE  \A n : About(n)' => About(n)
<1>1. ASSUME NEW CONSTANT n, About(n)' PROVE About(n)
  <2>1. CASE \E j \in BagToSet(jobs') \cup BagToSet(running') : j.attempt = n
    BY <2>1
  <2>2. CASE \E m \in BagToSet(results') : m.attempt = n
    BY <2>2
  <2>3. CASE \E i \in DOMAIN writes' : writes'[i].attempt = n
    BY <2>3
  <2>4. CASE \E q \in Handler : pc'[q] # "idle" /\ res'[q].attempt = n
    BY <2>4
  <2> QED
    BY <1>1, <2>1, <2>2, <2>3, <2>4 DEF About
<1> QED
  BY <1>1

\* The refunds stay.
LEMMA SameBack ==
    ASSUME UNCHANGED refunded
    PROVE  \A n : Back(n)' <=> Back(n)
<1>1. ASSUME NEW CONSTANT n PROVE Back(n)' <=> Back(n)
  BY DEF Back, RefundsOf
<1> QED
  BY <1>1

-----------------------------------------------------------------------------
(***************************************************************************)
(* The steps of a task of which a message has come twice.                  *)
(***************************************************************************)

\* A handler at work knows of its attempt, which was charged.
LEMMA Working ==
    ASSUME TaskTypes, GivenBackFirst, NEW p \in Handler, pc[p] # "idle"
    PROVE  /\ pc[p] \in ProcessStep /\ Tells(p) /\ Told(res[p])
           /\ res[p].attempt \in Attempt /\ res[p].attempt \in charged /\ About(res[p].attempt)
           /\ Attempt = 1..Channels /\ Channels \in Attempt /\ Channels \in Nat
<1>1. pc[p] \in ProcessStep /\ p # "cleaner"
  BY Handlers DEF TaskTypes, ProcTypes
<1>2. Tells(p) /\ Told(res[p])
  BY <1>1, Handlers DEF GivenBackFirst, ActorsTell, Tells
<1> QED
  BY <1>1, <1>2, HeldType, Handlers, ConstantTypes DEF Told, About, TaskTypes, Attempt

\* Nothing but the time or the upstream moves.
LEMMA SameEchoed ==
    ASSUME Echoed, UNCHANGED <<rowVars, ledgerVars, queueVars, running, pc, res, arg, writes>>
    PROVE  Echoed'
<1>1. Counted' /\ Created' /\ RowLast'
  BY DEF Echoed, Counted, Created, RowLast, Weight, AtIt, PollDue, Claimed, Claims, Back, RefundsOf,
         rowVars, ledgerVars, queueVars
<1>2. OneClaim' /\ ClaimsSettled'
  BY DEF Echoed, OneClaim, ClaimsSettled, NoClaimant, AtIt, Claimed, Claims, Back, RefundsOf, Harmless,
         rowVars, ledgerVars, queueVars
<1>3. OnePromotion'
  <2>1. \A n : About(n)' => About(n)
    BY AboutKept DEF queueVars
  <2>2. \A n : Back(n)' => Back(n)
    BY SameBack DEF ledgerVars
  <2> QED
    BY <2>1, <2>2, PromotionKept DEF Echoed, Promotes, rowVars, ledgerVars
<1> QED
  BY <1>1, <1>2, <1>3 DEF Echoed

\* A handler goes on without a charge or a job.
LEMMA MovesEchoed ==
    ASSUME Under, NEW p \in Handler, Alone(p), UNCHANGED <<res, results, workerVars, writes>>, Moves(p)
    PROVE  Echoed' /\ RefundedOnceEach'
<1>1. /\ UNCHANGED <<status, attempt, upstream, charged, jobs, results, running, writes, res>>
      /\ credits' \in {credits, 0}
      /\ pc'["api"] = pc["api"] /\ pc'["poller"] = pc["poller"]
      /\ \A q \in Handler : q # p => pc'[q] = pc[q] /\ arg'[q] = arg[q]
  BY Handlers, ConstantTypes DEF Moves, Alone, workerVars
<1>2. pc[p] # "idle" /\ pc'[p] # "idle" /\ AtIt' = AtIt
  BY <1>1 DEF Moves, AtIt, ClaimStep
<1>3. \A q \in Handler : /\ Claims(q)' <=> Claims(q)
                         /\ Promotes(q)' <=> Promotes(q)
                         /\ pc'[q] = "failRefund" => pc[q] = "failRefund"
                         /\ pc[q] = "retryUpdate" => pc'[q] = "retryUpdate"
  BY <1>1 DEF Moves, Claims, Promotes, ClaimStep
<1>4. /\ res[p].attempt \in charged /\ About(res[p].attempt) /\ Channels \in Nat
      /\ res[p].attempt \in Nat
  BY <1>2, Working DEF Under, Attempt
<1>5. \A n : Back(n)' => Back(n) \/ (n = res[p].attempt /\ n < Channels)
  <2>1. CASE UNCHANGED refunded
    BY <2>1, SameBack
  <2>2. CASE res[p].attempt < Channels /\ WriteRefund(res[p].attempt, "channelRetry")
    <3>1. ASSUME NEW CONSTANT n, Back(n)' PROVE Back(n) \/ n = res[p].attempt
      BY <2>2, <3>1 DEF WriteRefund, Back, RefundsOf
    <3> QED
      BY <2>2, <3>1
  <2> QED
    BY <2>1, <2>2 DEF Moves
<1>6. Back(Channels)' <=> Back(Channels)
  BY <1>4, <1>5, StaysBack DEF Under
<1>7. (Claimed' <=> Claimed) /\ (PollDue' <=> PollDue)
  BY <1>1, <1>2, <1>3, <1>6 DEF Claimed, PollDue
<1>8. Counted'
  <2>1. Weight' = Weight /\ Flag(PollDue') = Flag(PollDue) /\ Flag(Claimed') = Flag(Claimed)
    BY <1>1, <1>2, <1>7 DEF Weight, Flag
  <2> QED
    BY <1>1, <2>1 DEF Under, Echoed, Counted
<1>9. Created' /\ RowLast'
  BY <1>1, <1>3, LastKept DEF Under, Echoed, Created
<1>10. OneClaim'
  BY <1>3, <1>6, ClaimKept DEF Under, Echoed
<1>11. ClaimsSettled'
  <2>1. NoClaimant => NoClaimant'
    BY <1>1, <1>2 DEF NoClaimant, Harmless
  <2> QED
    BY <1>1, <1>3, <1>7, <2>1, SettledKept DEF Under, Echoed
<1>12. OnePromotion'
  <2>1. \A q \in Handler : pc'[q] # "idle" => pc[q] # "idle" /\ res'[q].attempt = res[q].attempt
    BY <1>1, <1>2
  <2>2. \A n : About(n)' => About(n)
    BY <1>1, <2>1, AboutKept
  <2> QED
    BY <1>1, <1>3, <1>4, <1>5, <2>2, PromotionKept DEF Under, Echoed
<1>13. RefundedOnceEach'
  <2>1. CASE UNCHANGED refunded
    BY <2>1, RefundedKept DEF Under
  <2>2. CASE res[p].attempt < Channels /\ WriteRefund(res[p].attempt, "channelRetry")
    <3> DEFINE a == res[p].attempt
    <3>1. refunded' = refunded \cup {<<a, "channelRetry">>} /\ a # Channels /\ a \in charged'
      BY <1>1, <1>4, <2>2 DEF WriteRefund
    <3> HIDE DEF a
    <3>2. \A x \in refunded : x[1] = a => x[2] = "channelRetry"
      BY <3>1 DEF Under, Unhurt
    <3>3. \A x \in refunded : x = <<x[1], x[2]>>
      BY DEF Under, TaskTypes, LedgerTypes
    <3> QED
      BY <1>1, <3>1, <3>2, <3>3 DEF Under, RefundedOnceEach
  <2> QED
    BY <2>1, <2>2 DEF Moves
<1> QED
  BY <1>8, <1>9, <1>10, <1>11, <1>12, <1>13 DEF Echoed

\* A handler charges the next attempt, of which nobody knew.
LEMMA ChargesEchoed ==
    ASSUME Under, NEW p \in Handler, Alone(p), UNCHANGED <<res, arg, results, workerVars, writes>>, Charges(p)
    PROVE  Echoed' /\ RefundedOnceEach'
<1>0. PICK a \in Attempt, n \in Attempt : a = res[p].attempt /\ n = a + 1 /\ a < Channels
  <2>1. res[p].attempt \in Attempt /\ res[p].attempt < Channels /\ Attempt = 1..Channels /\ Channels \in Nat
    BY Handlers, HeldType, ConstantTypes DEF Charges, Under, TaskTypes, ProcTypes, Fits, NextStep, RetryStep, Attempt
  <2> QED
    BY <2>1
<1>1. /\ UNCHANGED <<status, attempt, credits, upstream, refunded, jobs, results, running, writes, res>>
      /\ pc'["api"] = pc["api"] /\ pc'["poller"] = pc["poller"] /\ charged' = charged \cup {n} /\ n \notin charged
      /\ pc[p] = "retryWrite" /\ pc'[p] = "retryUpdate"
      /\ \A q \in Handler : q # p => pc'[q] = pc[q]
  BY <1>0, Handlers, ConstantTypes DEF Charges, Alone, workerVars, rowVars
<1>2. /\ a \in charged /\ About(a) /\ a \in Nat /\ n \in Attempt /\ a < Channels /\ Attempt = 1..Channels
      /\ Channels \in Attempt /\ Channels \in Nat /\ n # 1
  <2>1. /\ a \in charged /\ About(a) /\ a \in Attempt /\ Attempt = 1..Channels
        /\ Channels \in Attempt /\ Channels \in Nat
    BY <1>0, <1>1, Working DEF Under
  <2> QED
    BY <1>0, <2>1
<1>3. AtIt' = AtIt
  BY <1>1 DEF AtIt, ClaimStep
<1>4. \A q \in Handler : /\ Claims(q)' <=> Claims(q)
                         /\ Promotes(q)' => q = p \/ Promotes(q)
                         /\ pc'[q] = "failRefund" => pc[q] = "failRefund"
  BY <1>1 DEF Claims, Promotes, ClaimStep
<1>5. \A b : Back(b)' <=> Back(b)
  BY <1>1, SameBack
<1>6. (Claimed' <=> Claimed) /\ (PollDue' <=> PollDue)
  BY <1>1, <1>3, <1>4, <1>5 DEF Claimed, PollDue
<1>7. Counted'
  <2>1. Weight' = Weight /\ Flag(PollDue') = Flag(PollDue) /\ Flag(Claimed') = Flag(Claimed)
    BY <1>1, <1>3, <1>6 DEF Weight, Flag
  <2> QED
    BY <1>1, <2>1 DEF Under, Echoed, Counted
<1>8. Created' /\ RowLast'
  BY <1>1 DEF Under, Echoed, Created, RowLast
<1>9. OneClaim'
  BY <1>4, <1>5, ClaimKept DEF Under, Echoed
<1>10. ClaimsSettled'
  <2>1. NoClaimant => NoClaimant'
    BY <1>1, <1>3 DEF NoClaimant, Harmless
  <2> QED
    BY <1>1, <1>4, <1>6, <2>1, SettledKept DEF Under, Echoed
<1>11. ASSUME NEW b \in charged PROVE b <= a
  <2>1. CASE n < b
    BY <1>1, <1>2, <1>11, <2>1 DEF Under, GivenBackFirst, ChargedInOrder
  <2>2. CASE b = n
    BY <1>1, <1>11, <2>2
  <2>3. b \in Nat
    BY <1>2, <1>11 DEF Under, TaskTypes, LedgerTypes
  <2> QED
    BY <1>0, <1>2, <2>1, <2>2, <2>3
<1>12. ASSUME NEW q \in Handler, Promotes(q) PROVE FALSE
  <2> DEFINE b == res[q].attempt
  <2>1. b \in Nat /\ b + 1 \in charged /\ ~About(b + 1) /\ \A c \in charged : c <= b + 1
    BY <1>12, PromotedTo DEF Under, Echoed
  <2> HIDE DEF b
  <2>2. b + 1 <= a /\ a <= b + 1
    BY <1>2, <1>11, <2>1
  <2>3. a = b + 1
    BY <1>2, <2>1, <2>2
  <2> QED
    BY <1>2, <2>1, <2>3
<1>13. Newest(n)' /\ upstream' = 0
  <2>1. n + 1 \notin charged'
    <3>1. n + 1 \notin charged /\ n + 1 # n
      BY <1>0, <1>2, <1>11
    <3> QED
      BY <1>1, <3>1
  <2>2. ~About(n)'
    <3>1. ~About(n)
      BY <1>1, AboutCharged DEF Under
    <3>2. \A b : About(b)' => About(b)
      BY <1>1, AboutKept
    <3> QED
      BY <3>1, <3>2
  <2>3. ~Back(n)'
    BY <1>1, <1>2, <1>5 DEF Under, GivenBackFirst, ChargedInOrder, Known
  <2>4. upstream = 0
    <3>1. Channels \notin charged
      BY <1>2, <1>11
    <3> QED
      BY <3>1 DEF Under, GivenBackFirst, RowTells, Echoes, Calm
  <2> QED
    BY <1>1, <2>1, <2>2, <2>3, <2>4 DEF Newest
<1>14. OnePromotion'
  <2>1. \A q \in Handler : Promotes(q)' => q = p
    BY <1>4, <1>12
  <2>2. res'[p].attempt + 1 = n
    BY <1>0, <1>1
  <2>3. ASSUME NEW CONSTANT q \in Handler, NEW CONSTANT m \in Attempt, Promotes(q)', m = res'[q].attempt + 1
        PROVE  Newest(m)'
    <3>1. m = n
      BY <2>1, <2>2, <2>3
    <3> QED
      BY <3>1, <1>13 DEF Newest, About, Back, RefundsOf
  <2> QED
    BY <1>13, <2>1, <2>3 DEF OnePromotion
<1>15. RefundedOnceEach'
  BY <1>1, RefundedKept DEF Under
<1> QED
  BY <1>7, <1>8, <1>9, <1>10, <1>14, <1>15 DEF Echoed

\* A handler moves the row to the next attempt.
LEMMA UpdatesEchoed ==
    ASSUME Under, NEW p \in Handler, Alone(p), UNCHANGED <<res, arg, results, workerVars, writes>>, Updates(p)
    PROVE  Echoed' /\ RefundedOnceEach'
<1> DEFINE n == res[p].attempt + 1
<1>1. /\ UNCHANGED <<upstream, charged, refunded, jobs, results, running, writes, res>>
      /\ pc'["api"] = pc["api"] /\ pc'["poller"] = pc["poller"]
      /\ status' = "processing" /\ attempt' = n
      /\ pc[p] = "retryUpdate" /\ pc'[p] = "retryPublish"
      /\ \A q \in Handler : q # p => pc'[q] = pc[q]
  BY Handlers, ConstantTypes DEF Updates, Alone, workerVars, ledgerVars
<1>2. /\ n \in Nat /\ n <= Channels /\ ~Claimed /\ upstream = 0 /\ Channels \in Nat
      /\ \A a \in charged : a <= n
  <2>1. Promotes(p) /\ Channels \in Nat
    BY <1>1, ConstantTypes DEF Promotes
  <2> QED
    BY <2>1, PromotedTo DEF Under, Echoed
<1> HIDE DEF n
<1>3. AtIt' = AtIt
  BY <1>1 DEF AtIt, ClaimStep
<1>4. \A q \in Handler : /\ Claims(q)' <=> Claims(q)
                         /\ Promotes(q)' <=> Promotes(q)
  BY <1>1 DEF Claims, Promotes, ClaimStep
<1>5. \A b : Back(b)' <=> Back(b)
  BY <1>1, SameBack
<1>6. ~Claimed'
  BY <1>2, <1>4, <1>5 DEF Claimed
<1>7. pc["poller"] # "poll"
  BY <1>2 DEF Under, Echoed, RowLast
<1>8. ~PollDue'
  BY <1>1, <1>2, <1>7 DEF PollDue
<1>9. Counted'
  <2>1. Weight' = Weight /\ Flag(PollDue') = 0 /\ Flag(Claimed') = 0
    BY <1>1, <1>3, <1>6, <1>8 DEF Weight, Flag
  <2>2. Weight \in Nat /\ Flag(PollDue) \in {0, 1} /\ Flag(Claimed) \in {0, 1}
        /\ Weight + Flag(PollDue) + Flag(Claimed) <= 2
    BY Numbers DEF Under, Echoed
  <2> QED
    BY <1>1, <2>1, <2>2, CountedKept DEF Under, Echoed, Counted
<1>10. Created' /\ RowLast'
  <2>1. Channels \in charged => n = Channels
    BY <1>2
  <2> QED
    BY <1>1, <1>2, <1>7, <2>1 DEF Under, Echoed, Created, RowLast
<1>11. OneClaim' /\ ClaimsSettled'
  BY <1>6 DEF OneClaim, ClaimsSettled, Claimed, Claims, ClaimStep
<1>12. OnePromotion'
  <2>1. \A b : About(b)' => About(b)
    BY <1>1, AboutKept
  <2> QED
    BY <1>1, <1>4, <1>5, <2>1, PromotionKept DEF Under, Echoed
<1>13. RefundedOnceEach'
  BY <1>1, RefundedKept DEF Under
<1> QED
  BY <1>9, <1>10, <1>11, <1>12, <1>13 DEF Echoed

\* A handler publishes the job of the next attempt and is done.
LEMMA PublishesEchoed ==
    ASSUME Under, NEW p \in Handler, Alone(p), UNCHANGED <<res, arg, results, workerVars, writes>>, Publishes(p)
    PROVE  Echoed' /\ RefundedOnceEach'
<1>1. /\ UNCHANGED <<status, attempt, credits, upstream, charged, refunded, results, running, writes, res>>
      /\ pc'["api"] = pc["api"] /\ pc'["poller"] = pc["poller"]
      /\ pc[p] = "retryPublish" /\ pc'[p] = "idle"
      /\ \A q \in Handler : q # p => pc'[q] = pc[q]
      /\ \E m : jobs' = jobs (+) One(m)
  BY Handlers, ConstantTypes DEF Publishes, Alone, workerVars, ledgerVars, rowVars
<1>2. Promotes(p) /\ ~Claimed /\ upstream = 0 /\ \A q \in Handler : Promotes(q) => q = p
  <2>1. Promotes(p)
    BY <1>1 DEF Promotes
  <2> QED
    BY <2>1, PromotedTo DEF Under, Echoed
<1>3. p \in AtIt /\ AtIt' = AtIt \ {p}
  BY <1>1 DEF AtIt, ClaimStep
<1>4. \A q \in Handler : (Claims(q)' <=> Claims(q)) /\ ~Promotes(q)'
  BY <1>1, <1>2 DEF Claims, Promotes, ClaimStep
<1>5. \A b : Back(b)' <=> Back(b)
  BY <1>1, SameBack
<1>6. ~Claimed'
  BY <1>2, <1>4, <1>5 DEF Claimed
<1>7. pc["poller"] # "poll"
  BY <1>2 DEF Under, Echoed, RowLast
<1>8. ~PollDue'
  BY <1>1, <1>2, <1>7 DEF PollDue
<1>9. Counted'
  <2>1. IsFiniteSet(DOMAIN jobs') /\ Size(jobs') = Size(jobs) + 1
    BY <1>1, SizeMore DEF Under, Echoed, Counted, TaskTypes, QueueTypes
  <2>2. Cardinality(AtIt)' = Cardinality(AtIt) - 1
    BY <1>3, HandlerLeaves
  <2>3. Size(running') = Size(running) /\ Size(results') = Size(results) /\ Len(writes') = Len(writes)
    BY <1>1
  <2>4. Weight' = Weight
    <3>1. /\ Size(jobs) \in Nat /\ Size(running) \in Nat /\ Size(results) \in Nat
          /\ Len(writes) \in Nat /\ Cardinality(AtIt) \in Nat
      BY Numbers DEF Under, Echoed
    <3>2. Weight' = Size(jobs') + Size(running') + Size(results') + Len(writes') + Cardinality(AtIt)'
      BY DEF Weight
    <3> QED
      BY <2>1, <2>2, <2>3, <3>1, <3>2 DEF Weight
  <2>5. Flag(PollDue') = 0 /\ Flag(Claimed') = 0
    BY <1>6, <1>8 DEF Flag
  <2>6. Weight \in Nat /\ Flag(PollDue) \in {0, 1} /\ Flag(Claimed) \in {0, 1}
        /\ Weight + Flag(PollDue) + Flag(Claimed) <= 2
    BY Numbers DEF Under, Echoed
  <2> QED
    BY <1>1, <2>1, <2>4, <2>5, <2>6, CountedKept DEF Under, Echoed, Counted
<1>10. Created' /\ RowLast'
  BY <1>1, LastKept DEF Under, Echoed, Created
<1>11. OneClaim' /\ ClaimsSettled'
  BY <1>6 DEF OneClaim, ClaimsSettled, Claimed, Claims, ClaimStep
<1>12. OnePromotion'
  BY <1>4 DEF OnePromotion
<1>13. RefundedOnceEach'
  BY <1>1, RefundedKept DEF Under
<1> QED
  BY <1>9, <1>10, <1>11, <1>12, <1>13 DEF Echoed

\* failTaskDB of a handler lets nobody in twice,
LEMMA EntersEchoed ==
    ASSUME Under, NEW p \in Handler, Alone(p), UNCHANGED <<res, arg, queueVars, workerVars, writes>>,
           GetsIn(p) \/ GoesOff(p)
    PROVE  Echoed' /\ RefundedOnceEach'
<1>1. /\ UNCHANGED <<attempt, credits, upstream, charged, refunded, jobs, results, running, writes, res, arg>>
      /\ pc'["api"] = pc["api"] /\ pc'["poller"] = pc["poller"]
      /\ pc[p] = "fail" /\ status' = "failed"
      /\ pc'[p] = "failRefund" \/ pc'[p] = "idle"
      /\ \A q \in Handler : q # p => pc'[q] = pc[q]
  BY Handlers, ConstantTypes DEF GetsIn, GoesOff, Alone, workerVars, queueVars, ledgerVars
<1>2. p \in AtIt /\ AtIt' = AtIt \ {p} /\ Cardinality(AtIt)' = Cardinality(AtIt) - 1
  <2>1. p \in AtIt /\ AtIt' = AtIt \ {p}
    BY <1>1 DEF AtIt, ClaimStep
  <2> QED
    BY <2>1, HandlerLeaves
<1>3. \A b : Back(b)' <=> Back(b)
  BY <1>1, SameBack
<1>4. \A q \in Handler : /\ Promotes(q)' => Promotes(q)
                         /\ Claims(q) => Claims(q)'
                         /\ q # p => (Claims(q)' <=> Claims(q)) /\ pc'[q] = pc[q]
  BY <1>1 DEF Claims, Promotes, ClaimStep
<1>5. ~PollDue' \/ PollDue
  BY <1>1 DEF PollDue
<1>6. pc'[p] = "failRefund" => ~Claimed
  <2>1. SUFFICES ASSUME pc'[p] = "failRefund", Claimed PROVE FALSE
    OBVIOUS
  <2>2. GetsIn(p)
    BY <2>1 DEF GoesOff
  <2>3. status # "failed" /\ res[p].attempt = Channels /\ res[p].credits = 1
    BY <2>2 DEF GetsIn, Under, Unhurt, Blames, FailStep
  <2> QED
    BY <1>2, <2>1, <2>3 DEF Under, Echoed, ClaimsSettled, NoClaimant, Harmless
<1>7. pc'[p] = "idle" => (Claimed' <=> Claimed)
  <2>1. pc'[p] = "idle" => ~Claims(p)' /\ ~Claims(p)
    BY <1>1 DEF Claims, ClaimStep
  <2> QED
    BY <1>3, <1>4, <2>1 DEF Claimed
<1>8. Counted'
  <2>1. Weight' = Weight - 1
    BY <1>1, <1>2, Numbers DEF Under, Echoed, Weight
  <2>2. Weight \in Nat /\ Weight >= 1
    BY <1>2, Numbers DEF Under, Echoed, Weight
  <2>3. Flag(PollDue') <= Flag(PollDue) /\ Flag(Claimed') <= Flag(Claimed) + 1
    BY <1>1, <1>5, <1>6, <1>7 DEF Flag
  <2>4. /\ Flag(PollDue') \in {0, 1} /\ Flag(PollDue) \in {0, 1}
        /\ Flag(Claimed') \in {0, 1} /\ Flag(Claimed) \in {0, 1}
    BY DEF Flag
  <2>5. Weight' + Flag(PollDue') + Flag(Claimed') <= Weight + Flag(PollDue) + Flag(Claimed) /\ Weight' \in Nat
    BY <2>1, <2>2, <2>3, <2>4
  <2> QED
    BY <1>1, <2>5, CountedKept DEF Under, Echoed, Counted
<1>9. Created' /\ RowLast'
  BY <1>1, LastKept DEF Under, Echoed, Created
<1>10. OneClaim'
  <2>1. CASE pc'[p] = "idle"
    BY <1>1, <1>3, <1>4, <2>1, ClaimKept DEF Under, Echoed, Claims, ClaimStep
  <2>2. CASE pc'[p] = "failRefund"
    BY <1>1, <1>3, <1>4, <1>6, <2>2 DEF OneClaim, Claimed, Claims, ClaimStep
  <2> QED
    BY <1>1, <2>1, <2>2
<1>11. ClaimsSettled'
  <2>1. pc'[p] = "failRefund" => Claims(p)'
    BY DEF Claims, ClaimStep
  <2> QED
    BY <1>1, <1>4, <1>7, <2>1 DEF Under, Echoed, ClaimsSettled
<1>12. OnePromotion'
  <2>1. \A b : About(b)' => About(b)
    BY <1>1, AboutKept
  <2> QED
    BY <1>1, <1>3, <1>4, <2>1, PromotionKept DEF Under, Echoed
<1>13. RefundedOnceEach'
  BY <1>1, RefundedKept DEF Under
<1> QED
  BY <1>8, <1>9, <1>10, <1>11, <1>12, <1>13 DEF Echoed

\* and refunds the last attempt once.
LEMMA RefundsEchoed ==
    ASSUME Under, NEW p \in Handler, Alone(p), UNCHANGED <<res, arg, queueVars, workerVars, writes>>, Refunds(p)
    PROVE  Echoed' /\ RefundedOnceEach'
<1>1. /\ UNCHANGED <<status, attempt, credits, upstream, charged, jobs, results, running, writes, res, arg>>
      /\ pc'["api"] = pc["api"] /\ pc'["poller"] = pc["poller"]
      /\ pc[p] = "failRefund" /\ pc'[p] = "failZero"
      /\ \A q \in Handler : q # p => pc'[q] = pc[q]
  BY Handlers, ConstantTypes DEF Refunds, Alone, workerVars, queueVars, rowVars
<1>2. Claims(p) /\ Claims(p)' /\ AtIt' = AtIt
  BY <1>1 DEF Claims, ClaimStep, AtIt
<1>3. arg[p].attempt = Channels /\ Channels \in charged /\ ~Back(Channels)
  <2>1. arg[p].attempt = Channels /\ res[p].attempt = Channels
    BY <1>1, <1>2 DEF Under, Unhurt, Blames, Claims, ClaimStep, FailStep
  <2>2. Channels \in charged
    BY <1>1, <2>1, Working DEF Under
  <2> QED
    BY <1>1, <2>1, <2>2 DEF Under, Echoed, OneClaim
<1>4. \A q \in Handler : (Promotes(q)' <=> Promotes(q)) /\ (Claims(q)' <=> Claims(q)) /\ pc'[q] # "failRefund"
  <2>1. \A q \in Handler : Claims(q) => q = p
    BY <1>2 DEF Under, Echoed, OneClaim
  <2> QED
    BY <1>1, <1>2, <2>1 DEF Claims, Promotes, ClaimStep
<1>5. Claimed /\ Claimed' /\ (PollDue' <=> PollDue)
  BY <1>1, <1>2 DEF Claimed, PollDue
<1>6. Counted'
  <2>1. Weight' = Weight /\ Flag(PollDue') = Flag(PollDue) /\ Flag(Claimed') = Flag(Claimed)
    BY <1>1, <1>2, <1>5 DEF Weight, Flag
  <2> QED
    BY <1>1, <2>1 DEF Under, Echoed, Counted
<1>7. Created' /\ RowLast'
  BY <1>1, LastKept DEF Under, Echoed, Created
<1>8. OneClaim'
  BY <1>4 DEF Under, Echoed, OneClaim
<1>9. ClaimsSettled'
  <2>1. NoClaimant => NoClaimant'
    BY <1>1, <1>2 DEF NoClaimant, Harmless
  <2> QED
    BY <1>1, <1>2, <1>5, <2>1, SettledKept DEF Under, Echoed
<1>10. OnePromotion'
  <2>1. \A q \in Handler : ~Promotes(q)
    BY <1>5, PromotedTo DEF Under, Echoed
  <2> QED
    BY <1>4, <2>1 DEF OnePromotion
<1>11. RefundedOnceEach'
  BY <1>3, FirstRefund DEF Refunds, Under, TaskTypes
<1> QED
  BY <1>6, <1>7, <1>8, <1>9, <1>10, <1>11 DEF Echoed

\* The row says what the last attempt cost once its refund is written.
LEMMA ZeroesEchoed ==
    ASSUME Under, NEW p \in Handler, Alone(p), UNCHANGED <<res, arg, queueVars, workerVars, writes>>, Zeroes(p)
    PROVE  Echoed' /\ RefundedOnceEach'
<1>1. /\ UNCHANGED <<status, attempt, upstream, charged, refunded, jobs, results, running, writes, res, arg>>
      /\ pc'["api"] = pc["api"] /\ pc'["poller"] = pc["poller"]
      /\ pc[p] = "failZero" /\ pc'[p] = "idle" /\ credits' = 0
      /\ \A q \in Handler : q # p => pc'[q] = pc[q]
  BY Handlers, ConstantTypes DEF Zeroes, Alone, workerVars, queueVars, ledgerVars
<1>2. Claims(p) /\ AtIt' = AtIt
  BY <1>1 DEF Claims, ClaimStep, AtIt
<1>3. \A b : Back(b)' <=> Back(b)
  BY <1>1, SameBack
<1>4. Back(Channels)
  <2>1. arg[p].attempt = Channels
    BY <1>1, <1>2 DEF Under, Unhurt, Blames, Claims, ClaimStep, FailStep
  <2>2. Tells(p)
    BY <1>1, Working DEF Under
  <2> QED
    BY <1>1, <2>1, <2>2 DEF Tells
<1>5. \A q \in Handler : /\ Promotes(q)' <=> Promotes(q)
                         /\ Claims(q)' => Claims(q)
                         /\ pc'[q] = "failRefund" => pc[q] = "failRefund"
  BY <1>1 DEF Claims, Promotes, ClaimStep
<1>6. Claimed /\ Claimed' /\ (PollDue' <=> PollDue)
  BY <1>1, <1>2, <1>3, <1>4 DEF Claimed, PollDue
<1>7. Counted'
  <2>1. Weight' = Weight /\ Flag(PollDue') = Flag(PollDue) /\ Flag(Claimed') = Flag(Claimed)
    BY <1>1, <1>2, <1>6 DEF Weight, Flag
  <2> QED
    BY <1>1, <2>1 DEF Under, Echoed, Counted
<1>8. Created' /\ RowLast'
  BY <1>1, LastKept DEF Under, Echoed, Created
<1>9. OneClaim'
  BY <1>3, <1>5, ClaimKept DEF Under, Echoed
<1>10. ClaimsSettled'
  <2>1. NoClaimant => NoClaimant'
    BY <1>1, <1>2 DEF NoClaimant, Harmless
  <2> QED
    BY <1>1, <1>6, <2>1, SettledKept DEF Under, Echoed
<1>11. OnePromotion'
  <2>1. \A q \in Handler : ~Promotes(q)
    BY <1>6, PromotedTo DEF Under, Echoed
  <2> QED
    BY <1>5, <2>1 DEF OnePromotion
<1>12. RefundedOnceEach'
  BY <1>1, RefundedKept DEF Under
<1> QED
  BY <1>7, <1>8, <1>9, <1>10, <1>11, <1>12 DEF Echoed

\* A handler takes a result, or the batch writer does.
LEMMA TakeEchoed ==
    ASSUME Under, NEW p \in Handler, TakeResult(p)
    PROVE  Echoed' /\ RefundedOnceEach'
<1>1. PICK r \in BagToSet(results) :
        /\ results' = results (-) One(r)
        /\ IF r.outcome \in {"done", "async"}
           THEN writes' = Append(writes, r) /\ UNCHANGED procVars
           ELSE /\ res' = [res EXCEPT ![p] = r]
                /\ Goto(p, CASE r.outcome = "rate_limited"   -> "rotate"
                             [] r.outcome = "pool_key_retry" -> "skip"
                             [] OTHER                        -> "failed")
                /\ UNCHANGED <<arg, asked, writes>>
  BY DEF TakeResult
<1>2. /\ UNCHANGED <<status, attempt, credits, upstream, charged, refunded, jobs, running>>
      /\ pc[p] = "idle"
  BY DEF TakeResult, rowVars, ledgerVars, workerVars
<1>3. /\ IsFiniteSet(DOMAIN results') /\ Size(results') = Size(results) - 1
      /\ BagToSet(results') \subseteq BagToSet(results)
  BY <1>1, SizeLess, LessInBag, OneBag DEF Under, Echoed, Counted, TaskTypes, QueueTypes
<1>4. \A b : Back(b)' <=> Back(b)
  BY <1>2, SameBack
<1>5. /\ p \in Actor /\ p # "api" /\ p # "poller" /\ p # "cleaner" /\ writes \in Seq(Result) /\ r \in Result
      /\ p \notin AtIt /\ ~Claims(p) /\ ~Promotes(p)
  BY <1>2, Handlers DEF Under, TaskTypes, ServerTypes, QueueTypes, AtIt, Claims, Promotes, ClaimStep
<1>6. \/ /\ r.outcome \in {"done", "async"} /\ UNCHANGED <<pc, res, arg>>
         /\ writes' = Append(writes, r) /\ Len(writes') = Len(writes) + 1
      \/ /\ r.outcome \notin {"done", "async"} /\ UNCHANGED writes /\ res'[p] = r
         /\ pc'[p] \in {"rotate", "skip", "failed"} /\ p \in AtIt' /\ AtIt' = AtIt \cup {p}
         /\ Cardinality(AtIt)' = Cardinality(AtIt) + 1
  <2>1. CASE r.outcome \in {"done", "async"}
    BY <1>1, <1>5, <2>1 DEF procVars
  <2>2. CASE r.outcome \notin {"done", "async"}
    <3>1. /\ UNCHANGED writes /\ res'[p] = r /\ pc'[p] \in {"rotate", "skip", "failed"}
          /\ \A q \in Actor : q # p => pc'[q] = pc[q]
      BY <1>1, <1>5, <2>2, Goes DEF Under, TaskTypes, ProcTypes
    <3>2. p \in AtIt' /\ AtIt' = AtIt \cup {p}
      BY <3>1, Handlers DEF AtIt, ClaimStep
    <3>3. Cardinality(AtIt)' = Cardinality(AtIt) + 1
      BY <1>5, <3>2, HandlerComes
    <3> QED
      BY <2>2, <3>1, <3>2, <3>3
  <2> QED
    BY <2>1, <2>2
<1>7. \A q \in Actor : q # p => pc'[q] = pc[q] /\ res'[q] = res[q]
  <2>1. CASE r.outcome \in {"done", "async"}
    BY <1>1, <2>1 DEF procVars
  <2>2. CASE r.outcome \notin {"done", "async"}
    BY <1>1, <1>5, <2>2, Goes DEF Under, TaskTypes, ProcTypes
  <2> QED
    BY <2>1, <2>2
<1>8. /\ pc'["api"] = pc["api"] /\ pc'["poller"] = pc["poller"] /\ res'["poller"] = res["poller"]
      /\ \A q \in Handler : q # p => pc'[q] = pc[q] /\ res'[q] = res[q]
  BY <1>5, <1>7, Handlers, ConstantTypes
<1>9. ~Claims(p)' /\ ~Promotes(p)' /\ pc'[p] # "failRefund"
  BY <1>2, <1>6 DEF Claims, Promotes, ClaimStep
<1>10. \A q \in Handler : /\ Claims(q)' <=> Claims(q)
                          /\ Promotes(q)' => Promotes(q) /\ res'[q].attempt = res[q].attempt
                          /\ pc'[q] = "failRefund" => pc[q] = "failRefund"
                          /\ pc[q] = "retryUpdate" => pc'[q] = "retryUpdate"
  <2>1. \A q \in Handler : q # p => (Claims(q)' <=> Claims(q)) /\ (Promotes(q)' <=> Promotes(q))
    BY <1>8 DEF Claims, Promotes
  <2> QED
    BY <1>2, <1>5, <1>8, <1>9, <2>1
<1>11. (Claimed' <=> Claimed) /\ (PollDue' => PollDue)
  <2>1. Claimed' <=> Claimed
    BY <1>4, <1>10 DEF Claimed
  <2>2. writes' # <<>> \/ AtIt' # {}
    BY <1>5, <1>6
  <2> QED
    BY <1>8, <2>1, <2>2 DEF PollDue
<1>12. Counted'
  <2>1. Size(jobs') = Size(jobs) /\ Size(running') = Size(running)
    BY <1>2
  <2>2. \/ Len(writes') = Len(writes) + 1 /\ Cardinality(AtIt)' = Cardinality(AtIt)
        \/ Len(writes') = Len(writes) /\ Cardinality(AtIt)' = Cardinality(AtIt) + 1
    <3>1. UNCHANGED pc => AtIt' = AtIt
      BY DEF AtIt
    <3> QED
      BY <1>6, <3>1
  <2>3. Weight' = Weight
    <3> DEFINE w == Len(writes)
               w2 == Len(writes')
               c == Cardinality(AtIt)
               c2 == Cardinality(AtIt)'
               s == Size(results)
               s2 == Size(results')
    <3>1. /\ Size(jobs) \in Nat /\ Size(running) \in Nat /\ s \in Nat /\ w \in Nat /\ c \in Nat
      BY Numbers DEF Under, Echoed
    <3>2. s2 = s - 1 /\ ((w2 = w + 1 /\ c2 = c) \/ (w2 = w /\ c2 = c + 1))
      BY <1>3, <2>2
    <3>3. /\ Weight = Size(jobs) + Size(running) + s + w + c
          /\ Weight' = Size(jobs) + Size(running) + s2 + w2 + c2
      BY <2>1 DEF Weight
    <3> HIDE DEF w, w2, c, c2, s, s2
    <3> QED
      BY <3>1, <3>2, <3>3
  <2>4. Flag(PollDue') <= Flag(PollDue) /\ Flag(Claimed') = Flag(Claimed)
    BY <1>11 DEF Flag
  <2>5. /\ Flag(PollDue') \in {0, 1} /\ Flag(PollDue) \in {0, 1} /\ Flag(Claimed) \in {0, 1} /\ Weight \in Nat
    BY Numbers DEF Flag, Under, Echoed
  <2> QED
    BY <1>2, <1>3, <2>3, <2>4, <2>5, CountedKept DEF Under, Echoed, Counted
<1>13. Created' /\ RowLast'
  BY <1>2, <1>8, <1>10, LastKept DEF Under, Echoed, Created
<1>14. OneClaim'
  BY <1>4, <1>10, ClaimKept DEF Under, Echoed
<1>15. ClaimsSettled'
  <2>1. ASSUME NoClaimant PROVE \A q \in AtIt' : Harmless(res'[q])
    <3>1. ASSUME NEW q \in AtIt' PROVE Harmless(res'[q])
      <4>1. CASE q = p
        <5>1. res'[p] = r /\ r.outcome \notin {"done", "async"}
          BY <1>2, <1>6, <3>1, <4>1 DEF AtIt
        <5> QED
          BY <2>1, <4>1, <5>1 DEF NoClaimant, Ends
      <4>2. CASE q # p
        <5>1. q \in AtIt /\ res'[q] = res[q]
          BY <1>8, <3>1, <4>2 DEF AtIt
        <5> QED
          BY <2>1, <5>1 DEF NoClaimant
      <4> QED
        BY <4>1, <4>2
    <3> QED
      BY <3>1
  <2>2. NoClaimant => NoClaimant'
    BY <1>2, <1>3, <1>8, <2>1 DEF NoClaimant, Harmless
  <2> QED
    BY <1>2, <1>10, <1>11, <2>2, SettledKept DEF Under, Echoed
<1>16. OnePromotion'
  <2>1. /\ \A j \in BagToSet(jobs') \cup BagToSet(running') : About(j.attempt)
        /\ \A m \in BagToSet(results') : About(m.attempt)
    BY <1>2, <1>3 DEF About
  <2>2. About(r.attempt)
    BY DEF About
  <2>3. \A i \in DOMAIN writes' : About(writes'[i].attempt)
    <3>1. \A i \in DOMAIN writes' : writes'[i] = r \/ (i \in DOMAIN writes /\ writes'[i] = writes[i])
      BY <1>5, <1>6
    <3> QED
      BY <2>2, <3>1 DEF About
  <2>4. \A q \in Handler : pc'[q] # "idle" => About(res'[q].attempt)
    <3>1. pc'[p] # "idle" => res'[p] = r
      BY <1>2, <1>6
    <3> QED
      BY <1>8, <2>2, <3>1 DEF About
  <2>5. \A b : About(b)' => About(b)
    BY <2>1, <2>3, <2>4, AboutLess
  <2> QED
    BY <1>2, <1>4, <1>10, <2>5, PromotionKept DEF Under, Echoed
<1>17. RefundedOnceEach'
  BY <1>2, RefundedKept DEF Under
<1> QED
  BY <1>12, <1>13, <1>14, <1>15, <1>16, <1>17 DEF Echoed

\* A message goes on from one queue to the next while the goroutines rest.
LEMMA PassesOn ==
    ASSUME Under,
           UNCHANGED <<status, attempt, credits, upstream, charged, refunded, writes, pc, res, arg>>,
           IsFiniteSet(DOMAIN jobs'), IsFiniteSet(DOMAIN running'), IsFiniteSet(DOMAIN results'),
           Size(jobs') + Size(running') + Size(results') = Size(jobs) + Size(running) + Size(results),
           Size(jobs') \in Nat, Size(running') \in Nat, Size(results') \in Nat,
           results' = EmptyBag => results = EmptyBag,
           \A j \in BagToSet(jobs') \cup BagToSet(running') : j \in BagToSet(jobs) \cup BagToSet(running),
           \A m \in BagToSet(results') :
               \/ m \in BagToSet(results)
               \/ \E j \in BagToSet(running) : m.attempt = j.attempt
    PROVE  Echoed' /\ RefundedOnceEach'
<1>1. AtIt' = AtIt /\ \A q \in Handler : (Claims(q)' <=> Claims(q)) /\ (Promotes(q)' <=> Promotes(q))
  BY DEF AtIt, Claims, Promotes
<1>2. \A b : Back(b)' <=> Back(b)
  BY SameBack
<1>3. (Claimed' <=> Claimed) /\ (PollDue' => PollDue)
  BY <1>1, <1>2 DEF Claimed, PollDue
<1>4. Counted'
  <2>1. Weight' = Weight
    <3>1. Len(writes') = Len(writes) /\ Cardinality(AtIt)' = Cardinality(AtIt)
      BY <1>1
    <3> QED
      BY <3>1, Numbers DEF Under, Echoed, Weight
  <2>2. Flag(PollDue') <= Flag(PollDue) /\ Flag(Claimed') = Flag(Claimed)
    BY <1>3 DEF Flag
  <2>3. /\ Flag(PollDue') \in {0, 1} /\ Flag(PollDue) \in {0, 1} /\ Flag(Claimed) \in {0, 1} /\ Weight \in Nat
    BY Numbers DEF Flag, Under, Echoed
  <2> QED
    BY <2>1, <2>2, <2>3, CountedKept DEF Under, Echoed
<1>5. Created' /\ RowLast'
  BY LastKept DEF Under, Echoed, Created
<1>6. OneClaim'
  BY <1>1, <1>2, ClaimKept DEF Under, Echoed
<1>7. ClaimsSettled'
  <2>1. NoClaimant => NoClaimant'
    BY <1>1 DEF NoClaimant, Harmless
  <2> QED
    BY <1>1, <1>3, <2>1, SettledKept DEF Under, Echoed
<1>8. OnePromotion'
  <2>1. \A b : About(b)' => About(b)
    <3>1. /\ \A j \in BagToSet(jobs') \cup BagToSet(running') : About(j.attempt)
          /\ \A m \in BagToSet(results') : About(m.attempt)
          /\ \A i \in DOMAIN writes' : About(writes'[i].attempt)
          /\ \A q \in Handler : pc'[q] # "idle" => About(res'[q].attempt)
      BY DEF About
    <3> QED
      BY <3>1, AboutLess
  <2> QED
    BY <1>1, <1>2, <2>1, PromotionKept DEF Under, Echoed
<1>9. RefundedOnceEach'
  BY RefundedKept DEF Under
<1> QED
  BY <1>4, <1>5, <1>6, <1>7, <1>8, <1>9 DEF Echoed

\* A worker takes a job, and reports.
LEMMA WorkerEchoed ==
    ASSUME Under, TakeJob \/ FinishJob, budget' = budget
    PROVE  Echoed' /\ RefundedOnceEach'
<1>1. /\ IsABag(jobs) /\ IsABag(running) /\ IsABag(results)
      /\ IsFiniteSet(DOMAIN jobs) /\ IsFiniteSet(DOMAIN running) /\ IsFiniteSet(DOMAIN results)
      /\ Size(jobs) \in Nat /\ Size(running) \in Nat /\ Size(results) \in Nat
  BY Numbers DEF Under, Echoed, Counted, TaskTypes, QueueTypes, WorkerTypes
<1>2. CASE TakeJob
  <2>1. PICK j \in BagToSet(jobs) : jobs' = jobs (-) One(j) /\ running' = running (+) One(j)
    BY <1>2 DEF TakeJob
  <2>2. /\ IsFiniteSet(DOMAIN jobs') /\ Size(jobs') = Size(jobs) - 1 /\ BagToSet(jobs') \subseteq BagToSet(jobs)
        /\ Size(jobs) >= 1
    BY <1>1, <2>1, SizeLess, SizeType, LessInBag, OneBag
  <2>3. /\ IsFiniteSet(DOMAIN running') /\ Size(running') = Size(running) + 1
        /\ BagToSet(running') = BagToSet(running) \cup {j}
    BY <1>1, <2>1, SizeMore, JobComes
  <2>4. UNCHANGED <<status, attempt, credits, upstream, charged, refunded, results, writes, pc, res, arg>>
    BY <1>2 DEF TakeJob, rowVars, ledgerVars, procVars
  <2>5. Size(results') = Size(results) /\ IsFiniteSet(DOMAIN results') /\ BagToSet(results') = BagToSet(results)
    BY <1>1, <2>4
  <2>6. /\ Size(jobs') + Size(running') + Size(results') = Size(jobs) + Size(running) + Size(results)
        /\ Size(jobs') \in Nat /\ Size(running') \in Nat /\ Size(results') \in Nat
    BY <1>1, <2>2, <2>3, <2>5
  <2> QED
    BY <2>2, <2>3, <2>4, <2>5, <2>6, PassesOn
<1>3. CASE FinishJob
  <2>1. PICK j \in BagToSet(running) : \E reply \in Replies("publish") :
          \E outcome \in Outcomes(j) : \E text \in Texts(outcome) :
            /\ Answer(reply) /\ running' = running (-) One(j)
            /\ results' = IF reply = "ok" THEN results (+) One(ResultOf(j, outcome, text)) ELSE results
    BY <1>3 DEF FinishJob
  <2>2. PICK m : running' = running (-) One(j) /\ results' = results (+) One(m) /\ m.attempt = j.attempt
    BY <2>1, Published DEF ResultOf, Under, TaskTypes
  <2>3. /\ IsFiniteSet(DOMAIN running') /\ Size(running') = Size(running) - 1
        /\ BagToSet(running') \subseteq BagToSet(running) /\ Size(running) >= 1
    BY <1>1, <2>2, SizeLess, SizeType, LessInBag, OneBag
  <2>4. /\ IsFiniteSet(DOMAIN results') /\ Size(results') = Size(results) + 1
        /\ BagToSet(results') = BagToSet(results) \cup {m} /\ results' # EmptyBag
    BY <1>1, <2>2, SizeMore, JobComes
  <2>5. UNCHANGED <<status, attempt, credits, upstream, charged, refunded, jobs, writes, pc, res, arg>>
    BY <1>3 DEF FinishJob, rowVars, ledgerVars, procVars
  <2>6. Size(jobs') = Size(jobs) /\ IsFiniteSet(DOMAIN jobs') /\ BagToSet(jobs') = BagToSet(jobs)
    BY <1>1, <2>5
  <2>7. /\ Size(jobs') + Size(running') + Size(results') = Size(jobs) + Size(running) + Size(results)
        /\ Size(jobs') \in Nat /\ Size(running') \in Nat /\ Size(results') \in Nat
    BY <1>1, <2>3, <2>4, <2>6
  <2> QED
    BY <2>2, <2>3, <2>4, <2>5, <2>6, <2>7, PassesOn
<1> QED
  BY <1>2, <1>3

\* The batch writer writes.  When the last attempt has its refund and the task does
\* not stay failed, the result that was written was the last.
LEMMA FlushEchoed ==
    ASSUME Under, FlushBatch
    PROVE  Echoed' /\ RefundedOnceEach'
<1>1. PICK n \in 1..Len(writes) :
        /\ writes' = SubSeq(writes, n + 1, Len(writes)) /\ UNCHANGED <<attempt, credits>>
        /\ \/ /\ status' = "processing"
              /\ \E i \in 1..n : writes[i].outcome = "async" /\ upstream' = writes[i].attempt
           \/ status' = "done" /\ UNCHANGED upstream
  BY Flushes DEF Under
<1>2. UNCHANGED <<charged, refunded, jobs, results, running, pc, res, arg>>
  BY DEF FlushBatch, ledgerVars, queueVars, workerVars, procVars
<1>3. AtIt' = AtIt /\ \A q \in Handler : (Claims(q)' <=> Claims(q)) /\ (Promotes(q)' <=> Promotes(q))
  BY <1>2 DEF AtIt, Claims, Promotes
<1>4. \A b : Back(b)' <=> Back(b)
  BY <1>2, SameBack
<1>5. Claimed' <=> Claimed
  BY <1>3, <1>4 DEF Claimed
<1>6. /\ writes \in Seq(Result) /\ Len(writes) \in Nat /\ Len(writes) >= 1
      /\ Len(writes') = Len(writes) - n /\ n \in Nat /\ n >= 1 /\ n <= Len(writes)
      /\ \A i \in DOMAIN writes' : i + n \in DOMAIN writes /\ writes'[i] = writes[i + n]
  <2>1. writes \in Seq(Result) /\ n \in 1..Len(writes)
    BY DEF Under, TaskTypes, ServerTypes
  <2> QED
    BY <1>1, <2>1
<1>7. Counted'
  <2>1. Weight' = Weight - n /\ Weight' \in Nat /\ Weight \in Nat
    <3>1. Cardinality(AtIt)' = Cardinality(AtIt)
      BY <1>3
    <3>2. /\ Size(jobs) \in Nat /\ Size(running) \in Nat /\ Size(results) \in Nat /\ Cardinality(AtIt) \in Nat
      BY Numbers DEF Under, Echoed
    <3> DEFINE s == Size(jobs) + Size(running) + Size(results)
               w == Len(writes)
               c == Cardinality(AtIt)
    <3>3. s \in Nat /\ w \in Nat /\ c \in Nat /\ n \in Nat /\ n <= w
      BY <1>6, <3>2
    <3>4. Weight = s + w + c /\ Weight' = s + (w - n) + c
      BY <1>2, <1>6, <3>1 DEF Weight
    <3> HIDE DEF s, w, c
    <3> QED
      BY <3>3, <3>4
  <2>2. Flag(Claimed') = Flag(Claimed) /\ Flag(Claimed) \in {0, 1}
    BY <1>5 DEF Flag
  <2>3. Flag(PollDue') \in {0, 1} /\ Flag(PollDue) \in {0, 1}
    BY DEF Flag
  <2>4. Weight' + Flag(PollDue') + Flag(Claimed') <= Weight + Flag(PollDue) + Flag(Claimed)
    BY <1>6, <2>1, <2>2, <2>3
  <2> QED
    BY <1>2, <2>1, <2>4, CountedKept DEF Under, Echoed, Counted
<1>8. ASSUME upstream' # upstream \/ status' = "processing"
      PROVE  upstream' = Channels /\ attempt = Channels /\ \A q \in Handler : ~Promotes(q)
  <2>1. PICK i \in 1..n : writes[i].outcome = "async" /\ upstream' = writes[i].attempt
    BY <1>1, <1>8
  <2>2. i \in DOMAIN writes
    BY <1>6
  <2>3. Told(writes[i])
    BY <2>2 DEF Under, GivenBackFirst, MessagesTell
  <2>4. writes[i].attempt = Channels /\ Channels \in charged /\ About(Channels)
    BY <2>1, <2>2, <2>3, Calmly DEF Told, About, Under, Echoes
  <2>5. \A q \in Handler : ~Promotes(q)
    BY <2>4, PromotedTo DEF Under, Echoed
  <2>6. attempt = Channels
    BY <2>4, <2>5 DEF Under, Echoed, RowLast, Promotes
  <2> QED
    BY <2>1, <2>4, <2>5, <2>6
<1>9. Created' /\ RowLast'
  <2>1. Created'
    BY <1>1, <1>2 DEF Under, Echoed, Created
  <2>2. upstream # 0 => upstream' # 0
    BY <1>8, ConstantTypes
  <2>3. CASE upstream' = upstream
    BY <1>1, <1>2, <2>1, <2>3, LastKept DEF Under, Echoed
  <2>4. CASE upstream' # upstream
    BY <1>1, <1>2, <1>8, <2>1, <2>2, <2>4 DEF Under, Echoed, RowLast
  <2> QED
    BY <2>3, <2>4
<1>10. OneClaim'
  BY <1>2, <1>3, <1>4, ClaimKept DEF Under, Echoed
<1>11. ClaimsSettled'
  <2>1. SUFFICES ASSUME Claimed, status = "failed" \/ NoClaimant PROVE NoClaimant'
    BY <1>1, <1>2, <1>3, <1>5 DEF Under, Echoed, ClaimsSettled
  <2>2. /\ Size(jobs) \in Nat /\ Size(running) \in Nat /\ Size(results) \in Nat /\ Cardinality(AtIt) \in Nat
        /\ \A j \in BagToSet(jobs) : Size(jobs) >= 1
        /\ \A j \in BagToSet(running) : Size(running) >= 1
        /\ \A m \in BagToSet(results) : Size(results) >= 1
        /\ \A p \in AtIt : Cardinality(AtIt) >= 1
        /\ Flag(PollDue) \in {0, 1} /\ Weight + Flag(PollDue) + Flag(Claimed) <= 2
    BY Numbers DEF Under, Echoed
  <2>3. Weight + Flag(PollDue) <= 1 /\ Weight \in Nat
    BY <1>6, <2>1, <2>2 DEF Flag, Weight
  <2>4. Size(jobs) = 0 /\ Size(running) = 0 /\ Size(results) = 0 /\ Cardinality(AtIt) = 0 /\ Flag(PollDue) = 0
    BY <1>6, <2>2, <2>3 DEF Weight
  <2>5. pc["poller"] # "poll"
    BY <2>4 DEF Flag, PollDue
  <2> QED
    BY <1>2, <1>3, <2>2, <2>4, <2>5 DEF NoClaimant
<1>12. OnePromotion'
  <2>1. CASE upstream' = upstream
    <3>1. \A b : About(b)' => About(b)
      <4>1. /\ \A j \in BagToSet(jobs') \cup BagToSet(running') : About(j.attempt)
            /\ \A m \in BagToSet(results') : About(m.attempt)
            /\ \A i \in DOMAIN writes' : About(writes'[i].attempt)
            /\ \A q \in Handler : pc'[q] # "idle" => About(res'[q].attempt)
        BY <1>2, <1>6 DEF About
      <4> QED
        BY <4>1, AboutLess
    <3> QED
      BY <1>2, <1>3, <1>4, <2>1, <3>1, PromotionKept DEF Under, Echoed
  <2>2. CASE upstream' # upstream
    BY <1>3, <1>8, <2>2 DEF OnePromotion
  <2> QED
    BY <2>1, <2>2
<1>13. RefundedOnceEach'
  BY <1>2, RefundedKept DEF Under
<1> QED
  BY <1>7, <1>9, <1>10, <1>11, <1>12, <1>13 DEF Echoed

\* The poller reads a row that says what the last attempt cost.
LEMMA PollTaskEchoed ==
    ASSUME Under, PollTask
    PROVE  Echoed' /\ RefundedOnceEach'
<1>1. /\ UNCHANGED <<status, attempt, credits, upstream, charged, refunded, jobs, results, running, writes, arg>>
      /\ pc["poller"] = "idle" /\ status = "processing" /\ upstream # 0 /\ ServerQuiet
      /\ Goto("poller", "poll") /\ res' = [res EXCEPT !["poller"] = FailedResult(Row, "stale")]
  BY Calmly DEF PollTask, ReadRow, rowVars, ledgerVars, queueVars, workerVars, Under, Echoes
<1>2. /\ pc'["poller"] = "poll" /\ pc'["api"] = pc["api"]
      /\ \A q \in Handler : pc[q] = "idle" /\ pc'[q] = "idle"
      /\ res'["poller"].attempt = attempt /\ res'["poller"].credits = credits
  BY <1>1, Goes, Handlers, ConstantTypes DEF Under, TaskTypes, ProcTypes, ServerQuiet, FailedResult, Row
<1>3. AtIt = {} /\ AtIt' = {} /\ \A q \in Handler : ~Claims(q) /\ ~Claims(q)' /\ ~Promotes(q)'
  BY <1>2 DEF AtIt, Claims, Promotes, ClaimStep
<1>4. \A b : Back(b)' <=> Back(b)
  BY <1>1, SameBack
<1>5. (Claimed' <=> Claimed) /\ PollDue /\ PollDue'
  BY <1>1, <1>2, <1>3, <1>4 DEF Claimed, PollDue, ServerQuiet
<1>6. Counted'
  <2>1. Weight' = Weight /\ Flag(PollDue') = Flag(PollDue) /\ Flag(Claimed') = Flag(Claimed)
    BY <1>1, <1>3, <1>5 DEF Weight, Flag
  <2> QED
    BY <1>1, <2>1 DEF Under, Echoed, Counted
<1>7. Created' /\ RowLast'
  BY <1>1, <1>2 DEF Under, Echoed, Created, RowLast
<1>8. OneClaim' /\ OnePromotion'
  BY <1>2, <1>3 DEF OneClaim, OnePromotion
<1>9. ClaimsSettled'
  <2>1. SUFFICES ASSUME Claimed PROVE NoClaimant' /\ credits' = 0
    BY <1>5 DEF ClaimsSettled
  <2>2. NoClaimant /\ credits = 0
    BY <1>1, <1>3, <2>1 DEF Under, Echoed, ClaimsSettled
  <2> QED
    BY <1>1, <1>2, <1>3, <2>2 DEF NoClaimant, Harmless
<1>10. RefundedOnceEach'
  BY <1>1, RefundedKept DEF Under
<1> QED
  BY <1>6, <1>7, <1>8, <1>9, <1>10 DEF Echoed

\* The poller is done with the task.
LEMMA PolledEchoed ==
    ASSUME Under, PollOne, budget' = budget
    PROVE  Echoed' /\ RefundedOnceEach'
<1>1. /\ UNCHANGED <<attempt, credits, upstream, charged, refunded, jobs, running, writes, res, arg>>
      /\ pc["poller"] = "poll" /\ Goto("poller", "idle")
      /\ \/ status' \in {status, "done"} /\ results' = results
         \/ status' = status /\ \E text : results' = results (+) One(FailedResult(res["poller"], text))
  <2>1. ASSUME NEW text, PublishFailedResult(text)
        PROVE  Goto("poller", "idle") /\ UNCHANGED arg /\ results' = results (+) One(FailedResult(res["poller"], text))
    BY <2>1, Published DEF PublishFailedResult, Under, TaskTypes
  <2>2. CASE PollAged \/ PollFailed
    BY <2>1, <2>2 DEF PollAged, PollFailed, rowVars, ledgerVars, workerVars
  <2>3. CASE PollNothing \/ PollDone
    BY <2>3, Calmly
       DEF Under, Echoes, PollNothing, PollDone, Unchecked, SetStatus, rowVars, ledgerVars, queueVars, workerVars
  <2> QED
    BY <2>2, <2>3 DEF PollOne
<1>2. pc'["poller"] = "idle" /\ pc'["api"] = pc["api"] /\ \A q \in Handler : pc'[q] = pc[q]
  BY <1>1, Goes, Handlers, ConstantTypes DEF Under
<1>3. AtIt' = AtIt /\ \A q \in Handler : (Claims(q)' <=> Claims(q)) /\ (Promotes(q)' <=> Promotes(q))
  BY <1>2 DEF AtIt, Claims, Promotes
<1>4. \A b : Back(b)' <=> Back(b)
  BY <1>1, SameBack
<1>5. (Claimed' <=> Claimed) /\ PollDue
  BY <1>1, <1>3, <1>4 DEF Claimed, PollDue
<1>6. upstream # 0 /\ res["poller"].attempt = Channels /\ \A q \in Handler : ~Promotes(q)
  BY <1>1 DEF Under, Echoed, RowLast, OnePromotion
<1>7. Created' /\ RowLast'
  BY <1>1, <1>2 DEF Under, Echoed, Created, RowLast
<1>8. OneClaim' /\ OnePromotion'
  BY <1>2, <1>3, <1>4, <1>6, ClaimKept DEF Under, Echoed, OnePromotion
<1>9. RefundedOnceEach'
  BY <1>1, RefundedKept DEF Under
<1>10. /\ IsABag(results) /\ IsFiniteSet(DOMAIN results) /\ IsFiniteSet(DOMAIN jobs) /\ IsFiniteSet(DOMAIN running)
       /\ Size(jobs') = Size(jobs) /\ Size(running') = Size(running) /\ Len(writes') = Len(writes)
       /\ Cardinality(AtIt)' = Cardinality(AtIt)
  BY <1>1, <1>3 DEF Under, Echoed, Counted, TaskTypes, QueueTypes
<1>11. CASE results' = results
  <2>1. Counted'
    <3>1. Weight' = Weight /\ Weight \in Nat
      BY <1>10, <1>11, Numbers DEF Weight, Under, Echoed
    <3>2. Flag(PollDue') \in {0, 1} /\ Flag(PollDue) = 1 /\ Flag(Claimed') = Flag(Claimed) /\ Flag(Claimed) \in {0, 1}
      BY <1>5 DEF Flag
    <3>3. Weight' + Flag(PollDue') + Flag(Claimed') <= Weight + Flag(PollDue) + Flag(Claimed)
      BY <3>1, <3>2
    <3> QED
      BY <1>1, <1>10, <1>11, <3>1, <3>3, CountedKept DEF Under, Echoed
  <2>2. ClaimsSettled'
    <3>1. SUFFICES ASSUME Claimed PROVE status' = "failed" \/ NoClaimant'
      BY <1>1, <1>3, <1>5 DEF Under, Echoed, ClaimsSettled
    <3>2. NoClaimant => NoClaimant'
      BY <1>1, <1>2, <1>3, <1>11 DEF NoClaimant, Harmless
    <3>3. /\ Size(jobs) \in Nat /\ Size(running) \in Nat /\ Size(results) \in Nat /\ Cardinality(AtIt) \in Nat
          /\ Len(writes) \in Nat
          /\ \A j \in BagToSet(jobs) : Size(jobs) >= 1
          /\ \A j \in BagToSet(running) : Size(running) >= 1
          /\ \A m \in BagToSet(results) : Size(results) >= 1
          /\ \A p \in AtIt : Cardinality(AtIt) >= 1
          /\ Weight + Flag(PollDue) + Flag(Claimed) <= 2
      BY Numbers DEF Under, Echoed
    <3>4. Weight = 0
      BY <1>5, <3>1, <3>3 DEF Flag, Weight
    <3>5. Size(jobs) = 0 /\ Size(running) = 0 /\ Size(results) = 0 /\ Cardinality(AtIt) = 0
      BY <3>3, <3>4 DEF Weight
    <3> QED
      BY <1>1, <1>2, <1>3, <1>11, <3>3, <3>5 DEF NoClaimant
  <2> QED
    BY <1>7, <1>8, <1>9, <2>1, <2>2 DEF Echoed
<1>12. CASE status' = status /\ \E text : results' = results (+) One(FailedResult(res["poller"], text))
  <2>1. PICK text : results' = results (+) One(FailedResult(res["poller"], text))
    BY <1>12
  <2> DEFINE m == FailedResult(res["poller"], text)
  <2>2. m.attempt = res["poller"].attempt /\ m.credits = res["poller"].credits
    BY DEF FailedResult
  <2>3. results' = results (+) One(m)
    BY <2>1
  <2> HIDE DEF m
  <2>4. /\ IsFiniteSet(DOMAIN results') /\ Size(results') = Size(results) + 1
        /\ BagToSet(results') = BagToSet(results) \cup {m} /\ results' # EmptyBag
    BY <1>10, <2>3, SizeMore, JobComes
  <2>5. ~PollDue'
    BY <1>2, <2>4 DEF PollDue
  <2>6. Counted'
    <3>1. Weight' = Weight + 1 /\ Weight \in Nat
      BY <1>10, <2>4, Numbers DEF Weight, Under, Echoed
    <3>2. Flag(PollDue') = 0 /\ Flag(PollDue) = 1 /\ Flag(Claimed') = Flag(Claimed) /\ Flag(Claimed) \in {0, 1}
      BY <1>5, <2>5 DEF Flag
    <3>3. Weight' + Flag(PollDue') + Flag(Claimed') <= Weight + Flag(PollDue) + Flag(Claimed) /\ Weight' \in Nat
      BY <3>1, <3>2
    <3> QED
      BY <1>1, <1>10, <2>4, <3>3, CountedKept DEF Under, Echoed
  <2>7. ClaimsSettled'
    <3>1. NoClaimant => NoClaimant'
      BY <1>1, <1>2, <1>3, <2>2, <2>4 DEF NoClaimant, Harmless
    <3> QED
      BY <1>1, <1>3, <1>5, <1>12, <3>1, SettledKept DEF Under, Echoed
  <2> QED
    BY <1>7, <1>8, <1>9, <2>6, <2>7 DEF Echoed
<1> QED
  BY <1>1, <1>11, <1>12

\* Every step of a task of which a message has come twice.
LEMMA EchoSteps ==
    ASSUME Under, [Next]_vars, ~ComesAgain, budget' = budget
    PROVE  Echoed' /\ RefundedOnceEach'
<1>1. ASSUME NEW p \in Handler, HandlerStep(p) PROVE Echoed' /\ RefundedOnceEach'
  <2>1. Alone(p) /\ UNCHANGED <<res, results, workerVars, writes>>
    BY <1>1, HandlerAlone DEF Under
  <2>2. (UNCHANGED arg /\ (Charges(p) \/ Updates(p) \/ Publishes(p))) \/ Moves(p)
    BY <1>1, HandlerDoes DEF Under
  <2> QED
    BY <2>1, <2>2, MovesEchoed, ChargesEchoed, UpdatesEchoed, PublishesEchoed
<1>2. ASSUME NEW p \in Handler, failTaskDB(p) PROVE Echoed' /\ RefundedOnceEach'
  <2>1. Alone(p) /\ UNCHANGED <<res, arg, queueVars, workerVars, writes>>
    BY <1>2, FailAlone, Handlers DEF Under
  <2>2. GetsIn(p) \/ GoesOff(p) \/ Refunds(p) \/ Zeroes(p)
    BY <1>2, FailDoes, Handlers DEF Under
  <2> QED
    BY <2>1, <2>2, EntersEchoed, RefundsEchoed, ZeroesEchoed
<1>3. ASSUME NEW p \in Handler, handleResult(p) PROVE Echoed' /\ RefundedOnceEach'
  BY <1>1, <1>2, <1>3, TakeEchoed DEF handleResult, HandlerStep
<1>4. ASSUME NEW p \in {"poller", "cleaner"} PROVE ~failTaskDB(p)
  BY DEF Under, Unhurt, failTaskDB, FailTask, FailRefund, FailZero
<1>5. CASE UpstreamEnds \/ GrowOld \/ UNCHANGED vars
  <2>1. UNCHANGED <<rowVars, ledgerVars, queueVars, running, pc, res, arg, writes>>
    BY <1>5 DEF UpstreamEnds, GrowOld, vars, procVars, workerVars
  <2> QED
    BY <2>1, SameEchoed, RefundedKept DEF Under, ledgerVars
<1>6. ~CreateTask
  BY DEF Under, Echoed, Created, CreateTask, ChargeUser, InsertTask, WriteCharge, RefuseTask, PublishTask,
         FailUnpublished, RefundUnpublished, MarkProcessing
<1>7. ~CleanStaleTask
  <2>1. SUFFICES ASSUME CleanStaleTask PROVE FALSE
    OBVIOUS
  <2>2. Quiet /\ (status = "pending" \/ (status = "processing" /\ upstream = 0))
    BY <2>1, Calmly DEF CleanStaleTask, Under, Echoes
  <2> QED
    BY <2>2 DEF Quiet, ServerQuiet, Under, Unhurt, Alive, AtIt
<1>8. ~WorkerDies /\ ~ServerDies
  BY Calmly DEF Under, Echoes, WorkerDies, ServerDies
<1> QED
  BY <1>3, <1>4, <1>5, <1>6, <1>7, <1>8, WorkerEchoed, FlushEchoed, PollTaskEchoed, PolledEchoed DEF Next, ComesAgain

-----------------------------------------------------------------------------
(***************************************************************************)
(* The invariant: one stage until a message comes twice, and then no other *)
(* fault.                                                                  *)
(***************************************************************************)

EchoedTypes == TaskTypes /\ InsertedFirst /\ GivenBackFirst
EchoInv ==
    /\ EchoedTypes /\ KeysSpent /\ RefundedOnceEach
    /\ \/ OneStage /\ (budget > 0 => Unhurt)
       \/ budget = 0 /\ Unhurt /\ Echoed

\* A step has no fault or one.
LEMMA BudgetSteps ==
    ASSUME Echoes, [Next]_vars
    PROVE  budget' = budget \/ budget' = budget - 1 \/ budget' = budget - 0
<1>1. \A reply : Answer(reply) => budget' = budget \/ budget' = budget - 1
  BY DEF Answer
<1>2. CASE CreateTask
  BY <1>1, <1>2 DEF CreateTask, ChargeUser, InsertTask, WriteCharge, RefuseTask, PublishTask, FailUnpublished,
                    RefundUnpublished, MarkProcessing, Unchecked
<1>3. ASSUME NEW p, failTaskDB(p) PROVE budget' = budget \/ budget' = budget - 1
  BY <1>1, <1>3 DEF failTaskDB, FailTask, FailRefund, FailZero, Unchecked
<1>4. ASSUME NEW p \in Handler, handleResult(p) PROVE budget' = budget \/ budget' = budget - 1
  <2>1. CASE TakeResult(p)
    BY <2>1 DEF TakeResult
  <2>2. CASE RotateKey(p) \/ SkipKey(p) \/ Republish(p) \/ FailedResultArrives(p)
    BY <1>1, <2>2 DEF RotateKey, SkipKey, Republish, FailedResultArrives, Unchecked
  <2>3. CASE RetryRefund(p) \/ RetryZero(p) \/ RetryCharge(p) \/ RetryWrite(p) \/ RetryUpdate(p) \/ RetryPublish(p)
    BY <1>1, <2>3 DEF RetryRefund, RetryZero, RetryCharge, RetryWrite, RetryUpdate, RetryPublish, Unchecked
  <2> QED
    BY <1>3, <1>4, <2>1, <2>2, <2>3 DEF handleResult
<1>5. CASE TakeJob \/ FinishJob \/ RedeliverJob \/ WorkerDies \/ RedeliverResult \/ CleanStaleTask \/ PollTask
           \/ UpstreamEnds \/ GrowOld \/ ServerDies \/ UNCHANGED vars
  BY <1>1, <1>5 DEF TakeJob, FinishJob, RedeliverJob, WorkerDies, RedeliverResult, CleanStaleTask, PollTask,
                    UpstreamEnds, GrowOld, ServerDies, Fault, vars
<1>6. CASE PollOne
  BY <1>1, <1>6 DEF PollOne, PollAged, PollNothing, PollDone, PollFailed, PublishFailedResult, Unchecked
<1>7. CASE FlushBatch
  <2>1. PICK lost : (lost # {} => "db" \in Env) /\ budget' = budget - Cardinality(lost)
    <3>1. PICK n \in 1..Len(writes) :
            \E lost \in SUBSET {m.outcome : m \in {writes[i] : i \in 1..n}} :
              (lost # {} => "db" \in Env) /\ budget' = budget - Cardinality(lost)
      BY <1>7 DEF FlushBatch
    <3> QED
      BY <3>1
  <2>2. lost = {}
    BY <2>1, Calmly DEF Echoes
  <2> QED
    BY <2>1, <2>2, FS_EmptySet
<1> QED
  BY <1>2, <1>3, <1>4, <1>5, <1>6, <1>7 DEF Next

\* Every step keeps the invariant: in one stage, when a message comes twice, and after.
LEMMA EchoInvSteps ==
    ASSUME Echoes, EchoInv, [Next]_vars
    PROVE  EchoInv'
<1>1. /\ EchoedTypes /\ EchoedTypes' /\ KeysSpent /\ KeysSpent' /\ RefundedOnceEach
      /\ TaskTypes /\ TaskTypes' /\ InsertedFirst /\ GivenBackFirst /\ GivenBackFirst' /\ LedgerGrows /\ ActorsTell
  <2>1. TaskTypes /\ InsertedFirst /\ GivenBackFirst /\ KeysSpent /\ RefundedOnceEach
    BY DEF EchoInv, EchoedTypes
  <2>2. TaskTypes' /\ InsertedFirst' /\ GivenBackFirst' /\ KeysSpent'
    BY <2>1, StepTypes, InsertedSteps, GivenBackSteps, SpentSteps DEF Echoes, Calm
  <2>3. ActorsTell /\ LedgerGrows
    BY <2>1, LedgerStep, OnlyGrows DEF GivenBackFirst
  <2> QED
    BY <2>1, <2>2, <2>3 DEF EchoedTypes
<1>2. /\ budget \in {0, 1} /\ budget' \in {0, 1} /\ budget' <= budget
  BY <1>1, BudgetSteps, ConstantTypes DEF TaskTypes, BudgetType, Echoes
<1>3. ComesAgain => budget = 1 /\ budget' = 0
  BY <1>2 DEF ComesAgain, RedeliverJob, RedeliverResult, Fault
<1>4. CASE OneStage /\ ComesAgain /\ (budget > 0 => Unhurt)
  <2>1. Unhurt
    BY <1>3, <1>4
  <2>2. Echoed' /\ Unhurt' /\ RefundedOnceEach'
    BY <1>1, <1>4, <2>1, ComesAgainEchoes, AgainUnhurt, StageRefunds DEF Echoes
  <2> QED
    BY <1>1, <1>3, <1>4, <2>2 DEF EchoInv
<1>5. CASE OneStage /\ ~ComesAgain /\ (budget > 0 => Unhurt)
  <2>1. OneStage' /\ RefundedOnceEach'
    BY <1>1, <1>5, StageSteps, StageRefunds DEF Echoes
  <2>2. budget' > 0 => Unhurt'
    <3>1. SUFFICES ASSUME budget' > 0 PROVE Unhurt'
      OBVIOUS
    <3>2. budget' = budget /\ budget > 0
      BY <1>2, <3>1
    <3> QED
      BY <1>1, <1>5, <3>2, UnhurtSteps
  <2> QED
    BY <1>1, <2>1, <2>2 DEF EchoInv
<1>6. CASE budget = 0 /\ Unhurt /\ Echoed
  <2>1. ~ComesAgain /\ budget' = budget
    BY <1>2, <1>3, <1>6
  <2>2. Unhurt'
    BY <1>1, <1>6, <2>1, UnhurtSteps
  <2>3. Echoed' /\ RefundedOnceEach'
    BY <1>1, <1>6, <2>1, EchoSteps DEF Under
  <2> QED
    BY <1>1, <1>6, <2>1, <2>2, <2>3 DEF EchoInv
<1> QED
  BY <1>4, <1>5, <1>6 DEF EchoInv

\* It holds at first,
LEMMA InitEcho == Init => EchoInv
<1> SUFFICES ASSUME Init PROVE EchoInv
  OBVIOUS
<1>1. refunded = {}
  BY DEF Init
<1>2. RefundedOnceEach
  BY <1>1 DEF RefundedOnceEach
<1> QED
  BY <1>2, InitTypes, InitGiven, InitCalm, InitKeys, InitUnhurt DEF EchoInv, EchoedTypes

\* and so it holds always.
LEMMA EchoInvariant ==
    ASSUME Echoes
    PROVE  Spec => []EchoInv
<1>1. EchoInv /\ [Next]_vars => EchoInv'
  BY EchoInvSteps
<1> QED
  BY <1>1, InitEcho, PTL DEF Spec

-----------------------------------------------------------------------------
(***************************************************************************)
(* The property.                                                           *)
(***************************************************************************)

\* A refund of each attempt at most, and only of one that was charged.
LEMMA OnceEachMatches ==
    ASSUME TaskTypes, RefundedOnceEach
    PROVE  RefundsMatchCharges
<1>1. ASSUME NEW a \in Attempt PROVE Cardinality(RefundsOf(a)) <= (IF a \in charged THEN 1 ELSE 0)
  <2>1. CASE RefundsOf(a) = {}
    BY <2>1, FS_EmptySet
  <2>2. CASE RefundsOf(a) # {}
    <3>1. PICK reason \in RefundsOf(a) : <<a, reason>> \in refunded
      BY <2>2 DEF RefundsOf
    <3>2. a \in charged
      BY <3>1 DEF RefundedOnceEach
    <3>3. ASSUME NEW other \in RefundsOf(a) PROVE other = reason
      <4>1. <<a, other>> \in refunded
        BY DEF RefundsOf
      <4>2. <<a, other>> = <<a, reason>>
        BY <3>1, <4>1 DEF RefundedOnceEach
      <4> QED
        BY <4>2
    <3>4. RefundsOf(a) = {reason}
      BY <3>1, <3>3
    <3>5. Cardinality(RefundsOf(a)) = 1
      BY <3>4, FS_Singleton
    <3> QED
      BY <3>2, <3>5
  <2> QED
    BY <2>1, <2>2
<1> QED
  BY <1>1 DEF RefundsMatchCharges

\* An attempt is refunded at most once, and only when it was charged, when publishes
\* may be refused and messages may come twice, one of these in the life of the task:
\* "idempotent" in the comment of failTaskDB (taskresult/handler.go).  With a second
\* key in the pool the copy of a job that was rate-limited sets a failed task to
\* "processing" again, and its last attempt is refunded twice.
THEOREM RefundsMatch ==
    ASSUME Env \subseteq {"publish", "redeliver"}, Async \subseteq {Channels}, MaxFaults <= 1, Keys <= 1
    PROVE  Spec => []RefundsMatchCharges
<1>1. Echoes
  BY DEF Echoes, Calm, OnlyLastPolled
<1>2. EchoInv => RefundsMatchCharges
  BY OnceEachMatches DEF EchoInv, EchoedTypes
<1> QED
  BY <1>1, <1>2, EchoInvariant, PTL
=============================================================================
