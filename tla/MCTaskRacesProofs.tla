------------------------- MODULE MCTaskRacesProofs -------------------------
(***************************************************************************)
(* The theorem of TaskEchoProofs for the instance that MCTaskRaces calls   *)
(* "echo": P is the same instance of TaskLifecycle with its theorems.      *)
(***************************************************************************)
EXTENDS MCTaskRaces, TLAPS, FiniteSetTheorems

P == INSTANCE TaskEchoProofs WITH
  Channels <- 2, Async <- {2}, Keys <- 1, Handler <- {h1, h2}, MaxDeliver <- 2,
  ErrorText <- {e1, e2}, Env <- {"publish", "redeliver"}, MaxFaults <- 1, MaxResults <- 2

-----------------------------------------------------------------------------
(***************************************************************************)
(* Echo and P are one instance.                                            *)
(***************************************************************************)

\* They start alike,
LEMMA SameInit == Echo!Init <=> P!Init
  BY DEF Echo!Init, P!Init, Echo!Actor, P!Actor, Echo!Attempt, P!Attempt, Echo!NoResult, P!NoResult,
         Echo!NoBlame, P!NoBlame, Echo!EmptyBag, P!EmptyBag, Echo!SetToBag, P!SetToBag

\* take the same steps,
LEMMA SameNext == Echo!Next <=> P!Next
  BY DEF Echo!Attempt, P!Attempt, Echo!rowVars, P!rowVars, Echo!ledgerVars, P!ledgerVars,
         Echo!queueVars, P!queueVars, Echo!workerVars, P!workerVars, Echo!procVars, P!procVars,
         Echo!Actor, P!Actor, Echo!Final, P!Final, Echo!Goto, P!Goto, Echo!One, P!One,
         Echo!Replies, P!Replies, Echo!Answer, P!Answer, Echo!Fault, P!Fault, Echo!NewJob, P!NewJob,
         Echo!FailedResult, P!FailedResult, Echo!Again, P!Again, Echo!CallFail, P!CallFail,
         Echo!SetRow, P!SetRow, Echo!SetStatus, P!SetStatus, Echo!Unchecked, P!Unchecked,
         Echo!WriteRefund, P!WriteRefund, Echo!ServerQuiet, P!ServerQuiet, Echo!Quiet, P!Quiet,
         Echo!ChargeUser, P!ChargeUser, Echo!InsertTask, P!InsertTask, Echo!WriteCharge, P!WriteCharge,
         Echo!RefuseTask, P!RefuseTask, Echo!PublishTask, P!PublishTask,
         Echo!FailUnpublished, P!FailUnpublished, Echo!RefundUnpublished, P!RefundUnpublished,
         Echo!MarkProcessing, P!MarkProcessing, Echo!TakeJob, P!TakeJob, Echo!Outcomes, P!Outcomes,
         Echo!Texts, P!Texts, Echo!ResultOf, P!ResultOf, Echo!FinishJob, P!FinishJob,
         Echo!RedeliverJob, P!RedeliverJob, Echo!WorkerDies, P!WorkerDies, Echo!FailTask, P!FailTask,
         Echo!FailRefund, P!FailRefund, Echo!FailZero, P!FailZero, Echo!TakeResult, P!TakeResult,
         Echo!RedeliverResult, P!RedeliverResult, Echo!RotateKey, P!RotateKey, Echo!SkipKey, P!SkipKey,
         Echo!Republish, P!Republish, Echo!FailedResultArrives, P!FailedResultArrives,
         Echo!RetryRefund, P!RetryRefund, Echo!RetryZero, P!RetryZero, Echo!RetryCharge, P!RetryCharge,
         Echo!RetryWrite, P!RetryWrite, Echo!RetryUpdate, P!RetryUpdate, Echo!RetryPublish, P!RetryPublish,
         Echo!FlushBatch, P!FlushBatch, Echo!Row, P!Row, Echo!ReadRow, P!ReadRow,
         Echo!CleanStaleTask, P!CleanStaleTask, Echo!PollTask, P!PollTask,
         Echo!PublishFailedResult, P!PublishFailedResult, Echo!PollAged, P!PollAged,
         Echo!PollNothing, P!PollNothing, Echo!PollDone, P!PollDone, Echo!PollFailed, P!PollFailed,
         Echo!UpstreamEnds, P!UpstreamEnds, Echo!GrowOld, P!GrowOld, Echo!ServerDies, P!ServerDies,
         Echo!CreateTask, P!CreateTask, Echo!failTaskDB, P!failTaskDB, Echo!handleResult, P!handleResult,
         Echo!PollOne, P!PollOne, Echo!Next, P!Next, Echo!(+), P!(+), Echo!(-), P!(-),
         Echo!BagToSet, P!BagToSet, Echo!SetToBag, P!SetToBag, Echo!EmptyBag, P!EmptyBag,
         Echo!Cardinality, P!Cardinality, Echo!BagCardinality, P!BagCardinality

\* and mean the same ledger.
LEMMA SameMatch == Echo!RefundsMatchCharges <=> P!RefundsMatchCharges
  BY DEF Echo!RefundsMatchCharges, P!RefundsMatchCharges, Echo!RefundsOf, P!RefundsOf, Echo!Reason, P!Reason,
         Echo!Attempt, P!Attempt, Echo!Cardinality, P!Cardinality

\* What stutters here stutters there.
LEMMA SameStutter == UNCHANGED vars => UNCHANGED P!vars
  BY DEF vars, rowVars, ledgerVars, queueVars, workerVars, procVars,
         P!vars, P!rowVars, P!ledgerVars, P!queueVars, P!workerVars, P!procVars

-----------------------------------------------------------------------------
(***************************************************************************)
(* The instance is one the theorems speak of.                              *)
(***************************************************************************)

\* Its constants are.
LEMMA EchoAssumption == P!TaskAssumption
<1>1. IsFiniteSet({h1, h2})
  <2>1. IsFiniteSet({h1}) /\ IsFiniteSet({h2})
    BY FS_Singleton
  <2>2. IsFiniteSet({h1} \cup {h2})
    BY <2>1, FS_Union
  <2>3. {h1} \cup {h2} = {h1, h2}
    OBVIOUS
  <2> QED
    BY <2>2, <2>3
<1>2. P!IsFiniteSet({h1, h2})
  BY <1>1 DEF IsFiniteSet, P!IsFiniteSet
<1> QED
  BY <1>2, HandlersAreOthers DEF P!TaskAssumption, P!Attempt

\* One fault, one key, and the last channel only is polled.
LEMMA EchoEchoes == P!Echoes
  BY DEF P!Echoes, P!Calm, P!OnlyLastPolled, P!Attempt

-----------------------------------------------------------------------------
(***************************************************************************)
(* The property.                                                           *)
(***************************************************************************)

\* The invariant of TaskEchoProofs, while the weather is this one.
RacesInv == weather = "echo" => P!EchoInv

\* No attempt is refunded that was not charged, and none is refunded twice, when
\* two handlers meet on a job or a result that came twice, or on a refused publish:
\* what the comment of failTaskDB (taskresult/handler.go) calls "idempotent".
THEOREM RacesRefundsMatch == RacesSpec => []RefundsMatchChargesInEcho
<1>1. RacesInit => RacesInv
  BY SameInit, EchoAssumption, P!InitEcho DEF RacesInit, RacesInv
<1>2. RacesInv /\ [RacesNext]_<<weather, vars>> => RacesInv'
  <2>1. SUFFICES ASSUME RacesInv, [RacesNext]_<<weather, vars>>, weather' = "echo"
                 PROVE  P!EchoInv'
    BY DEF RacesInv
  <2>2. weather = "echo"
    BY <2>1 DEF RacesNext
  <2>3. P!EchoInv
    BY <2>1, <2>2 DEF RacesInv
  <2>4. [P!Next]_P!vars
    <3>1. CASE RacesNext
      BY <2>2, <3>1, SameNext DEF RacesNext
    <3>2. CASE UNCHANGED <<weather, vars>>
      BY <3>2, SameStutter
    <3> QED
      BY <2>1, <3>1, <3>2
  <2> QED
    BY <2>3, <2>4, EchoAssumption, EchoEchoes, P!EchoInvSteps
<1>3. RacesInv => RefundsMatchChargesInEcho
  <2>1. P!EchoInv => P!TaskTypes /\ P!RefundedOnceEach
    BY DEF P!EchoInv, P!EchoedTypes
  <2> QED
    BY <2>1, SameMatch, EchoAssumption, P!OnceEachMatches DEF RacesInv, RefundsMatchChargesInEcho
<1> QED
  BY <1>1, <1>2, <1>3, PTL DEF RacesSpec
=============================================================================
