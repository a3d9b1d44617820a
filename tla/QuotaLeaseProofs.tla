-------------------------- MODULE QuotaLeaseProofs --------------------------
(***************************************************************************)
(* Theorems about QuotaLease, for every value of its constants: type       *)
(* correctness, conservation of credits in PostgreSQL, one refund per      *)
(* charge, and the implementation of CreditLedger.  And about a user whose  *)
(* requests come one at a time: without faults, and for any requests,       *)
(* costs, leases, expiries, recharges and adjustments, the Redis bucket and *)
(* the lease rows agree.                                                   *)
(***************************************************************************)
EXTENDS QuotaLease, TotalsProofs

-----------------------------------------------------------------------------
(***************************************************************************)
(* Type correctness.                                                       *)
(***************************************************************************)

\* A request is about to reserve only when the quota it read is short, so the
\* gap it reserves is positive.
ReserveGap == \A r \in Req : pc[r] = "reserve" => seen[r] < credits(r)

TypeInv == TypeOK /\ ReserveGap

USE DEF Lease, Reclaimable, Forever

\* A fault needs a budget.
LEMMA RepliesType ==
    ASSUME TypeOK, NEW store, NEW reply \in Replies(store)
    PROVE  /\ reply \in {"ok", "refused", "lost"}
           /\ reply # "ok" => budget > 0
BY DEF Replies, TypeOK

\* A reply leaves the budget of faults in range.
LEMMA AnswerType ==
    ASSUME TypeOK, NEW store, NEW reply \in Replies(store), Answer(reply)
    PROVE  budget' \in 0..MaxFaults
<1>1. reply # "ok" => budget > 0
  BY RepliesType
<1> QED
  BY <1>1, ConstantsAssumption DEF Answer, TypeOK

\* The cost of a request is a positive number.
LEMMA CreditsType ==
    ASSUME NEW r \in Req
    PROVE  KeyOf[r] \in Key /\ credits(r) \in Nat /\ credits(r) > 0
BY ConstantsAssumption DEF credits

\* What the PostgreSQL variables of a lease look like.
LeaseType ==
    /\ balance \in Nat
    /\ active \subseteq Lease
    /\ rem \in [Lease -> Nat]
    /\ \A l \in Lease \ active : rem[l] = 0
    /\ ttl \in [Lease -> Reclaimable..TTL]

RedisType == bucket \in Nat /\ keyTTL \in 0..Forever /\ verTTL \in 0..TTL

\* The rows of a user are finitely many.
LEMMA LeaseFinite == IsFiniteSet(Lease) /\ \A S \in SUBSET Lease : IsFiniteSet(S)
<1>1. IsFiniteSet(Lease)
  BY FS_Interval, ConstantsAssumption
<1> QED
  BY <1>1, FS_Subset

\* A sum of lease rows is a number.
LEMMA RemTotalType ==
    ASSUME LeaseType, NEW S \in SUBSET Lease
    PROVE  Total(rem, S) \in Nat
BY LeaseFinite, TotalType DEF LeaseType

\* GiveBack keeps the types of the lease rows and of the balance.
LEMMA GiveBackType ==
    ASSUME LeaseType, NEW S \in SUBSET active, GiveBack(S)
    PROVE  LeaseType'
<1>1. Total(rem, S) \in Nat
  BY RemTotalType DEF LeaseType
<1>2. balance' \in Nat /\ active' \subseteq Lease
  BY <1>1 DEF GiveBack, LeaseType
<1>3. rem' \in [Lease -> Nat] /\ \A l \in Lease \ active' : rem'[l] = 0
  BY DEF GiveBack, LeaseType
<1>4. ttl' \in [Lease -> Reclaimable..TTL]
  BY ConstantsAssumption DEF GiveBack, LeaseType
<1> QED
  BY <1>2, <1>3, <1>4 DEF LeaseType

\* AddToLease keeps the types of the lease rows.
LEMMA AddToLeaseType ==
    ASSUME LeaseType, NEW n \in Nat, NEW S \in SUBSET active, AddToLease(n, S),
           balance' \in Nat
    PROVE  LeaseType'
<1>1. PICK l \in Lease : /\ active' = active \cup {l}
                         /\ rem' = [rem EXCEPT ![l] = @ + n]
                         /\ ttl' = [ttl EXCEPT ![l] = TTL]
  BY DEF AddToLease
<1>2. TTL \in Reclaimable..TTL
  BY ConstantsAssumption
<1> QED
  BY <1>1, <1>2 DEF LeaseType

\* The Redis building blocks keep the bucket and the expiries in range.
LEMMA RedisTypes ==
    ASSUME RedisType
    PROVE  /\ clearQuotaCache => RedisType'
           /\ \A n \in Nat : IncrBy(n) => RedisType'
           /\ markAndExpire => RedisType'
           /\ UNCHANGED redisVars => RedisType'
BY ConstantsAssumption
   DEF RedisType, clearQuotaCache, IncrBy, markAndExpire, KeyExists, redisVars


RowType ==
    /\ charges \in [Key -> Nat]
    /\ refunds \in [Key -> Nat]
    /\ job \in [Key -> BOOLEAN]
    /\ deposited \in Int

LocalType ==
    /\ pc \in [Req -> Resting \cup Working]
    /\ op \in [Req -> {"charge", "refund"}]
    /\ stage \in [Req -> Stage]
    /\ seen \in [Req -> Nat]
    /\ until \in [Req -> Reclaimable..TTL]
    /\ late \in [Req -> BOOLEAN]
    /\ ReserveGap

\* TypeOK and ReserveGap, variable by variable.
LEMMA TypeParts ==
    TypeInv <=> /\ LeaseType /\ RowType /\ RedisType /\ LocalType
                /\ reaper \in BOOLEAN /\ budget \in 0..MaxFaults
BY DEF TypeInv, TypeOK, LeaseType, RowType, RedisType, LocalType

\* The same, of the next state.
LEMMA TypePartsNext ==
    TypeInv' <=> /\ LeaseType' /\ RowType' /\ RedisType' /\ LocalType'
                 /\ reaper' \in BOOLEAN /\ budget' \in 0..MaxFaults
BY DEF TypeInv, TypeOK, LeaseType, RowType, RedisType, LocalType

\* What a step leaves alone keeps its type.
LEMMA Unchanged ==
    ASSUME TypeInv
    PROVE  /\ UNCHANGED leaseVars => LeaseType'
           /\ UNCHANGED rowVars => RowType'
           /\ UNCHANGED redisVars => RedisType'
           /\ UNCHANGED <<pc, localVars>> => LocalType'
BY DEF TypeInv, TypeOK, LeaseType, RowType, RedisType, LocalType, ReserveGap,
       credits, leaseVars, rowVars, redisVars, localVars

\* Where quotaRemaining and the failures of the calls lead.
LEMMA AfterType ==
    ASSUME TypeInv, NEW r \in Req, NEW n \in Nat
    PROVE  /\ AfterRemaining(r, n) \in Working \cup Terminal
           /\ AfterRemaining(r, n) = "reserve" => n < credits(r)
           /\ AfterError(r) \in Terminal
           /\ Ended(r) \in Terminal
           /\ preAppliedFailure(r) \in {"compRead", "enqueue"}
BY CreditsType
   DEF AfterRemaining, AfterError, Ended, preAppliedFailure, Working, Terminal

\* A request moves to a place that is not "reserve" and keeps what it read.
LEMMA GotoType ==
    ASSUME TypeInv, NEW r \in Req, NEW next \in Working \cup Resting,
           next # "reserve", Goto(r, next), UNCHANGED localVars
    PROVE  LocalType'
BY DEF TypeInv, TypeOK, LocalType, ReserveGap, Goto, credits, localVars

\* A request moves, and goes to "reserve" only with a quota below its cost.
LEMMA MoveType ==
    ASSUME TypeInv, NEW r \in Req, NEW next \in Working \cup Resting,
           pc' = [pc EXCEPT ![r] = next],
           seen' \in [Req -> Nat], \A q \in Req \ {r} : seen'[q] = seen[q],
           next = "reserve" => seen'[r] < credits(r),
           op' = op, stage' \in [Req -> Stage],
           until' \in [Req -> Reclaimable..TTL], late' \in [Req -> BOOLEAN]
    PROVE  LocalType'
<1>1. /\ pc \in [Req -> Resting \cup Working] /\ op \in [Req -> {"charge", "refund"}]
      /\ \A q \in Req : pc[q] = "reserve" => seen[q] < credits(q)
  BY DEF TypeInv, TypeOK, ReserveGap
<1>2. pc' \in [Req -> Resting \cup Working]
  BY <1>1
<1>3. \A q \in Req : pc'[q] = "reserve" => seen'[q] < credits(q)
  <2>1. pc'[r] = next /\ \A q \in Req \ {r} : pc'[q] = pc[q]
    BY <1>1
  <2> QED
    BY <1>1, <2>1
<1> QED
  BY <1>1, <1>2, <1>3 DEF LocalType, ReserveGap, credits

\* The same, when nothing is read.
LEMMA StayType ==
    ASSUME TypeInv, NEW r \in Req, NEW next \in Working \cup Resting,
           next # "reserve", pc' = [pc EXCEPT ![r] = next],
           UNCHANGED <<op, seen, until>>,
           stage' \in [Req -> Stage], late' \in [Req -> BOOLEAN]
    PROVE  LocalType'
<1>1. seen' \in [Req -> Nat] /\ until' \in [Req -> Reclaimable..TTL]
  BY DEF TypeInv, TypeOK
<1> QED
  BY <1>1, MoveType

\* A fault lowers the budget, any other step keeps it.
LEMMA BudgetType ==
    ASSUME TypeInv, UNCHANGED reaper,
           budget' = budget \/ (budget > 0 /\ budget' = budget - 1)
    PROVE  reaper' \in BOOLEAN /\ budget' \in 0..MaxFaults
BY ConstantsAssumption DEF TypeInv, TypeOK

\* Every step keeps the types of the variables.
LEMMA TypeStep ==
    ASSUME TypeInv, [Next]_vars
    PROVE  TypeInv'
<1>1. ASSUME NEW r \in Req, StartCharge(r) PROVE TypeInv'
  <2> USE <1>1
  <2>1. LocalType'
    BY GotoType DEF StartCharge, Working
  <2>2. LeaseType' /\ RowType' /\ RedisType'
    BY Unchanged DEF StartCharge, dbVars, localVars
  <2>3. reaper' \in BOOLEAN /\ budget' \in 0..MaxFaults
    BY DEF StartCharge, TypeInv, TypeOK
  <2> QED
    BY <2>1, <2>2, <2>3, TypePartsNext
<1>2. ASSUME NEW r \in Req, KeepCharge(r) PROVE TypeInv'
  <2> USE <1>2
  <2>1. LocalType'
    BY GotoType DEF KeepCharge, Resting, Terminal
  <2>2. LeaseType' /\ RowType' /\ RedisType'
    BY Unchanged DEF KeepCharge, dbVars, localVars
  <2>3. reaper' \in BOOLEAN /\ budget' \in 0..MaxFaults
    BY DEF KeepCharge, TypeInv, TypeOK
  <2> QED
    BY <2>1, <2>2, <2>3, TypePartsNext
<1>3. ASSUME NEW r \in Req, StartRefund(r) PROVE TypeInv'
  <2> USE <1>3
  <2>1. LocalType'
    BY DEF StartRefund, Goto, TypeInv, TypeOK, LocalType, ReserveGap, credits, Working, Stage
  <2>2. LeaseType' /\ RowType' /\ RedisType'
    BY Unchanged DEF StartRefund, dbVars, localVars
  <2>3. reaper' \in BOOLEAN /\ budget' \in 0..MaxFaults
    BY DEF StartRefund, TypeInv, TypeOK
  <2> QED
    BY <2>1, <2>2, <2>3, TypePartsNext
<1>4. ASSUME NEW r \in Req, ReclaimForUser(r) PROVE TypeInv'
  <2> USE <1>4
  <2>1. LeaseType'
    <3>1. CASE UNCHANGED leaseVars
      BY <3>1, Unchanged
    <3>2. CASE GiveBack({l \in active : ttl[l] = Reclaimable})
      BY <3>2, GiveBackType, TypeParts
    <3> QED
      BY <3>1, <3>2 DEF ReclaimForUser
  <2>2. LocalType'
    BY GotoType DEF ReclaimForUser, Working
  <2>3. RowType' /\ RedisType'
    BY Unchanged DEF ReclaimForUser, dbVars, localVars
  <2>4. reaper' \in BOOLEAN /\ budget' \in 0..MaxFaults
    BY AnswerType DEF ReclaimForUser, TypeInv, TypeOK
  <2> QED
    BY <2>1, <2>2, <2>3, <2>4, TypePartsNext
<1>5. ASSUME NEW r \in Req, ClearAfterReclaim(r) PROVE TypeInv'
  <2> USE <1>5
  <2>1. RedisType'
    BY RedisTypes, TypeParts DEF ClearAfterReclaim
  <2>2. LocalType'
    BY GotoType DEF ClearAfterReclaim, Working
  <2>3. LeaseType' /\ RowType'
    BY Unchanged DEF ClearAfterReclaim, dbVars, localVars
  <2>4. reaper' \in BOOLEAN /\ budget' \in 0..MaxFaults
    BY AnswerType DEF ClearAfterReclaim, TypeInv, TypeOK
  <2> QED
    BY <2>1, <2>2, <2>3, <2>4, TypePartsNext
<1>6. ASSUME NEW r \in Req, QuotaRemaining(r) PROVE TypeInv'
  <2> USE <1>6
  <2>1. LocalType'
    <3>1. bucket \in Nat
      BY DEF TypeInv, TypeOK
    <3>2. AfterRemaining(r, bucket) \in Working \cup Terminal
      BY <3>1, AfterType
    <3>3. AfterRemaining(r, bucket) = "reserve" => bucket < credits(r)
      BY <3>1, AfterType
    <3>4. PICK n \in {bucket, seen[r]} :
             /\ seen' = [seen EXCEPT ![r] = n]
             /\ \E next \in {"failed", "syncRead", AfterRemaining(r, bucket)} :
                   /\ pc' = [pc EXCEPT ![r] = next]
                   /\ next \in {"failed", "syncRead"} \/ n = bucket
      BY DEF QuotaRemaining, Goto, Read, TypeInv, TypeOK
    <3>5. seen' \in [Req -> Nat] /\ seen'[r] = n /\ \A q \in Req \ {r} : seen'[q] = seen[q]
      BY <3>1, <3>4 DEF TypeInv, TypeOK
    <3>6. /\ op' = op /\ stage' \in [Req -> Stage]
          /\ until' \in [Req -> Reclaimable..TTL] /\ late' \in [Req -> BOOLEAN]
      BY DEF QuotaRemaining, TypeInv, TypeOK
    <3>7. /\ "failed" \in Working \cup Resting /\ "syncRead" \in Working \cup Resting
          /\ AfterRemaining(r, bucket) \in Working \cup Resting
      BY <3>2 DEF Working, Resting, Terminal
    <3> QED
      BY <3>3, <3>4, <3>5, <3>6, <3>7, MoveType
  <2>2. LeaseType' /\ RowType' /\ RedisType'
    BY Unchanged DEF QuotaRemaining, dbVars, localVars
  <2>3. reaper' \in BOOLEAN /\ budget' \in 0..MaxFaults
    BY AnswerType DEF QuotaRemaining, TypeInv, TypeOK
  <2> QED
    BY <2>1, <2>2, <2>3, TypePartsNext
<1>7. ASSUME NEW r \in Req, SyncRead(r) PROVE TypeInv'
  <2> USE <1>7
  <2>1. LocalType'
    <3>1. LiveTotal \in Nat
      BY RemTotalType, TypeParts DEF LiveTotal, Live, LeaseType
    <3>2. Live \subseteq Lease
      BY DEF Live, TypeInv, TypeOK
    <3>3. until' \in [Req -> Reclaimable..TTL]
      <4>1. until' = until \/ \E l \in Live : until' = [until EXCEPT ![r] = ttl[l]]
        BY DEF SyncRead
      <4>2. until \in [Req -> Reclaimable..TTL] /\ ttl \in [Lease -> Reclaimable..TTL]
        BY DEF TypeInv, TypeOK
      <4> QED
        BY <3>2, <4>1, <4>2
    <3>4. AfterError(r) \in Terminal /\ AfterError(r) # "reserve"
      BY AfterType DEF Terminal
    <3>5. seen' = seen \/ seen' = [seen EXCEPT ![r] = LiveTotal]
      BY DEF SyncRead, Read
    <3>6. seen' \in [Req -> Nat] /\ \A q \in Req \ {r} : seen'[q] = seen[q]
      BY <3>1, <3>5 DEF TypeInv, TypeOK
    <3>7. \E next \in {"syncSet", AfterError(r)} : pc' = [pc EXCEPT ![r] = next]
      BY DEF SyncRead, Goto
    <3>8. /\ "syncSet" \in Working \cup Resting /\ AfterError(r) \in Working \cup Resting
      BY <3>4 DEF Working, Resting
    <3>9. op' = op /\ stage' \in [Req -> Stage] /\ late' \in [Req -> BOOLEAN]
      BY DEF SyncRead, TypeInv, TypeOK
    <3> QED
      BY <3>3, <3>4, <3>6, <3>7, <3>8, <3>9, MoveType
  <2>2. LeaseType' /\ RowType' /\ RedisType'
    BY Unchanged DEF SyncRead, dbVars, localVars
  <2>3. reaper' \in BOOLEAN /\ budget' \in 0..MaxFaults
    BY BudgetType DEF SyncRead
  <2> QED
    BY <2>1, <2>2, <2>3, TypePartsNext
<1>8. ASSUME NEW r \in Req, SyncSet(r) PROVE TypeInv'
  <2> USE <1>8
  <2>1. RedisType'
    <3> DEFINE usable == seen[r] > 0 /\ until[r] + Grace > 0
    <3>1. usable => quotaTTL(r) \in 1..TTL
      BY ConstantsAssumption DEF quotaTTL, TypeInv, TypeOK
    <3>2. \/ UNCHANGED redisVars \/ clearQuotaCache
          \/ usable /\ bucket' = seen[r] /\ keyTTL' = quotaTTL(r) /\ verTTL' = quotaTTL(r)
      BY DEF SyncSet
    <3>3. seen[r] \in Nat
      BY DEF TypeInv, TypeOK
    <3> QED
      BY <3>1, <3>2, <3>3, RedisTypes, TypeParts, ConstantsAssumption DEF RedisType
  <2>2. LocalType'
    <3>1. PICK n \in Nat : seen' = [seen EXCEPT ![r] = n]
      BY DEF SyncSet, Read, TypeInv, TypeOK
    <3>2. seen'[r] = n
      BY <3>1 DEF TypeInv, TypeOK
    <3>3. /\ AfterRemaining(r, n) \in Working \cup Terminal
          /\ AfterRemaining(r, n) = "reserve" => n < credits(r)
          /\ AfterError(r) \in Terminal /\ AfterError(r) # "reserve"
      BY AfterType DEF Terminal
    <3>4. PICK next \in {AfterRemaining(r, n), AfterError(r)} : pc' = [pc EXCEPT ![r] = next]
      BY <3>2 DEF SyncSet, Goto
    <3>5. pc' \in [Req -> Resting \cup Working]
      BY <3>3, <3>4 DEF TypeInv, TypeOK, Resting
    <3>6. ReserveGap'
      BY <3>1, <3>3, <3>4 DEF TypeInv, TypeOK, ReserveGap, credits
    <3>7. stage' \in [Req -> Stage]
      BY DEF SyncSet, TypeInv, TypeOK, Stage
    <3>8. until' \in [Req -> Reclaimable..TTL]
      <4>1. 0 \in Reclaimable..TTL
        BY ConstantsAssumption
      <4>2. until' = [until EXCEPT ![r] = 0]
        BY DEF SyncSet
      <4> QED
        BY <4>1, <4>2 DEF TypeInv, TypeOK
    <3>9. seen' \in [Req -> Nat] /\ UNCHANGED <<op, late>>
      BY <3>1 DEF SyncSet, TypeInv, TypeOK
    <3> QED
      BY <3>5, <3>6, <3>7, <3>8, <3>9 DEF TypeInv, TypeOK, LocalType
  <2>3. LeaseType' /\ RowType'
    BY Unchanged DEF SyncSet, dbVars, localVars
  <2>4. reaper' \in BOOLEAN /\ budget' \in 0..MaxFaults
    BY AnswerType DEF SyncSet, TypeInv, TypeOK
  <2> QED
    BY <2>1, <2>2, <2>3, <2>4, TypePartsNext
<1>9. ASSUME NEW r \in Req, ReserveQuota(r) PROVE TypeInv'
  <2> USE <1>9
  <2>1. LeaseType'
    <3> DEFINE needed == quotaReserveNeeded(r)
    <3>1. needed \in Nat
      BY CreditsType DEF ReserveQuota, quotaReserveNeeded, TypeInv, TypeOK, ReserveGap
    <3>2. \/ UNCHANGED leaseVars
          \/ balance >= needed /\ balance' = balance - needed /\ AddToLease(needed, Live)
      BY DEF ReserveQuota
    <3>3. Live \in SUBSET active
      BY DEF Live
    <3>4. balance \in Nat
      BY DEF TypeInv, TypeOK
    <3> QED
      BY <3>1, <3>2, <3>3, <3>4, AddToLeaseType, Unchanged, TypeParts
  <2>2. LocalType'
    <3>1. quotaReserveNeeded(r) \in Nat
      BY CreditsType DEF ReserveQuota, quotaReserveNeeded, TypeInv, TypeOK, ReserveGap
    <3>2. \E next \in {"refused", "incr", "failed"} : pc' = [pc EXCEPT ![r] = next]
      BY DEF ReserveQuota, Goto
    <3>3. seen' = seen \/ seen' = [seen EXCEPT ![r] = quotaReserveNeeded(r)]
      BY DEF ReserveQuota, Read
    <3>4. UNCHANGED <<op, stage, until, late>>
      BY DEF ReserveQuota
    <3>5. seen' \in [Req -> Nat] /\ \A q \in Req \ {r} : seen'[q] = seen[q]
      BY <3>1, <3>3 DEF TypeInv, TypeOK
    <3>6. /\ stage' \in [Req -> Stage] /\ until' \in [Req -> Reclaimable..TTL]
          /\ late' \in [Req -> BOOLEAN]
      BY <3>4 DEF TypeInv, TypeOK
    <3>7. {"refused", "incr", "failed"} \subseteq Working \cup Resting
      BY DEF Working, Resting, Terminal
    <3> QED
      BY <3>2, <3>4, <3>5, <3>6, <3>7, MoveType
  <2>3. RowType' /\ RedisType'
    BY Unchanged DEF ReserveQuota, dbVars, localVars
  <2>4. reaper' \in BOOLEAN /\ budget' \in 0..MaxFaults
    BY AnswerType, ConstantsAssumption DEF ReserveQuota, TypeInv, TypeOK
  <2> QED
    BY <2>1, <2>2, <2>3, <2>4, TypePartsNext
<1>10. ASSUME NEW r \in Req, IncrReserve(r) PROVE TypeInv'
  <2> USE <1>10
  <2>1. RedisType'
    <3>1. seen[r] \in Nat
      BY DEF TypeInv, TypeOK
    <3> QED
      BY <3>1, RedisTypes, TypeParts DEF IncrReserve
  <2>2. LocalType'
    BY GotoType DEF IncrReserve, Working
  <2>3. LeaseType' /\ RowType'
    BY Unchanged DEF IncrReserve, dbVars, localVars
  <2>4. reaper' \in BOOLEAN /\ budget' \in 0..MaxFaults
    BY AnswerType DEF IncrReserve, TypeInv, TypeOK
  <2> QED
    BY <2>1, <2>2, <2>3, <2>4, TypePartsNext
<1>11. ASSUME NEW r \in Req, ReleaseReservedQuota(r) PROVE TypeInv'
  <2> USE <1>11
  <2>1. LeaseType'
    <3>1. CASE UNCHANGED leaseVars
      BY <3>1, Unchanged
    <3>2. ASSUME NEW l \in active,
                 balance' = balance + Releasable(l, seen[r]),
                 rem' = [rem EXCEPT ![l] = @ - Releasable(l, seen[r])],
                 UNCHANGED <<active, ttl>>
          PROVE  LeaseType'
      <4>1. Releasable(l, seen[r]) \in 0..rem[l]
        <5>1. l \in Lease /\ rem[l] \in Nat /\ seen[r] \in Nat
          BY DEF TypeInv, TypeOK
        <5> QED
          BY <5>1 DEF Releasable
      <4> QED
        BY <3>2, <4>1, TypeParts DEF LeaseType
    <3> QED
      BY <3>1, <3>2 DEF ReleaseReservedQuota, leaseVars
  <2>2. LocalType'
    BY GotoType DEF ReleaseReservedQuota, Resting, Terminal
  <2>3. RowType' /\ RedisType'
    BY Unchanged DEF ReleaseReservedQuota, dbVars, localVars
  <2>4. reaper' \in BOOLEAN /\ budget' \in 0..MaxFaults
    BY BudgetType DEF ReleaseReservedQuota
  <2> QED
    BY <2>1, <2>2, <2>3, <2>4, TypePartsNext
<1>12. ASSUME NEW r \in Req, MarkReserve(r) PROVE TypeInv'
  <2> USE <1>12
  <2>1. RedisType'
    BY RedisTypes, TypeParts DEF MarkReserve
  <2>2. LocalType'
    BY GotoType DEF MarkReserve, Working
  <2>3. LeaseType' /\ RowType'
    BY Unchanged DEF MarkReserve, dbVars, localVars
  <2>4. reaper' \in BOOLEAN /\ budget' \in 0..MaxFaults
    BY AnswerType DEF MarkReserve, TypeInv, TypeOK
  <2> QED
    BY <2>1, <2>2, <2>3, <2>4, TypePartsNext
<1>13. ASSUME NEW r \in Req, LuaCharge(r) PROVE TypeInv'
  <2> USE <1>13
  <2>1. RedisType'
    <3>1. \/ UNCHANGED redisVars
          \/ bucket >= credits(r) /\ bucket' = bucket - credits(r) /\ UNCHANGED <<keyTTL, verTTL>>
      BY DEF LuaCharge
    <3> QED
      BY <3>1, CreditsType, Unchanged, TypeParts DEF RedisType
  <2>2. LocalType'
    <3>1. \E next \in {"failed", "refused", "markCharge", "syncRead", "read"} :
             pc' = [pc EXCEPT ![r] = next]
      BY DEF LuaCharge, Goto
    <3>2. stage' \in [Req -> Stage]
      BY DEF LuaCharge, Stage, TypeInv, TypeOK
    <3>3. UNCHANGED <<op, seen, until, late>>
      BY DEF LuaCharge
    <3>4. {"failed", "refused", "markCharge", "syncRead", "read"} \subseteq Working \cup Resting
      BY DEF Working, Resting, Terminal
    <3>5. late' \in [Req -> BOOLEAN]
      BY <3>3 DEF TypeInv, TypeOK
    <3> QED
      BY <3>1, <3>2, <3>3, <3>4, <3>5, StayType
  <2>3. LeaseType' /\ RowType'
    BY Unchanged DEF LuaCharge, dbVars, localVars
  <2>4. reaper' \in BOOLEAN /\ budget' \in 0..MaxFaults
    BY AnswerType DEF LuaCharge, TypeInv, TypeOK
  <2> QED
    BY <2>1, <2>2, <2>3, <2>4, TypePartsNext
<1>14. ASSUME NEW r \in Req, MarkCharge(r) PROVE TypeInv'
  <2> USE <1>14
  <2>1. RedisType'
    BY RedisTypes, TypeParts DEF MarkCharge
  <2>2. LocalType'
    BY GotoType DEF MarkCharge, Working
  <2>3. LeaseType' /\ RowType'
    BY Unchanged DEF MarkCharge, dbVars, localVars
  <2>4. reaper' \in BOOLEAN /\ budget' \in 0..MaxFaults
    BY AnswerType DEF MarkCharge, TypeInv, TypeOK
  <2> QED
    BY <2>1, <2>2, <2>3, <2>4, TypePartsNext
<1>15. ASSUME NEW r \in Req, BeginTx(r) PROVE TypeInv'
  <2> USE <1>15
  <2>1. LocalType'
    BY GotoType, AfterType DEF BeginTx, Working
  <2>2. LeaseType' /\ RowType' /\ RedisType'
    BY Unchanged DEF BeginTx, dbVars, localVars
  <2>3. reaper' \in BOOLEAN /\ budget' \in 0..MaxFaults
    BY BudgetType DEF BeginTx
  <2> QED
    BY <2>1, <2>2, <2>3, TypePartsNext
<1>16. ASSUME NEW r \in Req, CommitCharge(r) PROVE TypeInv'
  <2> USE <1>16
  <2>1. LeaseType'
    <3> DEFINE S == {l \in Visible(r) : rem[l] > 0}
    <3>1. CASE UNCHANGED leaseVars
      BY <3>1, Unchanged
    <3>2. ASSUME NEW d \in DebitPlans(S, credits(r)),
                 rem' = [l \in Lease |-> IF l \in S THEN rem[l] - d[l] ELSE rem[l]],
                 ttl' = [l \in Lease |-> IF l \in S /\ d[l] > 0 THEN TTL ELSE ttl[l]],
                 UNCHANGED <<balance, active>>
          PROVE  LeaseType'
      <4>1. \A l \in S : l \in active /\ d[l] \in Nat /\ d[l] <= rem[l]
        BY CreditsType DEF DebitPlans, Visible
      <4>2. rem' \in [Lease -> Nat] /\ \A l \in Lease \ active' : rem'[l] = 0
        BY <3>2, <4>1, TypeParts DEF LeaseType
      <4>3. ttl' \in [Lease -> Reclaimable..TTL]
        BY <3>2, TypeParts, ConstantsAssumption DEF LeaseType
      <4> QED
        BY <3>2, <4>2, <4>3, TypeParts DEF LeaseType
    <3> QED
      BY <3>1, <3>2 DEF CommitCharge, leaseVars
  <2>2. RowType'
    <3>1. charges' = charges \/ charges' = [charges EXCEPT ![KeyOf[r]] = @ + 1]
      BY DEF CommitCharge
    <3>2. UNCHANGED <<refunds, job, deposited>>
      BY DEF CommitCharge
    <3>3. charges' \in [Key -> Nat]
      <4>1. charges \in [Key -> Nat] /\ KeyOf[r] \in Key
        BY CreditsType DEF TypeInv, TypeOK
      <4> QED
        BY <3>1, <4>1
    <3> QED
      BY <3>2, <3>3 DEF RowType, TypeInv, TypeOK
  <2>3. LocalType'
    <3>1. \E next \in {"charged", "failed", preAppliedFailure(r)} : pc' = [pc EXCEPT ![r] = next]
      BY DEF CommitCharge, AfterTx, Goto
    <3>2. preAppliedFailure(r) \in {"compRead", "enqueue"}
      BY DEF preAppliedFailure
    <3>3. late' \in [Req -> BOOLEAN] /\ UNCHANGED <<op, stage, seen, until>>
      BY DEF CommitCharge, TypeInv, TypeOK
    <3>4. {"charged", "failed", "compRead", "enqueue"} \subseteq Working \cup Resting
      BY DEF Working, Resting, Terminal
    <3>5. stage' \in [Req -> Stage]
      BY <3>3 DEF TypeInv, TypeOK
    <3> QED
      BY <3>1, <3>2, <3>3, <3>4, <3>5, StayType
  <2>4. RedisType'
    BY Unchanged DEF CommitCharge, dbVars, localVars
  <2>5. reaper' \in BOOLEAN /\ budget' \in 0..MaxFaults
    BY AnswerType, ConstantsAssumption DEF CommitCharge, TypeInv, TypeOK
  <2> QED
    BY <2>1, <2>2, <2>3, <2>4, <2>5, TypePartsNext
<1>17. ASSUME NEW r \in Req, CommitRefund(r) PROVE TypeInv'
  <2> USE <1>17
  <2>1. LeaseType'
    <3>1. CASE UNCHANGED leaseVars
      BY <3>1, Unchanged
    <3>2. CASE AddToLease(credits(r), Visible(r)) /\ UNCHANGED balance
      <4>1. Visible(r) \in SUBSET active /\ balance' \in Nat
        BY <3>2 DEF Visible, TypeInv, TypeOK
      <4> QED
        BY <3>2, <4>1, CreditsType, AddToLeaseType, TypeParts
    <3> QED
      BY <3>1, <3>2 DEF CommitRefund
  <2>2. RowType'
    <3>1. refunds' = refunds \/ refunds' = [refunds EXCEPT ![KeyOf[r]] = @ + 1]
      BY DEF CommitRefund
    <3>2. UNCHANGED <<charges, job, deposited>>
      BY DEF CommitRefund
    <3>3. refunds' \in [Key -> Nat]
      <4>1. refunds \in [Key -> Nat] /\ KeyOf[r] \in Key
        BY CreditsType DEF TypeInv, TypeOK
      <4> QED
        BY <3>1, <4>1
    <3> QED
      BY <3>2, <3>3 DEF RowType, TypeInv, TypeOK
  <2>3. LocalType'
    <3>1. \E next \in {"done", "failed", "compRead", preAppliedFailure(r)} : Goto(r, next)
      BY DEF CommitRefund, AfterTx
    <3>2. late' \in [Req -> BOOLEAN] /\ UNCHANGED <<op, stage, seen, until>>
      BY DEF CommitRefund, TypeInv, TypeOK
    <3>3. preAppliedFailure(r) \in {"compRead", "enqueue"}
      BY AfterType
    <3>4. \E next \in {"done", "failed", "compRead", "enqueue"} :
             pc' = [pc EXCEPT ![r] = next]
      BY <3>1, <3>3 DEF Goto
    <3>5. {"done", "failed", "compRead", "enqueue"} \subseteq Working \cup Resting
      BY DEF Working, Resting, Terminal
    <3>6. stage' \in [Req -> Stage]
      BY <3>2 DEF TypeInv, TypeOK
    <3> QED
      BY <3>2, <3>4, <3>5, <3>6, StayType
  <2>4. RedisType'
    BY Unchanged DEF CommitRefund, dbVars, localVars
  <2>5. reaper' \in BOOLEAN /\ budget' \in 0..MaxFaults
    BY AnswerType, ConstantsAssumption DEF CommitRefund, TypeInv, TypeOK
  <2> QED
    BY <2>1, <2>2, <2>3, <2>4, <2>5, TypePartsNext
<1>18. ASSUME NEW r \in Req, EnqueueRefundJob(r) PROVE TypeInv'
  <2> USE <1>18
  <2>1. RowType'
    BY CreditsType DEF EnqueueRefundJob, RowType, TypeInv, TypeOK
  <2>2. LocalType'
    BY GotoType DEF EnqueueRefundJob, Working, Resting, Terminal
  <2>3. LeaseType' /\ RedisType'
    BY Unchanged DEF EnqueueRefundJob, dbVars, localVars
  <2>4. reaper' \in BOOLEAN /\ budget' \in 0..MaxFaults
    BY AnswerType DEF EnqueueRefundJob, TypeInv, TypeOK
  <2> QED
    BY <2>1, <2>2, <2>3, <2>4, TypePartsNext
<1>19. ASSUME NEW r \in Req, CompensateRead(r) PROVE TypeInv'
  <2> USE <1>19
  <2>1. LocalType'
    <3>1. \E next \in {Ended(r), "compApply", "syncRead"} : pc' = [pc EXCEPT ![r] = next]
      BY DEF CompensateRead, Goto
    <3>2. Ended(r) \in Terminal
      BY AfterType, TypeParts DEF RedisType
    <3>3. /\ {Ended(r), "compApply", "syncRead"} \subseteq Working \cup Resting
          /\ Ended(r) # "reserve"
      BY <3>2 DEF Working, Resting, Terminal
    <3>4. stage' \in [Req -> Stage] /\ late' \in [Req -> BOOLEAN] /\ UNCHANGED <<op, seen, until>>
      BY DEF CompensateRead, TypeInv, TypeOK, Stage
    <3> QED
      BY <3>1, <3>3, <3>4, StayType
  <2>2. LeaseType' /\ RowType' /\ RedisType'
    BY Unchanged DEF CompensateRead, dbVars, localVars
  <2>3. reaper' \in BOOLEAN /\ budget' \in 0..MaxFaults
    BY AnswerType DEF CompensateRead, TypeInv, TypeOK
  <2> QED
    BY <2>1, <2>2, <2>3, TypePartsNext
<1>20. ASSUME NEW r \in Req, CompensateApply(r) PROVE TypeInv'
  <2> USE <1>20
  <2>1. RedisType'
    <3>1. \/ UNCHANGED redisVars \/ IncrBy(credits(r))
          \/ bucket >= credits(r) /\ bucket' = bucket - credits(r) /\ UNCHANGED <<keyTTL, verTTL>>
      BY DEF CompensateApply, Replies, TypeInv, TypeOK
    <3> QED
      BY <3>1, CreditsType, RedisTypes, TypeParts DEF RedisType
  <2>2. LocalType'
    <3>1. Ended(r) \in Terminal
      BY AfterType, TypeParts DEF RedisType
    <3> QED
      BY <3>1, GotoType DEF CompensateApply, Working, Resting, Terminal
  <2>3. LeaseType' /\ RowType'
    BY Unchanged DEF CompensateApply, dbVars, localVars
  <2>4. reaper' \in BOOLEAN /\ budget' \in 0..MaxFaults
    BY AnswerType DEF CompensateApply, TypeInv, TypeOK
  <2> QED
    BY <2>1, <2>2, <2>3, <2>4, TypePartsNext
<1>21. ASSUME NEW r \in Req, CompensateMark(r) PROVE TypeInv'
  <2> USE <1>21
  <2>1. RedisType'
    BY RedisTypes, TypeParts DEF CompensateMark
  <2>2. LocalType'
    <3>1. Ended(r) \in Terminal
      BY AfterType, TypeParts DEF RedisType
    <3> QED
      BY <3>1, GotoType DEF CompensateMark, Resting, Terminal
  <2>3. LeaseType' /\ RowType'
    BY Unchanged DEF CompensateMark, dbVars, localVars
  <2>4. reaper' \in BOOLEAN /\ budget' \in 0..MaxFaults
    BY AnswerType DEF CompensateMark, TypeInv, TypeOK
  <2> QED
    BY <2>1, <2>2, <2>3, <2>4, TypePartsNext
<1>22. ASSUME NEW r \in Req, EnsureRefundQuotaLease(r) PROVE TypeInv'
  <2> USE <1>22
  <2>1. LeaseType'
    <3>1. CASE UNCHANGED leaseVars
      BY <3>1, Unchanged
    <3>2. CASE AddToLease(0, Live) /\ UNCHANGED balance
      <4>1. Live \in SUBSET active /\ balance' \in Nat
        BY <3>2 DEF Live, TypeInv, TypeOK
      <4> QED
        BY <3>2, <4>1, AddToLeaseType, TypeParts
    <3> QED
      BY <3>1, <3>2 DEF EnsureRefundQuotaLease
  <2>2. LocalType'
    BY GotoType DEF EnsureRefundQuotaLease, Working, Resting, Terminal
  <2>3. RowType' /\ RedisType'
    BY Unchanged DEF EnsureRefundQuotaLease, dbVars, localVars
  <2>4. reaper' \in BOOLEAN /\ budget' \in 0..MaxFaults
    BY AnswerType, ConstantsAssumption DEF EnsureRefundQuotaLease, TypeInv, TypeOK
  <2> QED
    BY <2>1, <2>2, <2>3, <2>4, TypePartsNext
<1>23. ASSUME NEW r \in Req, IncrRefund(r) PROVE TypeInv'
  <2> USE <1>23
  <2>1. RedisType'
    BY CreditsType, RedisTypes, TypeParts DEF IncrRefund
  <2>2. LocalType'
    BY GotoType DEF IncrRefund, Working, Resting, Terminal
  <2>3. LeaseType' /\ RowType'
    BY Unchanged DEF IncrRefund, dbVars, localVars
  <2>4. reaper' \in BOOLEAN /\ budget' \in 0..MaxFaults
    BY AnswerType DEF IncrRefund, TypeInv, TypeOK
  <2> QED
    BY <2>1, <2>2, <2>3, <2>4, TypePartsNext
<1>24. ASSUME NEW r \in Req, MarkRefund(r) PROVE TypeInv'
  <2> USE <1>24
  <2>1. RedisType'
    BY RedisTypes, TypeParts DEF MarkRefund
  <2>2. LocalType'
    BY GotoType DEF MarkRefund, Working
  <2>3. LeaseType' /\ RowType'
    BY Unchanged DEF MarkRefund, dbVars, localVars
  <2>4. reaper' \in BOOLEAN /\ budget' \in 0..MaxFaults
    BY AnswerType DEF MarkRefund, TypeInv, TypeOK
  <2> QED
    BY <2>1, <2>2, <2>3, <2>4, TypePartsNext
<1>25. ASSUME NEW r \in Req, Crash(r) PROVE TypeInv'
  <2> USE <1>25
  <2>1. LocalType'
    BY DEF Crash, Goto, TypeInv, TypeOK, LocalType, ReserveGap, credits, Resting, Terminal
  <2>2. LeaseType' /\ RowType' /\ RedisType'
    BY Unchanged DEF Crash, dbVars, localVars
  <2>3. reaper' \in BOOLEAN /\ budget' \in 0..MaxFaults
    BY AnswerType, ConstantsAssumption DEF Crash, TypeInv, TypeOK
  <2> QED
    BY <2>1, <2>2, <2>3, TypePartsNext
<1>26. ASSUME NEW k \in Key, ProcessBillingRefundJob(k) PROVE TypeInv'
  <2> USE <1>26
  <2>1. LeaseType'
    <3>1. CASE UNCHANGED leaseVars
      BY <3>1, Unchanged
    <3>2. CASE AddToLease(Cost[k], Live) /\ UNCHANGED balance
      <4>1. Live \in SUBSET active /\ balance' \in Nat /\ Cost[k] \in Nat
        BY <3>2, ConstantsAssumption DEF Live, TypeInv, TypeOK
      <4> QED
        BY <3>2, <4>1, AddToLeaseType, TypeParts
    <3> QED
      BY <3>1, <3>2 DEF ProcessBillingRefundJob
  <2>2. RowType'
    BY DEF ProcessBillingRefundJob, RowType, TypeInv, TypeOK
  <2>3. RedisType' /\ LocalType'
    BY Unchanged DEF ProcessBillingRefundJob, dbVars, localVars
  <2>4. reaper' \in BOOLEAN /\ budget' \in 0..MaxFaults
    BY DEF ProcessBillingRefundJob, TypeInv, TypeOK
  <2> QED
    BY <2>1, <2>2, <2>3, <2>4, TypePartsNext
<1>27. ASSUME NEW l \in Lease, ReclaimQuotaLease(l) PROVE TypeInv'
  <2> USE <1>27
  <2>1. LeaseType'
    BY GiveBackType, TypeParts DEF ReclaimQuotaLease
  <2>2. RowType' /\ RedisType' /\ LocalType'
    BY Unchanged DEF ReclaimQuotaLease, dbVars, localVars
  <2>3. reaper' \in BOOLEAN /\ budget' \in 0..MaxFaults
    BY DEF ReclaimQuotaLease, TypeInv, TypeOK
  <2> QED
    BY <2>1, <2>2, <2>3, TypePartsNext
<1>28. ASSUME ClearAfterReclaimQuotaLease PROVE TypeInv'
  <2> USE <1>28
  <2>1. RedisType'
    BY RedisTypes, TypeParts DEF ClearAfterReclaimQuotaLease
  <2>2. LeaseType' /\ RowType' /\ LocalType'
    BY Unchanged DEF ClearAfterReclaimQuotaLease, dbVars, localVars
  <2>3. reaper' \in BOOLEAN /\ budget' \in 0..MaxFaults
    BY DEF ClearAfterReclaimQuotaLease, TypeInv, TypeOK
  <2> QED
    BY <2>1, <2>2, <2>3, TypePartsNext
<1>29. ASSUME NEW n \in Adjustments, AdjustBalance(n) PROVE TypeInv'
  <2> USE <1>29
  <2>1. LeaseType'
    BY ConstantsAssumption DEF AdjustBalance, LeaseType, TypeInv, TypeOK
  <2>2. RowType'
    BY ConstantsAssumption DEF AdjustBalance, RowType, TypeInv, TypeOK
  <2>3. RedisType' /\ LocalType'
    BY Unchanged DEF AdjustBalance, dbVars, localVars
  <2>4. reaper' \in BOOLEAN /\ budget' \in 0..MaxFaults
    BY DEF AdjustBalance, TypeInv, TypeOK
  <2> QED
    BY <2>1, <2>2, <2>3, <2>4, TypePartsNext
<1>30. ASSUME Tick PROVE TypeInv'
  <2> USE <1>30
  <2>1. LeaseType'
    BY ConstantsAssumption DEF Tick, Down, LeaseType, TypeInv, TypeOK
  <2>2. RedisType'
    BY ConstantsAssumption DEF Tick, Down, RedisType, TypeInv, TypeOK
  <2>3. LocalType'
    <3>1. until' \in [Req -> Reclaimable..TTL]
      BY ConstantsAssumption DEF Tick, Down, TypeInv, TypeOK
    <3>2. late' \in [Req -> BOOLEAN]
      BY DEF Tick
    <3> QED
      BY <3>1, <3>2 DEF Tick, LocalType, TypeInv, TypeOK, ReserveGap, credits
  <2>4. RowType'
    BY Unchanged DEF Tick, dbVars, localVars
  <2>5. reaper' \in BOOLEAN /\ budget' \in 0..MaxFaults
    BY DEF Tick, TypeInv, TypeOK
  <2> QED
    BY <2>1, <2>2, <2>3, <2>4, <2>5, TypePartsNext
<1>31. CASE UNCHANGED vars
  BY <1>31, Unchanged, TypeParts, TypePartsNext DEF vars, dbVars
<1> QED
  BY <1>1, <1>2, <1>3, <1>4, <1>5, <1>6, <1>7, <1>8, <1>9, <1>10, <1>11, <1>12,
     <1>13, <1>14, <1>15, <1>16, <1>17, <1>18, <1>19, <1>20, <1>21, <1>22, <1>23,
     <1>24, <1>25, <1>26, <1>27, <1>28, <1>29, <1>30, <1>31
     DEF Next, Step, RedisStep, DbStep

\* The initial state has the types.
LEMMA InitTypes ==
    ASSUME Init
    PROVE  TypeInv
<1>1. LeaseType /\ RowType /\ RedisType
  BY ConstantsAssumption DEF Init, LeaseType, RowType, RedisType
<1>2. LocalType
  BY ConstantsAssumption
     DEF Init, LocalType, ReserveGap, Resting, Terminal, Stage
<1>3. reaper \in BOOLEAN /\ budget \in 0..MaxFaults
  <2>1. reaper \in BOOLEAN
    BY DEF Init
  <2>2. MaxFaults \in Nat /\ budget = MaxFaults
    BY ConstantsAssumption DEF Init
  <2> QED
    BY <2>1, <2>2
<1> QED
  BY <1>1, <1>2, <1>3, TypeParts

\* Every variable of QuotaLease keeps its type, and a request that is about to
\* reserve has read a quota below what it needs.
THEOREM TypeCorrect == Spec => []TypeOK
<1>1. Init => TypeInv
  BY InitTypes
<1>2. TypeInv /\ [Next]_vars => TypeInv'
  BY TypeStep
<1>3. TypeInv => TypeOK
  BY DEF TypeInv
<1> QED
  BY <1>1, <1>2, <1>3, PTL DEF Spec

-----------------------------------------------------------------------------
(***************************************************************************)
(* What each step does to the funds of the user.                           *)
(***************************************************************************)

Funds == balance + Total(rem, active)

\* A reclaim moves credits from leases to the balance.
LEMMA GiveBackFunds ==
    ASSUME LeaseType, NEW S \in SUBSET active, GiveBack(S)
    PROVE  Funds' = Funds
<1>1. active \subseteq Lease /\ IsFiniteSet(active) /\ \A l \in active : rem[l] \in Nat
  BY LeaseFinite DEF LeaseType
<1>2. Total(rem, active) = Total(rem, S) + Total(rem, active \ S)
  BY <1>1, TotalSplit
<1>3. \A l \in active \ S : rem'[l] = rem[l]
  BY <1>1 DEF GiveBack
<1>4. Total(rem', active \ S) = Total(rem, active \ S)
  BY <1>3, TotalSame
<1>5. Total(rem, S) \in Nat /\ Total(rem, active \ S) \in Nat /\ balance \in Nat
  BY <1>1, RemTotalType DEF LeaseType
<1>6. active' = active \ S /\ balance' = balance + Total(rem, S)
  BY DEF GiveBack
<1>7. Funds' = balance' + Total(rem', active')
  BY DEF Funds
<1> QED
  BY <1>2, <1>4, <1>5, <1>6, <1>7 DEF Funds

\* A lease that is topped up, or a new one, holds the amount added.
LEMMA AddToLeaseTotal ==
    ASSUME LeaseType, NEW n \in Nat, NEW S \in SUBSET active, AddToLease(n, S)
    PROVE  Total(rem', active') = Total(rem, active) + n
<1>1. active \subseteq Lease /\ IsFiniteSet(active) /\ rem \in [Lease -> Nat]
  BY LeaseFinite DEF LeaseType
<1>2. PICK l \in Lease : /\ IF S = {} THEN IsNewLease(l) ELSE IsNewest(l, S)
                         /\ active' = active \cup {l}
                         /\ rem' = [rem EXCEPT ![l] = @ + n]
  BY DEF AddToLease
<1>3. CASE l \notin active
  <2>1. rem[l] = 0
    BY <1>3 DEF LeaseType
  <2>2. rem'[l] = n /\ \A m \in active : rem'[m] = rem[m]
    BY <1>1, <1>2, <1>3, <2>1
  <2>3. Total(rem', active \cup {l}) = rem'[l] + Total(rem', active)
    BY <1>1, <1>3, <2>2, TotalAdd
  <2>4. Total(rem', active) = Total(rem, active)
    BY <2>2, TotalSame
  <2>5. Total(rem, active) \in Nat
    BY <1>1, RemTotalType
  <2> QED
    BY <1>2, <2>2, <2>3, <2>4, <2>5
<1>4. CASE l \in active
  <2>1. active' = active
    BY <1>2, <1>4
  <2>2. rem'[l] = rem[l] + n /\ rem'[l] \in Nat /\ \A m \in active \ {l} : rem'[m] = rem[m]
    BY <1>1, <1>2
  <2>3. \A m \in active : rem[m] \in Nat
    BY <1>1
  <2>4. n \in Int /\ IsFiniteSet(active)
    BY <1>1
  <2>5. Total(rem', active) = Total(rem, active) + n
    BY <1>4, <2>2, <2>3, <2>4, TotalUpdate
  <2> QED
    BY <2>1, <2>5
<1> QED
  BY <1>3, <1>4

\* The plan of a charge takes exactly its credits from the active leases.
LEMMA DebitTotal ==
    ASSUME LeaseType, NEW S \in SUBSET active, NEW c \in Nat,
           NEW d \in DebitPlans(S, c),
           \A l \in S : rem'[l] = rem[l] - d[l],
           \A l \in active \ S : rem'[l] = rem[l]
    PROVE  Total(rem', active) = Total(rem, active) - c
<1>1. active \subseteq Lease /\ IsFiniteSet(active) /\ rem \in [Lease -> Nat]
  BY LeaseFinite DEF LeaseType
<1>2. \A l \in S : d[l] \in Nat /\ d[l] <= rem[l]
  BY DEF DebitPlans
<1>3. Total(d, S) = c
  BY DEF DebitPlans
<1>4. \A l \in S : rem'[l] = rem[l] - d[l]
  OBVIOUS
<1>5. IsFiniteSet(S) /\ \A l \in S : rem[l] \in Nat
  BY <1>1, FS_Subset
<1>6. Total(rem, S) = Total(d, S) + Total(rem', S)
  BY <1>2, <1>4, <1>5, TotalDebit
<1>7. \A l \in active : rem'[l] \in Nat
  BY <1>1, <1>2
<1>8. Total(rem, active) = Total(rem, S) + Total(rem, active \ S)
  BY <1>1, TotalSplit
<1>9. Total(rem', active) = Total(rem', S) + Total(rem', active \ S)
  BY <1>1, <1>7, TotalSplit
<1>10. \A l \in active \ S : rem'[l] = rem[l]
  BY <1>1
<1>11. Total(rem', active \ S) = Total(rem, active \ S)
  BY <1>10, TotalSame
<1>12. Total(rem', S) \in Nat /\ Total(rem, active \ S) \in Nat
  BY <1>1, <1>5, <1>7, RemTotalType, TotalType
<1> QED
  BY <1>3, <1>6, <1>8, <1>9, <1>11, <1>12

\* Some of the active leases hold no more than all of them.
LEMMA PartOfFunds ==
    ASSUME LeaseType, NEW S \in SUBSET active
    PROVE  Total(rem, S) <= Funds
<1>1. active \subseteq Lease /\ IsFiniteSet(active) /\ rem \in [Lease -> Nat] /\ balance \in Nat
  BY LeaseFinite DEF LeaseType
<1>2. Total(rem, active) = Total(rem, S) + Total(rem, active \ S)
  BY <1>1, TotalSplit
<1>3. Total(rem, S) \in Nat /\ Total(rem, active \ S) \in Nat
  BY <1>1, RemTotalType
<1> QED
  BY <1>1, <1>2, <1>3 DEF Funds

\* The reserve that is released leaves the newest lease for the balance.
LEMMA ReleaseFunds ==
    ASSUME LeaseType, NEW l \in active, NEW n \in 0..rem[l],
           balance' = balance + n, rem' = [rem EXCEPT ![l] = @ - n],
           UNCHANGED active
    PROVE  Funds' = Funds
<1>1. active \subseteq Lease /\ IsFiniteSet(active) /\ rem \in [Lease -> Nat] /\ balance \in Nat
  BY LeaseFinite DEF LeaseType
<1>2. /\ rem'[l] = rem[l] - n /\ rem'[l] \in Nat /\ rem[l] \in Nat
      /\ \A m \in active \ {l} : rem'[m] = rem[m]
      /\ \A m \in active : rem'[m] \in Nat
      /\ {l} \in SUBSET active
  BY <1>1
<1>3. Total(rem', active) = Total(rem, active) - n
  <2>1. Total(rem, active) = Total(rem, {l}) + Total(rem, active \ {l})
    BY <1>1, <1>2, TotalSplit
  <2>2. Total(rem', active) = Total(rem', {l}) + Total(rem', active \ {l})
    BY <1>1, <1>2, TotalSplit
  <2>3. Total(rem, {l}) = rem[l]
    BY <1>2, TotalSingleton
  <2>4. Total(rem', {l}) = rem'[l]
    BY <1>2, TotalSingleton
  <2>5. Total(rem', active \ {l}) = Total(rem, active \ {l})
    BY <1>2, TotalSame
  <2>6. Total(rem, active \ {l}) \in Nat
    BY <1>1, RemTotalType
  <2> QED
    BY <1>2, <2>1, <2>2, <2>3, <2>4, <2>5, <2>6
<1>4. Total(rem, active) \in Nat
  BY <1>1, RemTotalType
<1>5. Funds' = balance' + Total(rem', active')
  BY DEF Funds
<1> QED
  BY <1>1, <1>3, <1>4, <1>5 DEF Funds
-----------------------------------------------------------------------------
(***************************************************************************)
(* The steps of the account.                                               *)
(***************************************************************************)

\* A refund, or a queued refund job, belongs to a charge that was written.
ChargedFirst ==
    /\ \A k \in Key : job[k] => charges[k] > 0
    /\ \A r \in Req : op[r] = "refund" \/ pc[r] \in {"charged", "enqueue"} =>
            charges[KeyOf[r]] > 0
    /\ \A r \in Req : pc[r] = "enqueue" => op[r] = "refund"

AccountInv == TypeInv /\ RefundsFollowCharges /\ ChargedFirst

\* What a step may do to the account of the user.
AccountStep ==
    \/ UNCHANGED <<Funds, charges, refunds, deposited>>
    \/ \E k \in Key : Ledger!Charge(k) /\ UNCHANGED deposited
    \/ \E k \in Key : Ledger!Refund(k) /\ UNCHANGED deposited
    \/ \E n \in Adjustments : Ledger!Adjust(n) /\ deposited' = deposited + n

\* The funds of the account in the next state.
LEMMA FundsNext == Funds' = balance' + Total(rem', active')
BY DEF Funds

\* A step that leaves the leases and the rows alone leaves the account alone.
LEMMA NoAccountStep ==
    ASSUME UNCHANGED leaseVars, UNCHANGED rowVars
    PROVE  AccountStep
BY DEF AccountStep, Funds, leaseVars, rowVars

\* The commit of a charge is a charge of the account.
LEMMA ChargeStep ==
    ASSUME AccountInv, NEW r \in Req, CommitCharge(r)
    PROVE  AccountStep
<1> DEFINE S == {l \in Visible(r) : rem[l] > 0}
           k == KeyOf[r]
<1>1. k \in Key /\ credits(r) = Cost[k] /\ credits(r) \in Nat
  BY CreditsType DEF credits
<1>2. LeaseType /\ S \in SUBSET active
  BY TypeParts DEF AccountInv, Visible
<1>3. CASE UNCHANGED <<leaseVars, charges>>
  BY <1>3 DEF AccountStep, Funds, leaseVars, CommitCharge
<1>4. ASSUME NEW d \in DebitPlans(S, credits(r)), Total(rem, S) >= credits(r),
             rem' = [l \in Lease |-> IF l \in S THEN rem[l] - d[l] ELSE rem[l]],
             charges' = [charges EXCEPT ![k] = @ + 1],
             UNCHANGED <<balance, active, refunds, deposited>>
      PROVE  AccountStep
  <2>1. /\ \A l \in S : rem'[l] = rem[l] - d[l]
        /\ \A l \in active \ S : rem'[l] = rem[l]
    BY <1>2, <1>4 DEF LeaseType
  <2>2. Total(rem', active) = Total(rem, active) - credits(r)
    BY <1>1, <1>2, <2>1, DebitTotal
  <2>3. Total(rem, S) \in Nat /\ Total(rem, active) \in Nat /\ balance \in Nat
    BY <1>2, RemTotalType DEF LeaseType
  <2>4. Funds >= credits(r)
    BY <1>1, <1>2, <1>4, <2>3, PartOfFunds DEF Funds
  <2>5. Funds' = Funds - credits(r)
    BY <1>1, <1>4, <2>2, <2>3, FundsNext DEF Funds
  <2>6. Ledger!Charge(k)
    BY <1>1, <1>4, <2>4, <2>5 DEF Ledger!Charge, Funds
  <2> QED
    BY <1>1, <1>4, <2>6 DEF AccountStep
<1>5. \/ UNCHANGED <<leaseVars, charges>>
      \/ /\ Total(rem, S) >= credits(r)
         /\ \E d \in DebitPlans(S, credits(r)) :
               rem' = [l \in Lease |-> IF l \in S THEN rem[l] - d[l] ELSE rem[l]]
         /\ charges' = [charges EXCEPT ![k] = @ + 1]
         /\ UNCHANGED <<balance, active>>
  BY DEF CommitCharge
<1>6. UNCHANGED <<refunds, deposited>>
  BY DEF CommitCharge
<1> QED
  BY <1>3, <1>4, <1>5, <1>6

\* A lease row that gains the cost of a key, in the step that writes its first
\* refund row, is a refund of the account.
LEMMA RefundStep ==
    ASSUME AccountInv, NEW k \in Key, charges[k] > 0, refunds[k] = 0,
           NEW S \in SUBSET active, AddToLease(Cost[k], S),
           refunds' = [refunds EXCEPT ![k] = 1],
           UNCHANGED <<balance, charges, deposited>>
    PROVE  AccountStep
<1>1. LeaseType /\ Cost[k] \in Nat
  BY TypeParts, ConstantsAssumption DEF AccountInv
<1>2. Total(rem', active') = Total(rem, active) + Cost[k]
  BY <1>1, AddToLeaseTotal
<1>3. Total(rem, active) \in Nat /\ balance \in Nat
  BY <1>1, RemTotalType DEF LeaseType
<1>4. Funds' = Funds + Cost[k]
  BY <1>1, <1>2, <1>3, FundsNext DEF Funds
<1>5. Ledger!Refund(k)
  BY <1>4 DEF Ledger!Refund, Funds
<1> QED
  BY <1>5 DEF AccountStep

\* A reserve that moves n credits to a lease moves no funds.
LEMMA ReserveFunds ==
    ASSUME LeaseType, NEW n \in Nat, NEW S \in SUBSET active, AddToLease(n, S),
           balance' = balance - n
    PROVE  Funds' = Funds
<1>1. Total(rem', active') = Total(rem, active) + n
  BY AddToLeaseTotal
<1>2. Total(rem, active) \in Nat /\ balance \in Nat
  BY RemTotalType DEF LeaseType
<1> QED
  BY <1>1, <1>2, FundsNext DEF Funds

\* Every step of QuotaLease is a step of the account or leaves it alone.
LEMMA StepsOfAccount ==
    ASSUME AccountInv, [Next]_vars
    PROVE  AccountStep
<1>0. TypeInv /\ LeaseType /\ RowType
  BY TypeParts DEF AccountInv
<1>1. ASSUME NEW r \in Req, ReclaimForUser(r) PROVE AccountStep
  <2>1. Funds' = Funds
    <3>1. CASE UNCHANGED leaseVars
      BY <3>1 DEF Funds, leaseVars
    <3>2. CASE GiveBack({l \in active : ttl[l] = Reclaimable})
      BY <1>0, <3>2, GiveBackFunds
    <3> QED
      BY <1>1, <3>1, <3>2 DEF ReclaimForUser
  <2> QED
    BY <1>1, <2>1 DEF AccountStep, ReclaimForUser, rowVars
<1>2. ASSUME NEW r \in Req, ReserveQuota(r) PROVE AccountStep
  <2>1. quotaReserveNeeded(r) \in Nat
    BY <1>2, CreditsType DEF ReserveQuota, quotaReserveNeeded, AccountInv, TypeInv,
                             TypeOK, ReserveGap
  <2>2. Live \in SUBSET active
    BY DEF Live
  <2>3. \/ UNCHANGED leaseVars
        \/ /\ balance' = balance - quotaReserveNeeded(r)
           /\ AddToLease(quotaReserveNeeded(r), Live)
    BY <1>2 DEF ReserveQuota
  <2>4. CASE UNCHANGED leaseVars
    BY <1>2, <2>4, NoAccountStep DEF ReserveQuota
  <2>5. CASE /\ balance' = balance - quotaReserveNeeded(r)
             /\ AddToLease(quotaReserveNeeded(r), Live)
    <3>1. Funds' = Funds
      BY <1>0, <2>1, <2>2, <2>5, ReserveFunds
    <3> QED
      BY <1>2, <3>1 DEF AccountStep, ReserveQuota, rowVars
  <2> QED
    BY <2>3, <2>4, <2>5
<1>3. ASSUME NEW r \in Req, ReleaseReservedQuota(r) PROVE AccountStep
  <2>1. CASE UNCHANGED leaseVars
    BY <1>3, <2>1, NoAccountStep DEF ReleaseReservedQuota
  <2>2. ASSUME NEW l \in active,
               balance' = balance + Releasable(l, seen[r]),
               rem' = [rem EXCEPT ![l] = @ - Releasable(l, seen[r])],
               UNCHANGED active
        PROVE  AccountStep
    <3>1. l \in Lease /\ rem[l] \in Nat /\ seen[r] \in Nat
      BY <1>0 DEF TypeInv, TypeOK
    <3>2. Releasable(l, seen[r]) \in 0..rem[l]
      BY <3>1 DEF Releasable
    <3>3. Funds' = Funds
      BY <1>0, <2>2, <3>2, ReleaseFunds
    <3> QED
      BY <1>3, <3>3 DEF AccountStep, ReleaseReservedQuota, rowVars
  <2> QED
    BY <1>3, <2>1, <2>2 DEF ReleaseReservedQuota, leaseVars
<1>4. ASSUME NEW r \in Req, CommitCharge(r) PROVE AccountStep
  BY <1>4, ChargeStep
<1>5. ASSUME NEW r \in Req, CommitRefund(r) PROVE AccountStep
  <2> DEFINE k == KeyOf[r]
  <2>1. k \in Key /\ credits(r) = Cost[k] /\ charges[k] > 0
    BY <1>5, CreditsType DEF CommitRefund, credits, AccountInv, ChargedFirst
  <2>2. CASE UNCHANGED <<leaseVars, refunds>>
    BY <1>5, <2>2 DEF AccountStep, Funds, leaseVars, CommitRefund
  <2>3. CASE /\ ~uniqueViolation(k) /\ AddToLease(credits(r), Visible(r))
             /\ refunds' = [refunds EXCEPT ![k] = @ + 1] /\ UNCHANGED balance
    <3>1. refunds[k] = 0
      BY <1>0, <2>1, <2>3 DEF uniqueViolation, RowType
    <3>2. refunds' = [refunds EXCEPT ![k] = 1]
      BY <2>3, <3>1
    <3>3. Visible(r) \in SUBSET active
      BY DEF Visible
    <3>4. UNCHANGED <<balance, charges, deposited>>
      BY <1>5, <2>3 DEF CommitRefund
    <3>5. AddToLease(Cost[k], Visible(r))
      BY <2>1, <2>3
    <3> HIDE DEF k
    <3> QED
      BY <2>1, <3>1, <3>2, <3>3, <3>4, <3>5, RefundStep
  <2> QED
    BY <1>5, <2>2, <2>3 DEF CommitRefund
<1>6. ASSUME NEW r \in Req, EnsureRefundQuotaLease(r) PROVE AccountStep
  <2>1. CASE UNCHANGED leaseVars
    BY <1>6, <2>1, NoAccountStep DEF EnsureRefundQuotaLease
  <2>2. CASE AddToLease(0, Live) /\ UNCHANGED balance
    <3>1. Live \in SUBSET active /\ balance' = balance - 0
      BY <1>0, <2>2 DEF Live, LeaseType
    <3>2. Funds' = Funds
      BY <1>0, <2>2, <3>1, ReserveFunds
    <3> QED
      BY <1>6, <3>2 DEF AccountStep, EnsureRefundQuotaLease, rowVars
  <2> QED
    BY <1>6, <2>1, <2>2 DEF EnsureRefundQuotaLease
<1>7. ASSUME NEW r \in Req, EnqueueRefundJob(r) PROVE AccountStep
  BY <1>7 DEF EnqueueRefundJob, AccountStep, Funds, leaseVars
<1>8. ASSUME NEW k \in Key, ProcessBillingRefundJob(k) PROVE AccountStep
  <2>1. charges[k] > 0
    BY <1>8 DEF ProcessBillingRefundJob, AccountInv, ChargedFirst
  <2>2. CASE UNCHANGED <<leaseVars, refunds>>
    BY <1>8, <2>2 DEF AccountStep, Funds, leaseVars, ProcessBillingRefundJob
  <2>3. CASE /\ refunds[k] = 0 /\ AddToLease(Cost[k], Live)
             /\ refunds' = [refunds EXCEPT ![k] = 1] /\ UNCHANGED balance
    <3>1. Live \in SUBSET active
      BY DEF Live
    <3>2. UNCHANGED <<balance, charges, deposited>>
      BY <1>8, <2>3 DEF ProcessBillingRefundJob
    <3> QED
      BY <2>1, <2>3, <3>1, <3>2, RefundStep
  <2> QED
    BY <1>8, <2>2, <2>3 DEF ProcessBillingRefundJob
<1>9. ASSUME NEW l \in Lease, ReclaimQuotaLease(l) PROVE AccountStep
  <2>1. Funds' = Funds
    BY <1>0, <1>9, GiveBackFunds DEF ReclaimQuotaLease
  <2> QED
    BY <1>9, <2>1 DEF AccountStep, ReclaimQuotaLease, rowVars
<1>10. ASSUME NEW n \in Adjustments, AdjustBalance(n) PROVE AccountStep
  <2>1. n \in Int /\ balance \in Nat /\ Total(rem, active) \in Nat
    BY <1>0, ConstantsAssumption, RemTotalType DEF LeaseType
  <2>2. balance' = balance + n /\ balance + n >= 0 /\ UNCHANGED <<rem, active>>
    BY <1>10 DEF AdjustBalance
  <2>3. Funds' = Funds + n /\ Funds + n >= 0
    BY <2>1, <2>2, FundsNext DEF Funds
  <2>4. Ledger!Adjust(n)
    BY <1>10, <2>3 DEF Ledger!Adjust, Funds, AdjustBalance
  <2> QED
    BY <1>10, <2>4 DEF AccountStep, AdjustBalance
<1>11. CASE Tick
  <2>1. UNCHANGED <<balance, active, rem, rowVars>>
    BY <1>11 DEF Tick
  <2> QED
    BY <2>1 DEF AccountStep, Funds, rowVars
<1>12. CASE UNCHANGED dbVars
  BY <1>12, NoAccountStep DEF dbVars
<1>13. CASE UNCHANGED vars
  BY <1>12, <1>13 DEF vars
<1>14. ASSUME NEW r \in Req,
              StartCharge(r) \/ KeepCharge(r) \/ StartRefund(r) \/ Crash(r) \/ RedisStep(r)
                \/ SyncRead(r) \/ BeginTx(r)
       PROVE  UNCHANGED dbVars
  BY <1>14
     DEF StartCharge, KeepCharge, StartRefund, Crash, RedisStep, ClearAfterReclaim,
         QuotaRemaining, SyncRead, SyncSet, IncrReserve, MarkReserve, LuaCharge,
         MarkCharge, BeginTx, CompensateRead, CompensateApply, CompensateMark,
         IncrRefund, MarkRefund
<1>15. ClearAfterReclaimQuotaLease => UNCHANGED dbVars
  BY DEF ClearAfterReclaimQuotaLease
<1> QED
  BY <1>1, <1>2, <1>3, <1>4, <1>5, <1>6, <1>7, <1>8, <1>9, <1>10, <1>11, <1>12, <1>13,
     <1>14, <1>15
     DEF Next, Step, DbStep
-----------------------------------------------------------------------------
(***************************************************************************)
(* The invariant and the theorems.                                         *)
(***************************************************************************)

\* Rows are only ever written, and a refund row follows its charge row.
LEMMA RowsGrow ==
    ASSUME AccountInv, AccountStep
    PROVE  /\ \A k \in Key : charges[k] <= charges'[k]
           /\ RefundsFollowCharges'
<1>1. charges \in [Key -> Nat] /\ refunds \in [Key -> Nat]
  BY DEF AccountInv, TypeInv, TypeOK
<1>2. RefundsFollowCharges
  BY DEF AccountInv
<1>3. CASE UNCHANGED <<charges, refunds>>
  BY <1>1, <1>2, <1>3 DEF RefundsFollowCharges
<1>4. ASSUME NEW k \in Key, Ledger!Charge(k)
      PROVE  (\A i \in Key : charges[i] <= charges'[i]) /\ RefundsFollowCharges'
  <2>1. charges' = [charges EXCEPT ![k] = @ + 1] /\ refunds' = refunds
    BY <1>4 DEF Ledger!Charge
  <2> QED
    BY <1>1, <1>2, <2>1 DEF RefundsFollowCharges
<1>5. ASSUME NEW k \in Key, Ledger!Refund(k)
      PROVE  (\A i \in Key : charges[i] <= charges'[i]) /\ RefundsFollowCharges'
  <2>1. /\ refunds' = [refunds EXCEPT ![k] = 1] /\ charges' = charges
        /\ charges[k] > 0
    BY <1>5 DEF Ledger!Refund
  <2> QED
    BY <1>1, <1>2, <2>1 DEF RefundsFollowCharges
<1>6. ASSUME NEW n \in Adjustments, Ledger!Adjust(n) PROVE UNCHANGED <<charges, refunds>>
  BY <1>6 DEF Ledger!Adjust
<1> QED
  BY <1>3, <1>4, <1>5, <1>6 DEF AccountStep

\* No step but these three moves a request to "charged", to "enqueue" or into
\* the refunding half of its life.
LEMMA OtherSteps ==
    ASSUME AccountInv, NEW r \in Req,
           \/ StartCharge(r) \/ KeepCharge(r) \/ Crash(r) \/ RedisStep(r)
           \/ ReclaimForUser(r) \/ SyncRead(r) \/ ReserveQuota(r)
           \/ ReleaseReservedQuota(r) \/ EnqueueRefundJob(r) \/ EnsureRefundQuotaLease(r)
    PROVE  /\ op' = op
           /\ \A q \in Req : pc'[q] = pc[q] \/ pc'[q] \notin {"charged", "enqueue"}
<1>1. pc \in [Req -> Resting \cup Working]
  BY DEF AccountInv, TypeInv, TypeOK
<1>2. \A n : AfterRemaining(r, n) \notin {"charged", "enqueue"}
  BY DEF AfterRemaining, Ended
<1>3. AfterError(r) \notin {"charged", "enqueue"} /\ Ended(r) \notin {"charged", "enqueue"}
  BY DEF AfterError, Ended
<1>4. CASE \/ StartCharge(r) \/ KeepCharge(r) \/ Crash(r) \/ ReclaimForUser(r)
           \/ ReserveQuota(r) \/ ReleaseReservedQuota(r) \/ EnqueueRefundJob(r)
           \/ EnsureRefundQuotaLease(r)
  BY <1>1, <1>4
     DEF StartCharge, KeepCharge, Crash, ReclaimForUser, ReserveQuota,
         ReleaseReservedQuota, EnqueueRefundJob, EnsureRefundQuotaLease, Goto, localVars
<1>5. CASE QuotaRemaining(r) \/ SyncRead(r) \/ SyncSet(r)
  BY <1>1, <1>2, <1>3, <1>5 DEF QuotaRemaining, SyncRead, SyncSet, Goto
<1>6. CASE ClearAfterReclaim(r) \/ IncrReserve(r) \/ MarkReserve(r) \/ MarkCharge(r)
           \/ IncrRefund(r) \/ MarkRefund(r)
  BY <1>1, <1>6
     DEF ClearAfterReclaim, IncrReserve, MarkReserve, MarkCharge, IncrRefund, MarkRefund,
         Goto, localVars
<1>7. CASE LuaCharge(r)
  BY <1>1, <1>7 DEF LuaCharge, Goto
<1>8. CASE CompensateRead(r) \/ CompensateApply(r) \/ CompensateMark(r)
  BY <1>1, <1>3, <1>8 DEF CompensateRead, CompensateApply, CompensateMark, Goto, localVars
<1> QED
  BY <1>4, <1>5, <1>6, <1>7, <1>8 DEF RedisStep

\* A queued or pending refund belongs to a charge row in the next state too.
LEMMA ChargedFirstStep ==
    ASSUME AccountInv, [Next]_vars
    PROVE  ChargedFirst'
<1>1. /\ charges \in [Key -> Nat] /\ job \in [Key -> BOOLEAN]
      /\ pc \in [Req -> Resting \cup Working] /\ op \in [Req -> {"charge", "refund"}]
      /\ charges' \in [Key -> Nat]
  BY TypeStep DEF AccountInv, TypeInv, TypeOK
<1>2. \A k \in Key : charges[k] <= charges'[k]
  BY StepsOfAccount, RowsGrow
<1>3. \A r \in Req : KeyOf[r] \in Key
  BY CreditsType
<1>4. ASSUME \A k \in Key : job'[k] => job[k] \/ charges[k] > 0,
             \A r \in Req : op'[r] = op[r] \/ charges[KeyOf[r]] > 0,
             \A r \in Req : \/ pc'[r] = pc[r] /\ op'[r] = op[r]
                            \/ pc'[r] \notin {"charged", "enqueue"}
                            \/ pc'[r] = "enqueue" /\ op'[r] = "refund" /\ charges[KeyOf[r]] > 0
                            \/ pc'[r] = "charged" /\ charges'[KeyOf[r]] > 0
      PROVE  ChargedFirst'
  BY <1>1, <1>2, <1>3, <1>4 DEF ChargedFirst, AccountInv
<1>5. CASE UNCHANGED <<job, op, pc>>
  BY <1>4, <1>5
<1>6. ASSUME NEW r \in Req, StartRefund(r) PROVE ChargedFirst'
  BY <1>1, <1>4, <1>6
     DEF StartRefund, Goto, AccountInv, ChargedFirst, dbVars, rowVars
<1>7. ASSUME NEW r \in Req, CommitCharge(r) PROVE ChargedFirst'
  <2>1. op' = op /\ job' = job /\ preAppliedFailure(r) = "compRead"
    BY <1>7 DEF CommitCharge, preAppliedFailure
  <2>2. \/ \E next \in {"compRead", "failed"} : pc' = [pc EXCEPT ![r] = next]
        \/ /\ pc' = [pc EXCEPT ![r] = "charged"]
           /\ charges' = [charges EXCEPT ![KeyOf[r]] = @ + 1]
    BY <1>7, <2>1 DEF CommitCharge, AfterTx, Goto
  <2>3. pc' = [pc EXCEPT ![r] = "charged"] => charges'[KeyOf[r]] > 0
    BY <1>1, <1>3, <2>2
  <2> QED
    BY <1>1, <1>4, <2>1, <2>2, <2>3
<1>8. ASSUME NEW r \in Req, CommitRefund(r) PROVE ChargedFirst'
  <2>1. op' = op /\ job' = job /\ op[r] = "refund" /\ charges[KeyOf[r]] > 0
    BY <1>8 DEF CommitRefund, AccountInv, ChargedFirst
  <2>2. \E next \in {"compRead", "done", "enqueue", "failed"} : pc' = [pc EXCEPT ![r] = next]
    BY <1>8 DEF CommitRefund, AfterTx, Goto, preAppliedFailure
  <2> QED
    BY <1>1, <1>4, <2>1, <2>2
<1>9. ASSUME NEW r \in Req, BeginTx(r) PROVE ChargedFirst'
  <2>1. op' = op /\ job' = job
    BY <1>9 DEF BeginTx, dbVars, rowVars, localVars
  <2>2. \E next \in {"compRead", "commit", preAppliedFailure(r)} : pc' = [pc EXCEPT ![r] = next]
    BY <1>9 DEF BeginTx, Goto
  <2>3. \/ preAppliedFailure(r) = "compRead"
        \/ /\ preAppliedFailure(r) = "enqueue" /\ op[r] = "refund"
           /\ charges[KeyOf[r]] > 0
    <3>1. op[r] = "charge" \/ op[r] = "refund"
      BY <1>1
    <3>2. op[r] = "refund" => charges[KeyOf[r]] > 0
      BY DEF AccountInv, ChargedFirst
    <3>3. op[r] = "charge" => preAppliedFailure(r) = "compRead"
      BY DEF preAppliedFailure
    <3>4. op[r] = "refund" => preAppliedFailure(r) = "enqueue"
      BY DEF preAppliedFailure
    <3> QED
      BY <3>1, <3>2, <3>3, <3>4
  <2> QED
    BY <1>1, <1>4, <2>1, <2>2, <2>3
<1>10. ASSUME NEW r \in Req, EnqueueRefundJob(r) PROVE ChargedFirst'
  <2>1. \A k \in Key : job'[k] => job[k] \/ charges[k] > 0
    BY <1>1, <1>10 DEF EnqueueRefundJob, AccountInv, ChargedFirst
  <2>2. op' = op /\ \A q \in Req : pc'[q] = pc[q] \/ pc'[q] \notin {"charged", "enqueue"}
    BY <1>10, OtherSteps
  <2> QED
    BY <1>4, <2>1, <2>2
<1>11. ASSUME NEW r \in Req,
              \/ StartCharge(r) \/ KeepCharge(r) \/ Crash(r) \/ RedisStep(r)
              \/ ReclaimForUser(r) \/ SyncRead(r) \/ ReserveQuota(r)
              \/ ReleaseReservedQuota(r) \/ EnsureRefundQuotaLease(r)
       PROVE  ChargedFirst'
  <2>1. op' = op /\ \A q \in Req : pc'[q] = pc[q] \/ pc'[q] \notin {"charged", "enqueue"}
    BY <1>11, OtherSteps
  <2>2. job' = job
    BY <1>11
       DEF StartCharge, KeepCharge, Crash, RedisStep, ClearAfterReclaim, QuotaRemaining,
           SyncRead, SyncSet, IncrReserve, MarkReserve, LuaCharge, MarkCharge,
           CompensateRead, CompensateApply, CompensateMark, IncrRefund, MarkRefund,
           ReclaimForUser, ReserveQuota, ReleaseReservedQuota, EnsureRefundQuotaLease,
           dbVars, rowVars
  <2> QED
    BY <1>4, <2>1, <2>2
<1>12. ASSUME NEW k \in Key, ProcessBillingRefundJob(k) PROVE ChargedFirst'
  <2>1. \A i \in Key : job'[i] => job[i]
    BY <1>1, <1>12 DEF ProcessBillingRefundJob
  <2>2. UNCHANGED <<op, pc>>
    BY <1>12 DEF ProcessBillingRefundJob, localVars
  <2> QED
    BY <1>4, <2>1, <2>2
<1>13. CASE \/ \E l \in Lease : ReclaimQuotaLease(l)
            \/ ClearAfterReclaimQuotaLease \/ Tick
            \/ \E n \in Adjustments : AdjustBalance(n)
  BY <1>5, <1>13
     DEF ReclaimQuotaLease, ClearAfterReclaimQuotaLease, Tick, AdjustBalance, vars,
         dbVars, rowVars, localVars
<1>14. CASE UNCHANGED vars
  BY <1>5, <1>14 DEF vars, dbVars, rowVars, localVars
<1> QED
  BY <1>6, <1>7, <1>8, <1>9, <1>10, <1>11, <1>12, <1>13, <1>14 DEF Next, Step, DbStep

\* The inductive invariant.
LEMMA AccountInvariant == Spec => []AccountInv
<1>1. Init => AccountInv
  <2> SUFFICES ASSUME Init PROVE AccountInv
    OBVIOUS
  <2>1. TypeInv
    BY InitTypes
  <2>2. RefundsFollowCharges /\ ChargedFirst
    BY DEF Init, RefundsFollowCharges, ChargedFirst
  <2> QED
    BY <2>1, <2>2 DEF AccountInv
<1>2. AccountInv /\ [Next]_vars => AccountInv'
  <2> SUFFICES ASSUME AccountInv, [Next]_vars PROVE AccountInv'
    OBVIOUS
  <2>1. TypeInv'
    BY TypeStep DEF AccountInv
  <2>2. RefundsFollowCharges'
    BY StepsOfAccount, RowsGrow
  <2>3. ChargedFirst'
    BY ChargedFirstStep
  <2> QED
    BY <2>1, <2>2, <2>3 DEF AccountInv
<1> QED
  BY <1>1, <1>2, PTL DEF Spec

\* A refund row is written at most once per key and only after a charge row,
\* whatever is retried, queued, redelivered or lost (WriteTx, refund jobs).
THEOREM OneRefundPerCharge == Spec => []RefundsFollowCharges
<1>1. AccountInv => RefundsFollowCharges
  BY DEF AccountInv
<1> QED
  BY <1>1, AccountInvariant, PTL

\* QuotaLease implements the account of CreditLedger: only the commits of a
\* charge, of a refund and of an adjustment move the funds of the user.
THEOREM AccountImplemented == Spec => ImplementsLedger
<1>1. Init => Ledger!Init
  <2> SUFFICES ASSUME Init PROVE Ledger!Init
    OBVIOUS
  <2>1. Total(rem, active) = 0 /\ balance = OpeningBalance /\ OpeningBalance \in Nat
    BY TotalEmpty, ConstantsAssumption DEF Init
  <2> QED
    BY <2>1 DEF Init, Ledger!Init
<1>2. AccountInv /\ [Next]_vars => [Ledger!Next]_(Ledger!ledgerVars)
  <2> SUFFICES ASSUME AccountInv, [Next]_vars PROVE [Ledger!Next]_(Ledger!ledgerVars)
    OBVIOUS
  <2>1. AccountStep
    BY StepsOfAccount
  <2>2. UNCHANGED <<Funds, charges, refunds>> => UNCHANGED Ledger!ledgerVars
    BY DEF Funds, Ledger!ledgerVars
  <2> QED
    BY <2>1, <2>2 DEF AccountStep, Ledger!Next
<1> QED
  BY <1>1, <1>2, AccountInvariant, PTL DEF Spec, ImplementsLedger, Ledger!Spec

\* The net consumption of the keys, written in the rows.
LEMMA SpentNat ==
    ASSUME AccountInv
    PROVE  \A k \in Key : /\ Cost[k] \in Nat /\ charges[k] - refunds[k] \in Nat
                          /\ Spent[k] = Cost[k] * (charges[k] - refunds[k])
                          /\ Spent[k] \in Nat
<1> SUFFICES ASSUME NEW k \in Key
             PROVE  /\ Cost[k] \in Nat /\ charges[k] - refunds[k] \in Nat
                    /\ Spent[k] = Cost[k] * (charges[k] - refunds[k])
                    /\ Spent[k] \in Nat
  OBVIOUS
<1>1. Cost[k] \in Nat /\ charges[k] \in Nat /\ refunds[k] \in Nat
  BY ConstantsAssumption DEF AccountInv, TypeInv, TypeOK
<1>2. charges[k] - refunds[k] \in Nat
  BY <1>1 DEF AccountInv, RefundsFollowCharges
<1>3. Spent[k] = Cost[k] * (charges[k] - refunds[k])
  BY DEF Spent
<1>4. \A a, b \in Nat : a * b \in Nat
  OBVIOUS
<1> QED
  BY <1>1, <1>2, <1>3, <1>4

\* One more charge row, or one more refund row, of key k.
LEMMA SpentChanges ==
    ASSUME AccountInv, AccountInv', NEW k \in Key, NEW n \in {1, -1},
           charges'[k] - refunds'[k] = charges[k] - refunds[k] + n,
           \A i \in Key \ {k} : charges'[i] = charges[i] /\ refunds'[i] = refunds[i]
    PROVE  Total(Spent', Key) = Total(Spent, Key) + n * Cost[k]
<1>1. \A i \in Key : Spent[i] \in Nat
  BY SpentNat
<1>2. \A i \in Key : /\ Spent'[i] \in Nat
                     /\ Spent'[i] = Cost[i] * (charges'[i] - refunds'[i])
  <2>1. AccountInv' => \A i \in Key : charges'[i] \in Nat /\ refunds'[i] \in Nat
    BY DEF AccountInv, TypeInv, TypeOK
  <2>2. \A i \in Key : charges'[i] - refunds'[i] \in Nat
    BY <2>1 DEF AccountInv, RefundsFollowCharges
  <2>3. \A i \in Key : Spent'[i] = Cost[i] * (charges'[i] - refunds'[i])
    BY DEF Spent
  <2>4. \A a, b \in Nat : a * b \in Nat
    OBVIOUS
  <2> QED
    BY <2>2, <2>3, <2>4, ConstantsAssumption
<1>3. \A i \in Key \ {k} : Spent'[i] = Spent[i]
  BY <1>2, SpentNat
<1>4. Spent'[k] = Spent[k] + n * Cost[k]
  <2>1. \A a \in Nat : \A b, c \in Nat : a * (b + c) = a * b + c * a
    OBVIOUS
  <2>2. PICK a \in Nat : a = Cost[k]
    BY SpentNat
  <2>3. PICK b \in Nat : b = charges[k] - refunds[k]
    BY SpentNat
  <2>4. Spent[k] = a * b /\ Spent'[k] = a * (b + n)
    BY <1>2, <2>2, <2>3, SpentNat
  <2>5. a * (b + n) = a * b + n * a
    BY <2>2, <2>3
  <2> QED
    BY <2>2, <2>4, <2>5
<1>5. IsFiniteSet(Key) /\ n * Cost[k] \in Int
  BY ConstantsAssumption
<1> QED
  BY <1>1, <1>2, <1>3, <1>4, <1>5, TotalUpdate

\* No credit is created or lost in PostgreSQL, at any commit of any
\* interleaving of charges, refunds, reserves, releases, reclaims and faults.
THEOREM CreditsConserved == Spec => []Conservation
<1>1. Init => Conservation
  <2> SUFFICES ASSUME Init PROVE Conservation
    OBVIOUS
  <2>1. Total(rem, active) = 0 /\ balance = OpeningBalance /\ deposited = OpeningBalance
    BY TotalEmpty DEF Init
  <2>2. OpeningBalance \in Nat /\ IsFiniteSet(Key) /\ Cost \in [Key -> Nat \ {0}]
    BY ConstantsAssumption
  <2>3. \A k \in Key : Spent[k] = 0
    BY <2>2 DEF Init, Spent
  <2>4. Units(Spent, Key) = {}
    BY <2>3 DEF Units
  <2>5. Total(Spent, Key) = 0
    BY <2>4, FS_EmptySet DEF Total
  <2> QED
    BY <2>1, <2>2, <2>5 DEF Conservation
<1>2. AccountInv /\ AccountInv' /\ Conservation /\ [Next]_vars => Conservation'
  <2> SUFFICES ASSUME AccountInv, AccountInv', Conservation, [Next]_vars PROVE Conservation'
    OBVIOUS
  <2>1. Funds \in Nat /\ Total(Spent, Key) \in Nat /\ deposited \in Int
    <3>1. balance \in Nat /\ Total(rem, active) \in Nat /\ deposited \in Int
      BY TypeParts, RemTotalType DEF AccountInv, LeaseType, RowType
    <3>2. Total(Spent, Key) \in Nat
      BY SpentNat, TotalType, ConstantsAssumption
    <3> QED
      BY <3>1, <3>2 DEF Funds
  <2>2. Funds + Total(Spent, Key) = deposited
    BY DEF Conservation, Funds
  <2>3. Conservation' <=> Funds' + Total(Spent', Key) = deposited'
    BY DEF Conservation, Funds
  <2>4. AccountStep
    BY StepsOfAccount
  <2>5. charges \in [Key -> Nat] /\ refunds \in [Key -> Nat]
    BY DEF AccountInv, TypeInv, TypeOK
  <2>6. CASE UNCHANGED <<Funds, charges, refunds, deposited>>
    <3>1. Spent' = Spent
      BY <2>6 DEF Spent
    <3> QED
      BY <2>2, <2>3, <2>6, <3>1
  <2>7. ASSUME NEW k \in Key, Ledger!Charge(k), UNCHANGED deposited PROVE Conservation'
    <3>1. /\ Funds' = Funds - Cost[k] /\ charges' = [charges EXCEPT ![k] = @ + 1]
          /\ refunds' = refunds
      BY <2>7 DEF Ledger!Charge, Funds
    <3>2. /\ charges'[k] - refunds'[k] = charges[k] - refunds[k] + 1
          /\ \A i \in Key \ {k} : charges'[i] = charges[i] /\ refunds'[i] = refunds[i]
      BY <2>5, <3>1
    <3>3. Total(Spent', Key) = Total(Spent, Key) + 1 * Cost[k]
      BY <3>2, SpentChanges
    <3>4. Cost[k] \in Nat
      BY ConstantsAssumption
    <3> QED
      BY <2>1, <2>2, <2>3, <2>7, <3>1, <3>3, <3>4
  <2>8. ASSUME NEW k \in Key, Ledger!Refund(k), UNCHANGED deposited PROVE Conservation'
    <3>1. /\ Funds' = Funds + Cost[k] /\ refunds' = [refunds EXCEPT ![k] = 1]
          /\ charges' = charges /\ refunds[k] = 0
      BY <2>8 DEF Ledger!Refund, Funds
    <3>2. /\ charges'[k] - refunds'[k] = charges[k] - refunds[k] + (-1)
          /\ \A i \in Key \ {k} : charges'[i] = charges[i] /\ refunds'[i] = refunds[i]
      BY <2>5, <3>1
    <3>3. Total(Spent', Key) = Total(Spent, Key) + (-1) * Cost[k]
      BY <3>2, SpentChanges
    <3>4. Cost[k] \in Nat
      BY ConstantsAssumption
    <3> QED
      BY <2>1, <2>2, <2>3, <2>8, <3>1, <3>3, <3>4
  <2>9. ASSUME NEW n \in Adjustments, Ledger!Adjust(n), deposited' = deposited + n
        PROVE  Conservation'
    <3>1. Funds' = Funds + n /\ UNCHANGED <<charges, refunds>> /\ n \in Int
      BY <2>9, ConstantsAssumption DEF Ledger!Adjust, Funds
    <3>2. Spent' = Spent
      BY <3>1 DEF Spent
    <3> QED
      BY <2>1, <2>2, <2>3, <2>9, <3>1, <3>2
  <2> QED
    BY <2>4, <2>6, <2>7, <2>8, <2>9 DEF AccountStep
<1> QED
  BY <1>1, <1>2, AccountInvariant, PTL DEF Spec

-----------------------------------------------------------------------------
(***************************************************************************)
(* A user whose requests come one at a time.                               *)
(***************************************************************************)

HIDE DEF Lease, Reclaimable, Forever

\* Requests of the user come one at a time and no two share a key, no call fails, and
\* time passes between them only.
Serial ==
    /\ MaxInFlight = 1 /\ MaxFaults = 0 /\ "tick" \notin Env
    /\ \A r, q \in Req : KeyOf[r] = KeyOf[q] => r = q

\* One request is at work, or the reclaimer, or neither; nothing fails.
OneAtATime ==
    /\ \A r, q \in Req : pc[r] \in Working /\ pc[q] \in Working => r = q
    /\ reaper => \A r \in Req : pc[r] \notin Working
    /\ budget = 0 /\ \A k \in Key : ~job[k]

\* Where a request can be: no call fails, so nothing is released, queued or compensated.
PlaceTells(r) ==
    /\ pc[r] \notin {"release", "enqueue", "compRead", "compApply", "compMark", "crashed"}
    /\ stage[r] = (IF op[r] = "charge" THEN "ensure" ELSE "refund")
    /\ pc[r] \in {"idle", "reclaim", "clear", "reserve", "incr", "markReserve", "lua", "markCharge", "charged"}
         => op[r] = "charge"
    /\ pc[r] \in {"refundLease", "incrRefund", "markRefund"} => op[r] = "refund"
    /\ ~late[r]

\* The rows a request has still to write.
Unwritten(r) ==
    /\ op[r] = "charge" /\ pc[r] \notin {"charged", "done"} => charges[KeyOf[r]] = 0
    /\ op[r] = "charge" \/ pc[r] \in Working => refunds[KeyOf[r]] = 0

Charging(r)  == pc[r] = "markCharge" \/ (pc[r] \in {"begin", "commit"} /\ op[r] = "charge")
Refunding(r) == pc[r] = "markRefund" \/ (pc[r] \in {"begin", "commit"} /\ op[r] = "refund")

\* How far the bucket is from the live leases while a request is at work, and that a
\* refund has a live lease to go to.
BucketTells(r) ==
    /\ pc[r] = "syncSet" =>
         seen[r] = LiveTotal /\ \A l \in Live : rem[l] > 0 => until[r] = ttl[l]
    /\ pc[r] = "reserve" => seen[r] = LiveTotal /\ bucket = LiveTotal
    /\ pc[r] = "incr" => bucket + seen[r] = LiveTotal /\ LiveTotal >= credits(r)
    /\ pc[r] \in {"incr", "markReserve"} => \A l \in Live : ttl[l] = TTL
    /\ pc[r] \in {"markReserve", "lua"} =>
         KeyExists /\ bucket = LiveTotal /\ LiveTotal >= credits(r)
    /\ Charging(r) => bucket + credits(r) = LiveTotal
    /\ pc[r] = "incrRefund" => bucket = LiveTotal
    /\ Refunding(r) => bucket = LiveTotal + credits(r)
    /\ op[r] = "refund" /\ pc[r] \in Working \ {"refundLease"} => Live # {}

RequestTells == \A r \in Req : PlaceTells(r) /\ Unwritten(r) /\ BucketTells(r)

\* Before a request has touched the bucket or the leases, a trusted bucket is their mirror.
Untouched == Resting \cup {"reclaim", "clear", "read", "syncRead", "syncSet", "refundLease"}
Mirrors   == Trusted => bucket = LiveTotal
Mirror    == (\A r \in Req : pc[r] \in Untouched) => Mirrors

\* A row is inserted only when none is live.
OneLiveRow == \A l, m \in Live : l = m

\* The bucket loses its version before the live row expires, except between the EXPIRE
\* that renews it and the commit that renews the row.
EndsFirst == \A l \in Live : rem[l] > 0 => verTTL <= ttl[l]
VersionEndsFirst == (\A r \in Req : pc[r] \notin {"begin", "commit"}) => EndsFirst

SerialInv ==
    TypeInv /\ OneAtATime /\ RequestTells /\ Mirror /\ OneLiveRow /\ VersionEndsFirst

-----------------------------------------------------------------------------
(***************************************************************************)
(* The building blocks.                                                    *)
(***************************************************************************)

\* The live leases and their credits follow from the rows.
LEMMA LiveSame ==
    ASSUME UNCHANGED <<active, rem, ttl>>
    PROVE  Live' = Live /\ LiveTotal' = LiveTotal
<1>1. Live' = Live
  BY DEF Live
<1> QED
  BY <1>1 DEF LiveTotal

\* Live rows are rows, and their credits a number.
LEMMA LiveType ==
    ASSUME TypeInv
    PROVE  /\ Live \subseteq active /\ Live \subseteq Lease /\ IsFiniteSet(Live)
           /\ LiveTotal \in Nat /\ bucket \in Nat
           /\ \A l \in Live : rem[l] \in Nat /\ ttl[l] \in Int /\ ttl[l] > 0 /\ ttl[l] <= TTL
           /\ verTTL \in 0..TTL /\ TTL \in Nat \ {0}
<1>1. Live \subseteq active /\ Live \subseteq Lease
  BY DEF Live, TypeInv, TypeOK
<1>2. IsFiniteSet(Live)
  BY <1>1, LeaseFinite
<1>3. LiveTotal \in Nat
  BY <1>1, TypeParts, RemTotalType DEF LiveTotal
<1>4. \A l \in Live : rem[l] \in Nat /\ ttl[l] \in Int /\ ttl[l] > 0 /\ ttl[l] <= TTL
  BY <1>1, ConstantsAssumption DEF Live, TypeInv, TypeOK
<1> QED
  BY <1>1, <1>2, <1>3, <1>4, ConstantsAssumption DEF TypeInv, TypeOK

\* Of the one live row the total is its credits.
LEMMA OneLive ==
    ASSUME TypeInv, OneLiveRow
    PROVE  /\ Live = {} => LiveTotal = 0
           /\ \A l \in Live : Live = {l} /\ LiveTotal = rem[l]
<1>1. Live = {} => LiveTotal = 0
  BY TotalEmpty DEF LiveTotal
<1>2. ASSUME NEW l \in Live PROVE Live = {l} /\ LiveTotal = rem[l]
  <2>1. Live = {l}
    BY DEF OneLiveRow
  <2>2. rem[l] \in Nat
    BY LiveType
  <2> QED
    BY <2>1, <2>2, TotalSingleton DEF LiveTotal
<1> QED
  BY <1>1, <1>2

\* Closing rows that are past their grace leaves the live ones alone.
LEMMA GiveBackLive ==
    ASSUME TypeInv, NEW S \in SUBSET active, \A l \in S : ttl[l] = Reclaimable, GiveBack(S)
    PROVE  /\ Live' = Live /\ LiveTotal' = LiveTotal
           /\ \A l \in Live : rem'[l] = rem[l] /\ ttl'[l] = ttl[l]
<1>1. \A l \in S : l \notin Live
  BY ConstantsAssumption DEF Live, Reclaimable
<1>2. \A l \in Live : rem'[l] = rem[l] /\ ttl'[l] = ttl[l]
  BY <1>1, LiveType DEF GiveBack
<1>3. Live' = Live
  <2>1. \A l \in active \ S : ttl'[l] = ttl[l]
    BY DEF GiveBack, TypeInv, TypeOK
  <2> QED
    BY <1>1, <2>1 DEF GiveBack, Live
<1>4. LiveTotal' = LiveTotal
  <2>1. Total(rem', Live) = Total(rem, Live)
    BY <1>2, TotalSame
  <2> QED
    BY <1>3, <2>1 DEF LiveTotal
<1> QED
  BY <1>2, <1>3, <1>4

\* Credits are added to the one live row, or a first one is inserted; it is renewed.
LEMMA AddLive ==
    ASSUME TypeInv, OneLiveRow, NEW n \in Nat, AddToLease(n, Live)
    PROVE  /\ LiveTotal' = LiveTotal + n
           /\ OneLiveRow' /\ Live' # {} /\ \A l \in Live' : ttl'[l] = TTL
<1>1. PICK l \in Lease : /\ IF Live = {} THEN IsNewLease(l) ELSE IsNewest(l, Live)
                         /\ active' = active \cup {l}
                         /\ rem' = [rem EXCEPT ![l] = @ + n]
                         /\ ttl' = [ttl EXCEPT ![l] = TTL]
  BY DEF AddToLease
<1>2. Live \subseteq {l}
  BY <1>1 DEF IsNewest, OneLiveRow
<1>3. Live' = {l}
  <2>1. ttl'[l] = TTL /\ TTL > 0
    BY <1>1, ConstantsAssumption DEF TypeInv, TypeOK
  <2>2. \A m \in active : m # l => ttl'[m] = ttl[m]
    BY <1>1 DEF TypeInv, TypeOK
  <2> QED
    BY <1>1, <1>2, <2>1, <2>2 DEF Live
<1>4. rem'[l] = rem[l] + n /\ rem[l] \in Nat /\ ttl'[l] = TTL
  BY <1>1 DEF TypeInv, TypeOK
<1>5. LiveTotal' = rem[l] + n
  <2>1. rem'[l] \in Nat
    BY <1>4
  <2>2. Total(rem', {l}) = rem'[l]
    BY <2>1, TotalSingleton
  <2> QED
    BY <1>3, <1>4, <2>2 DEF LiveTotal
<1>6. LiveTotal = rem[l]
  <2>1. CASE Live = {}
    <3>1. rem[l] = 0
      BY <1>1, <2>1 DEF IsNewLease, TypeInv, TypeOK
    <3> QED
      BY <2>1, <3>1, OneLive
  <2>2. CASE Live # {}
    BY <1>2, <2>2, OneLive
  <2> QED
    BY <2>1, <2>2
<1> QED
  BY <1>3, <1>4, <1>5, <1>6 DEF OneLiveRow

\* No call fails.
LEMMA AlwaysOk ==
    ASSUME Serial, OneAtATime, NEW store, NEW reply \in Replies(store)
    PROVE  reply = "ok" /\ (Answer(reply) => budget' = budget)
BY DEF OneAtATime, Replies, Answer

\* Whoever is at work is alone.
LEMMA Alone ==
    ASSUME OneAtATime, NEW r \in Req, pc[r] \in Working
    PROVE  ~reaper /\ \A q \in Req \ {r} : pc[q] \notin Working
BY DEF OneAtATime

\* Whoever enters is alone.
LEMMA EntersAlone ==
    ASSUME Serial, TypeInv, MayEnter
    PROVE  ~reaper /\ \A q \in Req : pc[q] \notin Working
<1>1. IsFiniteSet(InFlight)
  BY ConstantsAssumption, FS_Subset DEF InFlight
<1>2. Cardinality(InFlight) \in Nat
  BY <1>1, FS_CardinalityType
<1>3. Cardinality(InFlight) = 0 /\ ~reaper
  BY <1>2 DEF MayEnter, Serial, TypeInv, TypeOK
<1>4. InFlight = {}
  BY <1>1, <1>3, FS_EmptySet
<1> QED
  BY <1>3, <1>4 DEF InFlight

\* The step of a request that is alone keeps the invariant when it does so for that
\* request.
LEMMA WorkerStep ==
    ASSUME Serial, SerialInv, TypeInv', NEW r \in Req, NEW next,
           ~reaper, \A q \in Req \ {r} : pc[q] \notin Working,
           UNCHANGED <<reaper, budget, job>>, pc' = [pc EXCEPT ![r] = next],
           \A q \in Req \ {r} :
               /\ op'[q] = op[q] /\ stage'[q] = stage[q] /\ late'[q] = late[q]
               /\ charges'[KeyOf[q]] = charges[KeyOf[q]] /\ refunds'[KeyOf[q]] = refunds[KeyOf[q]],
           PlaceTells(r)', Unwritten(r)', BucketTells(r)', OneLiveRow',
           next \in Untouched => Mirrors', next \notin {"begin", "commit"} => EndsFirst'
    PROVE  SerialInv'
<1>1. pc'[r] = next /\ \A q \in Req \ {r} : pc'[q] = pc[q] /\ pc'[q] \notin Working
  BY DEF SerialInv, TypeInv, TypeOK
<1>2. OneAtATime'
  BY <1>1 DEF SerialInv, OneAtATime
<1>3. ASSUME NEW q \in Req \ {r} PROVE PlaceTells(q)' /\ Unwritten(q)' /\ BucketTells(q)'
  <2>1. PlaceTells(q)'
    BY <1>1 DEF SerialInv, RequestTells, PlaceTells
  <2>2. Unwritten(q)'
    BY <1>1 DEF SerialInv, RequestTells, Unwritten
  <2>3. BucketTells(q)'
    BY <1>1 DEF BucketTells, Charging, Refunding, Working
  <2> QED
    BY <2>1, <2>2, <2>3
<1>4. RequestTells'
  BY <1>3 DEF RequestTells
<1>5. Mirror' /\ VersionEndsFirst'
  BY <1>1 DEF Mirror, VersionEndsFirst
<1> QED
  BY <1>2, <1>4, <1>5 DEF SerialInv

\* What the invariant says of a request at work.
LEMMA AtWork ==
    ASSUME SerialInv, NEW r \in Req
    PROVE  /\ PlaceTells(r) /\ Unwritten(r) /\ BucketTells(r)
           /\ OneAtATime /\ OneLiveRow /\ TypeInv
           /\ op[r] \in {"charge", "refund"} /\ credits(r) \in Nat /\ credits(r) > 0
           /\ pc[r] \in Working => ~reaper /\ \A q \in Req \ {r} : pc[q] \notin Working
           /\ pc[r] \in {"reclaim", "clear", "read", "syncRead", "syncSet", "refundLease"} => Mirrors
           /\ pc[r] \in Working \ {"begin", "commit"} => EndsFirst
<1>1. /\ PlaceTells(r) /\ Unwritten(r) /\ BucketTells(r) /\ OneAtATime /\ OneLiveRow /\ TypeInv
      /\ op[r] \in {"charge", "refund"} /\ credits(r) \in Nat /\ credits(r) > 0
  BY CreditsType DEF SerialInv, RequestTells, TypeInv, TypeOK
<1>2. pc[r] \in Working => ~reaper /\ \A q \in Req \ {r} : pc[q] \notin Working
  BY <1>1, Alone
<1>3. \A q \in Req : pc[q] \in Resting \cup Working
  BY <1>1 DEF TypeInv, TypeOK
<1>4. ASSUME pc[r] \in {"reclaim", "clear", "read", "syncRead", "syncSet", "refundLease"} PROVE Mirrors
  <2>1. pc[r] \in Working /\ pc[r] \in Untouched
    BY <1>4 DEF Working, Untouched
  <2>2. \A q \in Req : pc[q] \in Untouched
    BY <1>2, <1>3, <2>1 DEF Untouched
  <2> QED
    BY <2>2 DEF SerialInv, Mirror
<1>5. ASSUME pc[r] \in Working \ {"begin", "commit"} PROVE EndsFirst
  <2>1. \A q \in Req : pc[q] \notin {"begin", "commit"}
    BY <1>2, <1>5 DEF Working
  <2> QED
    BY <2>1 DEF SerialInv, VersionEndsFirst
<1> QED
  BY <1>1, <1>2, <1>4, <1>5

-----------------------------------------------------------------------------
(***************************************************************************)
(* The steps.                                                              *)
(***************************************************************************)

\* A request enters when no other is at work.
LEMMA SerialStart ==
    ASSUME Serial, SerialInv, TypeInv', NEW r \in Req, StartCharge(r)
    PROVE  SerialInv'
<1>1. /\ pc[r] = "idle" /\ pc' = [pc EXCEPT ![r] = "reclaim"] /\ pc'[r] = "reclaim"
      /\ UNCHANGED <<dbVars, redisVars, localVars, reaper, budget>>
  BY DEF StartCharge, Goto, SerialInv, TypeInv, TypeOK
<1>2. ~reaper /\ \A q \in Req : pc[q] \notin Working
  BY EntersAlone DEF StartCharge, SerialInv
<1>3. PlaceTells(r) /\ Unwritten(r) /\ OneLiveRow
  BY AtWork
<1>4. op[r] = "charge"
  BY <1>1, <1>3 DEF PlaceTells
<1>5. Live' = Live /\ LiveTotal' = LiveTotal
  BY <1>1, LiveSame DEF dbVars, leaseVars
<1>6. PlaceTells(r)' /\ Unwritten(r)'
  BY <1>1, <1>3, <1>4 DEF PlaceTells, Unwritten, dbVars, rowVars, localVars
<1>7. BucketTells(r)'
  BY <1>1, <1>4 DEF BucketTells, Charging, Refunding, localVars
<1>8. Mirrors'
  <2>1. \A q \in Req : pc[q] \in Untouched
    BY <1>2 DEF SerialInv, TypeInv, TypeOK, Untouched
  <2>2. Mirrors
    BY <2>1 DEF SerialInv, Mirror
  <2> QED
    BY <1>1, <1>5, <2>2 DEF Mirrors, Trusted, KeyExists, quotaCacheCurrent, redisVars
<1>9. EndsFirst'
  <2>1. \A q \in Req : pc[q] \notin {"begin", "commit"}
    BY <1>2 DEF Working
  <2>2. EndsFirst
    BY <2>1 DEF SerialInv, VersionEndsFirst
  <2> QED
    BY <1>1, <1>5, <2>2 DEF EndsFirst, redisVars, dbVars, leaseVars
<1>10. OneLiveRow'
  BY <1>3, <1>5 DEF OneLiveRow
<1> QED
  BY <1>1, <1>2, <1>6, <1>7, <1>8, <1>9, <1>10, WorkerStep DEF dbVars, rowVars, localVars

\* A charge whose answer came stays charged.
LEMMA SerialKeep ==
    ASSUME Serial, SerialInv, TypeInv', NEW r \in Req, KeepCharge(r)
    PROVE  SerialInv'
<1>1. /\ pc[r] = "charged" /\ pc' = [pc EXCEPT ![r] = "done"] /\ pc'[r] = "done"
      /\ \A q \in Req : q # r => pc'[q] = pc[q]
      /\ UNCHANGED <<dbVars, redisVars, localVars, reaper, budget>>
  BY DEF KeepCharge, Goto, SerialInv, TypeInv, TypeOK
<1>2. Live' = Live /\ LiveTotal' = LiveTotal
  BY <1>1, LiveSame DEF dbVars, leaseVars
<1>3. OneAtATime'
  BY <1>1 DEF SerialInv, OneAtATime, Working, dbVars, rowVars
<1>4. ASSUME NEW q \in Req PROVE PlaceTells(q)' /\ Unwritten(q)' /\ BucketTells(q)'
  <2>1. PlaceTells(q) /\ Unwritten(q) /\ BucketTells(q)
    BY AtWork
  <2>2. CASE q = r
    <3>1. PlaceTells(r)'
      BY <1>1, <2>1, <2>2 DEF PlaceTells, localVars
    <3>2. Unwritten(r)'
      BY <1>1, <2>1, <2>2 DEF Unwritten, Working, PlaceTells, dbVars, rowVars, localVars
    <3>3. BucketTells(r)'
      BY <1>1 DEF BucketTells, Charging, Refunding, Working
    <3> QED
      BY <2>2, <3>1, <3>2, <3>3
  <2>3. CASE q # r
    <3>1. pc'[q] = pc[q]
      BY <1>1, <2>3
    <3>2. PlaceTells(q)' /\ Unwritten(q)'
      BY <1>1, <2>1, <3>1 DEF PlaceTells, Unwritten, dbVars, rowVars, localVars
    <3>3. BucketTells(q)'
      BY <1>1, <1>2, <2>1, <3>1
         DEF BucketTells, Charging, Refunding, KeyExists, credits, dbVars, leaseVars, redisVars, localVars
    <3> QED
      BY <3>2, <3>3
  <2> QED
    BY <2>2, <2>3
<1>5. Mirror'
  <2>1. (\A q \in Req : pc'[q] \in Untouched) => \A q \in Req : pc[q] \in Untouched
    BY <1>1 DEF Untouched, Resting
  <2> QED
    BY <1>1, <1>2, <2>1 DEF SerialInv, Mirror, Mirrors, Trusted, KeyExists, quotaCacheCurrent, redisVars
<1>6. VersionEndsFirst'
  <2>1. (\A q \in Req : pc'[q] \notin {"begin", "commit"}) => \A q \in Req : pc[q] \notin {"begin", "commit"}
    BY <1>1
  <2> QED
    BY <1>1, <1>2, <2>1 DEF SerialInv, VersionEndsFirst, EndsFirst, redisVars, dbVars, leaseVars
<1> QED
  BY <1>2, <1>3, <1>4, <1>5, <1>6 DEF SerialInv, RequestTells, OneLiveRow

\* A refund enters with a charge row behind it.
LEMMA SerialStartRefund ==
    ASSUME Serial, SerialInv, TypeInv', NEW r \in Req, StartRefund(r)
    PROVE  SerialInv'
<1>1. /\ pc[r] = "charged" /\ pc' = [pc EXCEPT ![r] = "refundLease"] /\ pc'[r] = "refundLease"
      /\ op' = [op EXCEPT ![r] = "refund"] /\ op'[r] = "refund"
      /\ stage' = [stage EXCEPT ![r] = "refund"] /\ stage'[r] = "refund"
      /\ \A q \in Req \ {r} : op'[q] = op[q] /\ stage'[q] = stage[q]
      /\ UNCHANGED <<dbVars, redisVars, seen, until, late, reaper, budget>>
  BY DEF StartRefund, Goto, SerialInv, TypeInv, TypeOK
<1>2. ~reaper /\ \A q \in Req : pc[q] \notin Working
  BY EntersAlone DEF StartRefund, SerialInv
<1>3. PlaceTells(r) /\ Unwritten(r) /\ OneLiveRow
  BY AtWork
<1>4. op[r] = "charge"
  BY <1>1, <1>3 DEF PlaceTells
<1>5. Live' = Live /\ LiveTotal' = LiveTotal
  BY <1>1, LiveSame DEF dbVars, leaseVars
<1>6. PlaceTells(r)' /\ Unwritten(r)'
  BY <1>1, <1>3, <1>4 DEF PlaceTells, Unwritten, dbVars, rowVars
<1>7. BucketTells(r)'
  BY <1>1 DEF BucketTells, Charging, Refunding
<1>8. Mirrors'
  <2>1. \A q \in Req : pc[q] \in Untouched
    BY <1>2 DEF SerialInv, TypeInv, TypeOK, Untouched
  <2>2. Mirrors
    BY <2>1 DEF SerialInv, Mirror
  <2> QED
    BY <1>1, <1>5, <2>2 DEF Mirrors, Trusted, KeyExists, quotaCacheCurrent, redisVars
<1>9. EndsFirst'
  <2>1. \A q \in Req : pc[q] \notin {"begin", "commit"}
    BY <1>2 DEF Working
  <2>2. EndsFirst
    BY <2>1 DEF SerialInv, VersionEndsFirst
  <2> QED
    BY <1>1, <1>5, <2>2 DEF EndsFirst, redisVars, dbVars, leaseVars
<1>10. OneLiveRow'
  BY <1>3, <1>5 DEF OneLiveRow
<1> QED
  BY <1>1, <1>2, <1>6, <1>7, <1>8, <1>9, <1>10, WorkerStep DEF dbVars, rowVars

\* A step of Redis leaves the rows alone.
LEMMA RowsStay ==
    ASSUME SerialInv, UNCHANGED dbVars
    PROVE  Live' = Live /\ LiveTotal' = LiveTotal /\ OneLiveRow' /\ UNCHANGED <<charges, refunds, job, active, rem, ttl>>
<1>1. Live' = Live /\ LiveTotal' = LiveTotal
  BY LiveSame DEF dbVars, leaseVars
<1> QED
  BY <1>1 DEF SerialInv, OneLiveRow, dbVars, leaseVars, rowVars

\* A request closes the rows that are past their grace; none of them is live.
LEMMA SerialReclaim ==
    ASSUME Serial, SerialInv, TypeInv', NEW r \in Req, ReclaimForUser(r)
    PROVE  SerialInv'
<1>1. /\ pc[r] = "reclaim" /\ pc[r] \in Working
      /\ UNCHANGED <<rowVars, redisVars, localVars, reaper>>
  BY DEF ReclaimForUser, Working
<1>2. PlaceTells(r) /\ Unwritten(r) /\ OneLiveRow /\ OneAtATime /\ TypeInv /\ Mirrors /\ EndsFirst
      /\ ~reaper /\ \A q \in Req \ {r} : pc[q] \notin Working
  BY <1>1, AtWork
<1>3. PICK next \in {"clear", "read"} : pc' = [pc EXCEPT ![r] = next]
  BY DEF ReclaimForUser, Goto
<1>4. pc'[r] = next
  BY <1>2, <1>3 DEF TypeInv, TypeOK
<1>5. GiveBack({l \in active : ttl[l] = Reclaimable}) /\ budget' = budget
  BY <1>2, AlwaysOk DEF ReclaimForUser
<1>6. Live' = Live /\ LiveTotal' = LiveTotal /\ \A l \in Live : rem'[l] = rem[l] /\ ttl'[l] = ttl[l]
  BY <1>2, <1>5, GiveBackLive
<1>7. op[r] = "charge"
  BY <1>1, <1>2 DEF PlaceTells
<1>8. PlaceTells(r)' /\ Unwritten(r)'
  BY <1>1, <1>2, <1>4, <1>7 DEF PlaceTells, Unwritten, Working, rowVars, localVars
<1>9. BucketTells(r)'
  BY <1>1, <1>4, <1>7 DEF BucketTells, Charging, Refunding, localVars
<1>10. Mirrors' /\ EndsFirst' /\ OneLiveRow'
  BY <1>1, <1>2, <1>6
     DEF Mirrors, EndsFirst, OneLiveRow, Trusted, KeyExists, quotaCacheCurrent, redisVars
<1> QED
  BY <1>1, <1>2, <1>3, <1>5, <1>8, <1>9, <1>10, WorkerStep DEF rowVars, localVars

\* Clearing the bucket leaves nothing to trust.
LEMMA SerialClear ==
    ASSUME Serial, SerialInv, TypeInv', NEW r \in Req, ClearAfterReclaim(r)
    PROVE  SerialInv'
<1>1. /\ pc[r] = "clear" /\ pc[r] \in Working /\ pc' = [pc EXCEPT ![r] = "read"]
      /\ UNCHANGED <<dbVars, localVars, reaper>>
  BY DEF ClearAfterReclaim, Goto, Working
<1>2. PlaceTells(r) /\ Unwritten(r) /\ OneAtATime /\ TypeInv
      /\ ~reaper /\ \A q \in Req \ {r} : pc[q] \notin Working
  BY <1>1, AtWork
<1>3. clearQuotaCache /\ budget' = budget
  BY <1>2, AlwaysOk DEF ClearAfterReclaim
<1>4. pc'[r] = "read" /\ op[r] = "charge"
  BY <1>1, <1>2 DEF TypeInv, TypeOK, PlaceTells
<1>5. PlaceTells(r)' /\ Unwritten(r)'
  BY <1>1, <1>2, <1>4 DEF PlaceTells, Unwritten, Working, dbVars, rowVars, localVars
<1>6. BucketTells(r)'
  BY <1>1, <1>4 DEF BucketTells, Charging, Refunding, localVars
<1>7. Live' = Live /\ OneLiveRow' /\ UNCHANGED <<charges, refunds, job, ttl>>
  BY <1>1, RowsStay
<1>8. Mirrors' /\ EndsFirst'
  <2>1. verTTL' = 0
    BY <1>3 DEF clearQuotaCache
  <2>2. \A l \in Live' : 0 <= ttl'[l]
    BY <1>2, <1>7, LiveType
  <2> QED
    BY <2>1, <2>2 DEF Mirrors, EndsFirst, Trusted, quotaCacheCurrent
<1> QED
  BY <1>1, <1>2, <1>3, <1>5, <1>6, <1>7, <1>8, WorkerStep DEF localVars

\* GET answers with a bucket that mirrors the leases, or the bucket is rebuilt.
LEMMA SerialRead ==
    ASSUME Serial, SerialInv, TypeInv', NEW r \in Req, QuotaRemaining(r)
    PROVE  SerialInv'
<1>1. /\ pc[r] = "read" /\ pc[r] \in Working
      /\ UNCHANGED <<dbVars, redisVars, op, until, late, reaper>>
  BY DEF QuotaRemaining, Working
<1>2. /\ PlaceTells(r) /\ Unwritten(r) /\ BucketTells(r) /\ OneAtATime /\ TypeInv /\ Mirrors /\ EndsFirst
      /\ ~reaper /\ \A q \in Req \ {r} : pc[q] \notin Working
      /\ op[r] \in {"charge", "refund"}
  BY <1>1, AtWork
<1>3. /\ budget' = budget /\ stage' = stage
      /\ \/ Trusted /\ seen' = [seen EXCEPT ![r] = bucket] /\ pc' = [pc EXCEPT ![r] = AfterRemaining(r, bucket)]
         \/ ~Trusted /\ UNCHANGED seen /\ pc' = [pc EXCEPT ![r] = "syncRead"]
  <2>1. PICK reply \in Replies("redis") :
          /\ Answer(reply)
          /\ IF reply # "ok"
             THEN Goto(r, "failed") /\ UNCHANGED <<seen, stage>>
             ELSE IF Trusted
                  THEN Read(r, bucket) /\ Goto(r, AfterRemaining(r, bucket)) /\ UNCHANGED stage
                  ELSE Goto(r, "syncRead") /\ UNCHANGED <<seen, stage>>
    BY DEF QuotaRemaining
  <2>2. reply = "ok" /\ budget' = budget
    BY <1>2, <2>1, AlwaysOk
  <2> QED
    BY <2>1, <2>2 DEF Goto, Read
<1>4. Live' = Live /\ LiveTotal' = LiveTotal /\ OneLiveRow' /\ UNCHANGED <<charges, refunds, job, active, rem, ttl>>
  BY <1>1, RowsStay
<1>5. Mirrors' /\ EndsFirst'
  BY <1>1, <1>2, <1>4
     DEF Mirrors, EndsFirst, Trusted, KeyExists, quotaCacheCurrent, redisVars
<1>6. CASE ~Trusted /\ UNCHANGED seen /\ pc' = [pc EXCEPT ![r] = "syncRead"]
  <2>1. pc'[r] = "syncRead"
    BY <1>2, <1>6 DEF TypeInv, TypeOK
  <2>2. PlaceTells(r)' /\ Unwritten(r)'
    BY <1>1, <1>2, <1>3, <1>4, <2>1 DEF PlaceTells, Unwritten, Working
  <2>3. BucketTells(r)'
    BY <1>1, <1>2, <1>4, <2>1 DEF BucketTells, Charging, Refunding, Working
  <2> QED
    BY <1>1, <1>2, <1>3, <1>4, <1>5, <1>6, <2>2, <2>3, WorkerStep
<1>7. CASE Trusted /\ seen' = [seen EXCEPT ![r] = bucket] /\ pc' = [pc EXCEPT ![r] = AfterRemaining(r, bucket)]
  <2> DEFINE next == AfterRemaining(r, bucket)
  <2>1. pc'[r] = next /\ seen'[r] = bucket /\ bucket = LiveTotal
    BY <1>2, <1>7 DEF TypeInv, TypeOK, Mirrors
  <2>2. /\ op[r] = "charge" => next = (IF bucket >= credits(r) THEN "lua" ELSE "reserve")
        /\ op[r] = "refund" => next = "incrRefund"
    BY <1>2 DEF PlaceTells, AfterRemaining
  <2>3. PlaceTells(r)' /\ Unwritten(r)'
    BY <1>1, <1>2, <1>3, <1>4, <2>1, <2>2 DEF PlaceTells, Unwritten, Working
  <2>4. BucketTells(r)'
    <3>1. op[r] = "charge" => BucketTells(r)'
      BY <1>1, <1>4, <1>7, <2>1, <2>2
         DEF BucketTells, Charging, Refunding, Working, Trusted, KeyExists, redisVars, credits
    <3>2. op[r] = "refund" => BucketTells(r)'
      BY <1>1, <1>2, <1>4, <2>1, <2>2
         DEF BucketTells, Charging, Refunding, Working, redisVars
    <3> QED
      BY <1>2, <3>1, <3>2
  <2>5. next \in {"lua", "reserve", "incrRefund"}
    BY <1>2, <2>2
  <2> QED
    BY <1>1, <1>2, <1>3, <1>4, <1>5, <1>7, <2>3, <2>4, <2>5, WorkerStep
<1> QED
  BY <1>3, <1>6, <1>7

\* A rebuild reads the total of the live leases and the life of their row.
LEMMA SerialSyncRead ==
    ASSUME Serial, SerialInv, TypeInv', NEW r \in Req, SyncRead(r)
    PROVE  SerialInv'
<1> DEFINE funded == {l \in Live : rem[l] > 0}
<1>1. /\ pc[r] = "syncRead" /\ pc[r] \in Working
      /\ UNCHANGED <<dbVars, redisVars, op, stage, late, reaper>>
  BY DEF SyncRead, Working
<1>2. /\ PlaceTells(r) /\ Unwritten(r) /\ BucketTells(r) /\ OneAtATime /\ TypeInv /\ Mirrors /\ EndsFirst
      /\ OneLiveRow /\ ~reaper /\ \A q \in Req \ {r} : pc[q] \notin Working
  BY <1>1, AtWork
<1>3. /\ budget' = budget /\ pc' = [pc EXCEPT ![r] = "syncSet"] /\ seen' = [seen EXCEPT ![r] = LiveTotal]
      /\ funded # {} => \E l \in funded : until' = [until EXCEPT ![r] = ttl[l]]
  BY <1>2 DEF SyncRead, Goto, Read, OneAtATime
<1>4. Live' = Live /\ LiveTotal' = LiveTotal /\ OneLiveRow' /\ UNCHANGED <<charges, refunds, job, active, rem, ttl>>
  BY <1>1, RowsStay
<1>5. pc'[r] = "syncSet" /\ seen'[r] = LiveTotal
  BY <1>2, <1>3 DEF TypeInv, TypeOK
<1>6. \A l \in Live : rem[l] > 0 => until'[r] = ttl[l]
  BY <1>2, <1>3 DEF OneLiveRow, TypeInv, TypeOK
<1>7. PlaceTells(r)' /\ Unwritten(r)'
  BY <1>1, <1>2, <1>4, <1>5 DEF PlaceTells, Unwritten, Working
<1>8. BucketTells(r)'
  BY <1>1, <1>2, <1>4, <1>5, <1>6 DEF BucketTells, Charging, Refunding, Working
<1>9. Mirrors' /\ EndsFirst'
  BY <1>1, <1>2, <1>4
     DEF Mirrors, EndsFirst, Trusted, KeyExists, quotaCacheCurrent, redisVars
<1> QED
  BY <1>1, <1>2, <1>3, <1>4, <1>7, <1>8, <1>9, WorkerStep

\* It SETs what it read: nobody wrote a row in between.
LEMMA SerialSyncSet ==
    ASSUME Serial, SerialInv, TypeInv', NEW r \in Req, SyncSet(r)
    PROVE  SerialInv'
<1> DEFINE usable == seen[r] > 0 /\ until[r] + Grace > 0
           next == AfterRemaining(r, seen[r])
<1>1. /\ pc[r] = "syncSet" /\ pc[r] \in Working
      /\ UNCHANGED <<dbVars, op, late, reaper>>
  BY DEF SyncSet, Working
<1>2. /\ PlaceTells(r) /\ Unwritten(r) /\ BucketTells(r) /\ OneAtATime /\ TypeInv /\ Mirrors /\ EndsFirst
      /\ OneLiveRow /\ ~reaper /\ \A q \in Req \ {r} : pc[q] \notin Working
      /\ op[r] \in {"charge", "refund"}
  BY <1>1, AtWork
<1>3. Live' = Live /\ LiveTotal' = LiveTotal /\ OneLiveRow' /\ UNCHANGED <<charges, refunds, job, active, rem, ttl>>
  BY <1>1, RowsStay
<1>4. seen[r] = LiveTotal /\ \A l \in Live : rem[l] > 0 => until[r] = ttl[l]
  BY <1>1, <1>2 DEF BucketTells
\* A total comes from the live row, whose expiry was read with it.
<1>5. ASSUME seen[r] > 0 PROVE \E l \in Live : Live = {l} /\ rem[l] > 0 /\ until[r] = ttl[l] /\ ttl[l] > 0
  <2>1. PICK l \in Live : TRUE
    BY <1>2, <1>4, <1>5, OneLive
  <2>2. Live = {l} /\ LiveTotal = rem[l]
    BY <1>2, OneLive
  <2> QED
    BY <1>2, <1>4, <1>5, <2>2, LiveType
<1>6. usable <=> seen[r] > 0
  BY <1>2, <1>5, LiveType, ConstantsAssumption
<1>7. PICK reply \in Replies("redis") :
        /\ Answer(reply)
        /\ CASE reply = "refused" -> UNCHANGED redisVars
             [] usable /\ reply # "refused" ->
                  bucket' = seen[r] /\ keyTTL' = quotaTTL(r) /\ verTTL' = quotaTTL(r)
             [] OTHER -> clearQuotaCache
        /\ Read(r, IF usable THEN seen[r] ELSE 0)
        /\ Goto(r, IF usable /\ reply # "ok" THEN AfterError(r)
                   ELSE AfterRemaining(r, seen'[r]))
  BY DEF SyncSet
<1>8. reply = "ok" /\ budget' = budget
  BY <1>2, <1>7, AlwaysOk
<1>9. seen' = seen /\ seen'[r] = LiveTotal
  <2>1. (IF usable THEN seen[r] ELSE 0) = seen[r]
    BY <1>2, <1>6 DEF TypeInv, TypeOK
  <2>2. seen' = [seen EXCEPT ![r] = seen[r]]
    BY <1>7, <2>1 DEF Read
  <2> QED
    BY <1>2, <1>4, <2>2 DEF TypeInv, TypeOK
<1>10. pc' = [pc EXCEPT ![r] = next] /\ pc'[r] = next
  BY <1>2, <1>7, <1>8, <1>9 DEF Goto, TypeInv, TypeOK
<1>11. stage' = stage
  <2>1. stage[r] # "missing"
    BY <1>2 DEF PlaceTells
  <2>2. stage' = [stage EXCEPT ![r] = IF stage[r] = "missing" THEN "reensure" ELSE stage[r]]
    BY DEF SyncSet
  <2> QED
    BY <1>2, <2>1, <2>2 DEF TypeInv, TypeOK
<1>12. /\ op[r] = "charge" => next = (IF seen[r] >= credits(r) THEN "lua" ELSE "reserve")
       /\ op[r] = "refund" => next = "incrRefund"
  BY <1>2 DEF PlaceTells, AfterRemaining
<1>13. /\ bucket' = LiveTotal /\ \A l \in Live : rem[l] > 0 => verTTL' <= ttl[l]
       /\ LiveTotal > 0 => keyTTL' > 0
  <2>1. CASE usable
    <3>1. bucket' = seen[r] /\ keyTTL' = quotaTTL(r) /\ verTTL' = quotaTTL(r)
      BY <1>7, <1>8, <2>1
    <3>2. PICK l \in Live : Live = {l} /\ until[r] = ttl[l] /\ ttl[l] > 0
      BY <1>5, <2>1
    <3>3. quotaTTL(r) = ttl[l]
      BY <3>2 DEF quotaTTL
    <3>4. ttl[l] \in Int
      BY <1>2, LiveType
    <3> QED
      BY <1>4, <3>1, <3>2, <3>3, <3>4
  <2>2. CASE ~usable
    <3>1. bucket' = 0 /\ verTTL' = 0
      BY <1>7, <1>8, <2>2 DEF clearQuotaCache
    <3>2. LiveTotal = 0
      BY <1>2, <1>4, <1>6, <2>2, LiveType
    <3> QED
      BY <1>2, <3>1, <3>2, LiveType
  <2> QED
    BY <2>1, <2>2
<1>14. PlaceTells(r)' /\ Unwritten(r)'
  BY <1>1, <1>2, <1>3, <1>10, <1>11, <1>12 DEF PlaceTells, Unwritten, Working
<1>15. BucketTells(r)'
  <2>1. credits(r) \in Nat /\ credits(r) > 0 /\ LiveTotal \in Nat
    BY <1>2, CreditsType, LiveType
  <2>2. op[r] = "charge" => BucketTells(r)'
    BY <1>1, <1>3, <1>4, <1>9, <1>10, <1>12, <1>13, <2>1
       DEF BucketTells, Charging, Refunding, Working, KeyExists, credits
  <2>3. op[r] = "refund" => BucketTells(r)'
    BY <1>1, <1>2, <1>3, <1>10, <1>12, <1>13
       DEF BucketTells, Charging, Refunding, Working
  <2> QED
    BY <1>2, <2>2, <2>3
<1>16. Mirrors' /\ EndsFirst'
  BY <1>3, <1>13 DEF Mirrors, EndsFirst
<1>17. \A q \in Req \ {r} : stage'[q] = stage[q]
  BY <1>11
<1> QED
  BY <1>1, <1>2, <1>3, <1>8, <1>10, <1>14, <1>15, <1>16, <1>17, WorkerStep

\* A reserve adds to the one live row, or inserts the first one.
LEMMA SerialReserve ==
    ASSUME Serial, SerialInv, TypeInv', NEW r \in Req, ReserveQuota(r)
    PROVE  SerialInv'
<1> DEFINE needed == credits(r) - seen[r]
<1>1. /\ pc[r] = "reserve" /\ pc[r] \in Working
      /\ UNCHANGED <<rowVars, redisVars, op, stage, until, late, reaper>>
  BY DEF ReserveQuota, Working
<1>2. /\ PlaceTells(r) /\ Unwritten(r) /\ BucketTells(r) /\ OneAtATime /\ TypeInv /\ EndsFirst
      /\ OneLiveRow /\ ~reaper /\ \A q \in Req \ {r} : pc[q] \notin Working
      /\ credits(r) \in Nat
  BY <1>1, AtWork
<1>3. /\ seen[r] = LiveTotal /\ bucket = LiveTotal /\ op[r] = "charge"
      /\ needed \in Nat /\ needed > 0 /\ LiveTotal \in Nat
  BY <1>1, <1>2, LiveType DEF BucketTells, PlaceTells, TypeInv, ReserveGap
<1>4. CASE Goto(r, "refused") /\ UNCHANGED <<leaseVars, seen, budget>>
  <2>1. pc' = [pc EXCEPT ![r] = "refused"] /\ pc'[r] = "refused"
    BY <1>2, <1>4 DEF Goto, TypeInv, TypeOK
  <2>2. Live' = Live /\ LiveTotal' = LiveTotal
    BY <1>4, LiveSame DEF leaseVars
  <2>3. PlaceTells(r)' /\ Unwritten(r)'
    BY <1>1, <1>2, <1>3, <2>1 DEF PlaceTells, Unwritten, Working, rowVars
  <2>4. BucketTells(r)'
    BY <1>1, <1>3, <2>1 DEF BucketTells, Charging, Refunding
  <2>5. Mirrors' /\ EndsFirst' /\ OneLiveRow'
    BY <1>1, <1>2, <1>3, <1>4, <2>2 DEF Mirrors, EndsFirst, OneLiveRow, redisVars, leaseVars
  <2> QED
    BY <1>1, <1>2, <1>4, <2>1, <2>3, <2>4, <2>5, WorkerStep DEF rowVars
<1>5. CASE ~(Goto(r, "refused") /\ UNCHANGED <<leaseVars, seen, budget>>)
  <2>1. PICK reply \in Replies("db") :
          /\ Answer(reply)
          /\ IF reply = "refused" THEN UNCHANGED leaseVars
             ELSE balance' = balance - needed /\ AddToLease(needed, Live)
          /\ Goto(r, IF reply = "ok" THEN "incr" ELSE "failed")
    BY <1>5 DEF ReserveQuota, quotaReserveNeeded
  <2>2. reply = "ok" /\ budget' = budget
    BY <1>2, <2>1, AlwaysOk
  <2>3. AddToLease(needed, Live) /\ pc' = [pc EXCEPT ![r] = "incr"] /\ pc'[r] = "incr"
    BY <1>2, <2>1, <2>2 DEF Goto, TypeInv, TypeOK
  <2>4. seen'[r] = needed
    BY <1>2, <1>5 DEF ReserveQuota, quotaReserveNeeded, Read, TypeInv, TypeOK
  <2>5. LiveTotal' = LiveTotal + needed /\ OneLiveRow' /\ \A l \in Live' : ttl'[l] = TTL
    BY <1>2, <1>3, <2>3, AddLive
  <2>6. PlaceTells(r)' /\ Unwritten(r)'
    BY <1>1, <1>2, <1>3, <2>3 DEF PlaceTells, Unwritten, Working, rowVars
  <2>7. BucketTells(r)'
    BY <1>1, <1>2, <1>3, <2>3, <2>4, <2>5 DEF BucketTells, Charging, Refunding, credits, redisVars
  <2>8. EndsFirst'
    BY <1>1, <1>2, <2>5, LiveType DEF EndsFirst, redisVars
  <2> QED
    BY <1>1, <1>2, <2>2, <2>3, <2>5, <2>6, <2>7, <2>8, WorkerStep DEF rowVars, Untouched, Resting, Terminal
<1> QED
  BY <1>4, <1>5

\* markAndExpire of a bucket that mirrors the leases.
LEMMA MarkedEndsFirst ==
    ASSUME TypeInv, \A l \in Live : ttl[l] = TTL, UNCHANGED dbVars, markAndExpire
    PROVE  EndsFirst'
<1>1. Live' = Live /\ ttl' = ttl
  BY LiveSame DEF dbVars, leaseVars
<1> QED
  BY <1>1, LiveType DEF EndsFirst, markAndExpire

\* The bucket catches up with the reserve.
LEMMA SerialIncr ==
    ASSUME Serial, SerialInv, TypeInv', NEW r \in Req, IncrReserve(r)
    PROVE  SerialInv'
<1>1. /\ pc[r] = "incr" /\ pc[r] \in Working /\ UNCHANGED <<dbVars, localVars, reaper>>
  BY DEF IncrReserve, Working
<1>2. /\ PlaceTells(r) /\ Unwritten(r) /\ BucketTells(r) /\ OneAtATime /\ TypeInv /\ EndsFirst
      /\ ~reaper /\ \A q \in Req \ {r} : pc[q] \notin Working
  BY <1>1, AtWork
<1>3. IncrBy(seen[r]) /\ pc' = [pc EXCEPT ![r] = "markReserve"] /\ budget' = budget
  BY <1>2, AlwaysOk DEF IncrReserve, Goto
<1>4. pc'[r] = "markReserve" /\ op[r] = "charge"
  BY <1>1, <1>2, <1>3 DEF TypeInv, TypeOK, PlaceTells
<1>5. Live' = Live /\ LiveTotal' = LiveTotal /\ OneLiveRow' /\ UNCHANGED <<charges, refunds, job, active, rem, ttl>>
  BY <1>1, RowsStay
<1>6. bucket' = LiveTotal' /\ KeyExists' /\ verTTL' = verTTL
  BY <1>1, <1>2, <1>3, <1>5, ConstantsAssumption DEF BucketTells, IncrBy, KeyExists, Forever
<1>7. PlaceTells(r)' /\ Unwritten(r)'
  BY <1>1, <1>2, <1>4, <1>5 DEF PlaceTells, Unwritten, Working, localVars
<1>8. BucketTells(r)'
  BY <1>1, <1>2, <1>4, <1>5, <1>6 DEF BucketTells, Charging, Refunding, credits, localVars
<1>9. EndsFirst'
  BY <1>2, <1>5, <1>6 DEF EndsFirst
<1> QED
  BY <1>1, <1>2, <1>3, <1>5, <1>7, <1>8, <1>9, WorkerStep DEF localVars, Untouched, Resting, Terminal

\* The version of the bucket is renewed after the row was.
LEMMA SerialMark ==
    ASSUME Serial, SerialInv, TypeInv', NEW r \in Req, MarkReserve(r)
    PROVE  SerialInv'
<1>1. /\ pc[r] = "markReserve" /\ pc[r] \in Working /\ UNCHANGED <<dbVars, localVars, reaper>>
  BY DEF MarkReserve, Working
<1>2. /\ PlaceTells(r) /\ Unwritten(r) /\ BucketTells(r) /\ OneAtATime /\ TypeInv
      /\ ~reaper /\ \A q \in Req \ {r} : pc[q] \notin Working
  BY <1>1, AtWork
<1>3. markAndExpire /\ pc' = [pc EXCEPT ![r] = "lua"] /\ budget' = budget
  BY <1>2, AlwaysOk DEF MarkReserve, Goto
<1>4. pc'[r] = "lua" /\ op[r] = "charge"
  BY <1>1, <1>2, <1>3 DEF TypeInv, TypeOK, PlaceTells
<1>5. Live' = Live /\ LiveTotal' = LiveTotal /\ OneLiveRow' /\ UNCHANGED <<charges, refunds, job, active, rem, ttl>>
  BY <1>1, RowsStay
<1>6. bucket' = bucket /\ KeyExists' /\ verTTL' = TTL
  BY <1>1, <1>2, <1>3, ConstantsAssumption DEF BucketTells, markAndExpire, KeyExists
<1>7. PlaceTells(r)' /\ Unwritten(r)'
  BY <1>1, <1>2, <1>4, <1>5 DEF PlaceTells, Unwritten, Working, localVars
<1>8. BucketTells(r)'
  BY <1>1, <1>2, <1>4, <1>5, <1>6 DEF BucketTells, Charging, Refunding, credits, localVars
<1>9. EndsFirst'
  BY <1>1, <1>2, <1>5, <1>6, ConstantsAssumption DEF EndsFirst, BucketTells
<1> QED
  BY <1>1, <1>2, <1>3, <1>5, <1>7, <1>8, <1>9, WorkerStep DEF localVars, Untouched, Resting, Terminal

\* The charge of Redis finds what it needs, at the first attempt.
LEMMA SerialLua ==
    ASSUME Serial, SerialInv, TypeInv', NEW r \in Req, LuaCharge(r)
    PROVE  SerialInv'
<1>1. /\ pc[r] = "lua" /\ pc[r] \in Working /\ UNCHANGED <<dbVars, op, seen, until, late, reaper>>
  BY DEF LuaCharge, Working
<1>2. /\ PlaceTells(r) /\ Unwritten(r) /\ BucketTells(r) /\ OneAtATime /\ TypeInv /\ EndsFirst
      /\ ~reaper /\ \A q \in Req \ {r} : pc[q] \notin Working /\ credits(r) \in Nat
  BY <1>1, AtWork
<1>3. KeyExists /\ bucket >= credits(r) /\ bucket = LiveTotal /\ op[r] = "charge"
  BY <1>1, <1>2 DEF BucketTells, PlaceTells
<1>4. PICK reply \in Replies("redis") :
        /\ Answer(reply)
        /\ IF KeyExists /\ bucket >= credits(r) /\ reply # "refused"
           THEN bucket' = bucket - credits(r) /\ UNCHANGED <<keyTTL, verTTL>>
           ELSE UNCHANGED redisVars
        /\ reply = "ok" /\ KeyExists /\ bucket >= credits(r) => Goto(r, "markCharge") /\ UNCHANGED stage
  BY DEF LuaCharge
<1>5. /\ budget' = budget /\ bucket' = bucket - credits(r) /\ UNCHANGED <<keyTTL, verTTL, stage>>
      /\ pc' = [pc EXCEPT ![r] = "markCharge"]
  BY <1>2, <1>3, <1>4, AlwaysOk DEF Goto
<1>6. pc'[r] = "markCharge"
  BY <1>2, <1>5 DEF TypeInv, TypeOK
<1>7. Live' = Live /\ LiveTotal' = LiveTotal /\ OneLiveRow' /\ UNCHANGED <<charges, refunds, job, active, rem, ttl>>
  BY <1>1, RowsStay
<1>8. PlaceTells(r)' /\ Unwritten(r)'
  BY <1>1, <1>2, <1>3, <1>5, <1>6, <1>7 DEF PlaceTells, Unwritten, Working
<1>9. BucketTells(r)'
  <2>1. credits(r) \in Nat /\ bucket \in Nat
    BY <1>2, CreditsType, LiveType
  <2>2. bucket' + credits(r)' = LiveTotal'
    BY <1>3, <1>5, <1>7, <2>1 DEF credits
  <2> QED
    BY <1>1, <1>3, <1>6, <2>2 DEF BucketTells, Charging, Refunding
<1>10. EndsFirst'
  BY <1>2, <1>5, <1>7 DEF EndsFirst
<1> QED
  BY <1>1, <1>2, <1>5, <1>7, <1>8, <1>9, <1>10, WorkerStep DEF Untouched, Resting, Terminal

\* The version is renewed after the charge of Redis, before the row.
LEMMA SerialMarkCharge ==
    ASSUME Serial, SerialInv, TypeInv', NEW r \in Req, MarkCharge(r) \/ MarkRefund(r)
    PROVE  SerialInv'
<1>1. /\ pc[r] \in {"markCharge", "markRefund"} /\ pc[r] \in Working
      /\ UNCHANGED <<dbVars, localVars, reaper>>
  BY DEF MarkCharge, MarkRefund, Working
<1>2. /\ PlaceTells(r) /\ Unwritten(r) /\ BucketTells(r) /\ OneAtATime /\ TypeInv
      /\ ~reaper /\ \A q \in Req \ {r} : pc[q] \notin Working
  BY <1>1, AtWork
<1>3. bucket' = bucket /\ pc' = [pc EXCEPT ![r] = "begin"] /\ budget' = budget
  <2>1. CASE MarkCharge(r)
    BY <1>2, <2>1, AlwaysOk DEF MarkCharge, Goto, markAndExpire
  <2>2. CASE MarkRefund(r)
    BY <1>2, <2>2, AlwaysOk DEF MarkRefund, Goto, markAndExpire
  <2> QED
    BY <2>1, <2>2
<1>4. pc'[r] = "begin" /\ (pc[r] = "markCharge" <=> op[r] = "charge") /\ (pc[r] = "markRefund" <=> op[r] = "refund")
  BY <1>1, <1>2, <1>3 DEF TypeInv, TypeOK, PlaceTells
<1>5. Live' = Live /\ LiveTotal' = LiveTotal /\ OneLiveRow' /\ UNCHANGED <<charges, refunds, job, active, rem, ttl>>
  BY <1>1, RowsStay
<1>6. PlaceTells(r)' /\ Unwritten(r)'
  BY <1>1, <1>2, <1>4, <1>5 DEF PlaceTells, Unwritten, Working, localVars
<1>7. BucketTells(r)'
  BY <1>1, <1>2, <1>3, <1>4, <1>5 DEF BucketTells, Charging, Refunding, Working, credits, localVars
<1> QED
  BY <1>1, <1>2, <1>3, <1>5, <1>6, <1>7, WorkerStep DEF localVars, Untouched, Resting, Terminal

\* A refund enters the bucket before its row.
LEMMA SerialIncrRefund ==
    ASSUME Serial, SerialInv, TypeInv', NEW r \in Req, IncrRefund(r)
    PROVE  SerialInv'
<1>1. /\ pc[r] = "incrRefund" /\ pc[r] \in Working /\ UNCHANGED <<dbVars, localVars, reaper>>
  BY DEF IncrRefund, Working
<1>2. /\ PlaceTells(r) /\ Unwritten(r) /\ BucketTells(r) /\ OneAtATime /\ TypeInv /\ EndsFirst
      /\ ~reaper /\ \A q \in Req \ {r} : pc[q] \notin Working
  BY <1>1, AtWork
<1>3. IncrBy(credits(r)) /\ pc' = [pc EXCEPT ![r] = "markRefund"] /\ budget' = budget
  BY <1>2, AlwaysOk DEF IncrRefund, Goto
<1>4. pc'[r] = "markRefund" /\ op[r] = "refund"
  BY <1>1, <1>2, <1>3 DEF TypeInv, TypeOK, PlaceTells
<1>5. Live' = Live /\ LiveTotal' = LiveTotal /\ OneLiveRow' /\ UNCHANGED <<charges, refunds, job, active, rem, ttl>>
  BY <1>1, RowsStay
<1>6. bucket' = LiveTotal' + credits(r)' /\ verTTL' = verTTL
  BY <1>1, <1>2, <1>3, <1>5 DEF BucketTells, IncrBy, credits
<1>7. PlaceTells(r)' /\ Unwritten(r)'
  BY <1>1, <1>2, <1>4, <1>5 DEF PlaceTells, Unwritten, Working, localVars
<1>8. BucketTells(r)'
  BY <1>1, <1>2, <1>4, <1>5, <1>6 DEF BucketTells, Charging, Refunding, Working, localVars
<1>9. EndsFirst'
  BY <1>2, <1>5, <1>6 DEF EndsFirst
<1> QED
  BY <1>1, <1>2, <1>3, <1>5, <1>7, <1>8, <1>9, WorkerStep DEF localVars, Untouched, Resting, Terminal

\* No row with the dedupe key of the request was written before.
LEMMA SerialBegin ==
    ASSUME Serial, SerialInv, TypeInv', NEW r \in Req, BeginTx(r)
    PROVE  SerialInv'
<1>1. /\ pc[r] = "begin" /\ pc[r] \in Working /\ UNCHANGED <<dbVars, redisVars, localVars, reaper>>
  BY DEF BeginTx, Working
<1>2. /\ PlaceTells(r) /\ Unwritten(r) /\ BucketTells(r) /\ OneAtATime /\ TypeInv
      /\ ~reaper /\ \A q \in Req \ {r} : pc[q] \notin Working
      /\ op[r] \in {"charge", "refund"} /\ KeyOf[r] \in Key
  BY <1>1, AtWork, CreditsType
<1>3. /\ op[r] = "charge" => charges[KeyOf[r]] = 0
      /\ refunds[KeyOf[r]] = 0
  BY <1>1, <1>2 DEF Unwritten
<1>4. pc' = [pc EXCEPT ![r] = "commit"] /\ budget' = budget
  BY <1>2, <1>3 DEF BeginTx, Goto, OneAtATime
<1>5. pc'[r] = "commit"
  BY <1>2, <1>4 DEF TypeInv, TypeOK
<1>6. Live' = Live /\ LiveTotal' = LiveTotal /\ OneLiveRow' /\ UNCHANGED <<charges, refunds, job, active, rem, ttl>>
  BY <1>1, RowsStay
<1>7. PlaceTells(r)' /\ Unwritten(r)'
  BY <1>1, <1>2, <1>5, <1>6 DEF PlaceTells, Unwritten, Working, localVars
<1>8. BucketTells(r)'
  BY <1>1, <1>2, <1>5, <1>6 DEF BucketTells, Charging, Refunding, Working, credits, localVars, redisVars
<1> QED
  BY <1>1, <1>2, <1>4, <1>6, <1>7, <1>8, WorkerStep DEF localVars, Untouched, Resting, Terminal

\* Of the one live row a debit takes the whole charge.
LEMMA DebitLive ==
    ASSUME TypeInv, OneLiveRow, NEW c \in Nat, c > 0,
           NEW d \in DebitPlans({l \in Live : rem[l] > 0}, c),
           UNCHANGED active,
           rem' = [l \in Lease |-> IF l \in {m \in Live : rem[m] > 0} THEN rem[l] - d[l] ELSE rem[l]],
           ttl' = [l \in Lease |-> IF l \in {m \in Live : rem[m] > 0} /\ d[l] > 0 THEN TTL ELSE ttl[l]]
    PROVE  Live' = Live /\ LiveTotal' = LiveTotal - c /\ \A l \in Live' : ttl'[l] = TTL
<1> DEFINE S == {l \in Live : rem[l] > 0}
<1>1. d \in [S -> 0..c] /\ Total(d, S) = c
  BY DEF DebitPlans
<1>2. PICK l \in Live : l \in S
  <2>1. S # {}
    <3> HIDE DEF S
    <3>1. ASSUME S = {} PROVE Total(d, S) = 0
      BY <3>1, TotalEmpty, Zenon
    <3>2. Total(d, S) # 0
      BY <1>1
    <3> QED
      BY <3>1, <3>2
  <2> QED
    BY <2>1
<1>3. Live = {l} /\ S = {l} /\ LiveTotal = rem[l] /\ l \in Lease /\ rem[l] \in Nat /\ TTL > 0
  BY <1>2, OneLive, LiveType
<1>4. d[l] = c
  <2>1. d[l] \in Nat
    BY <1>1, <1>3
  <2>2. Total(d, {l}) = d[l]
    BY <2>1, TotalSingleton
  <2> QED
    BY <1>1, <1>3, <2>2
<1>5. rem'[l] = rem[l] - c /\ ttl'[l] = TTL /\ \A m \in Lease : m # l => ttl'[m] = ttl[m]
  BY <1>3, <1>4
<1>6. Live' = {l}
  BY <1>3, <1>5 DEF Live, TypeInv, TypeOK
<1>7. rem'[l] \in Nat
  <2>1. d[l] <= rem[l]
    BY <1>3 DEF DebitPlans
  <2> QED
    BY <1>3, <1>4, <1>5, <2>1
<1>8. LiveTotal' = rem'[l]
  BY <1>6, <1>7, TotalSingleton DEF LiveTotal
<1> QED
  BY <1>3, <1>5, <1>6, <1>8

\* The leases that are funded hold what the live ones hold.
LEMMA FundedTotal ==
    ASSUME TypeInv
    PROVE  Total(rem, {l \in Live : rem[l] > 0}) = LiveTotal
<1> DEFINE S == {l \in Live : rem[l] > 0}
<1>1. IsFiniteSet(Live) /\ \A l \in Live : rem[l] \in Nat
  BY LiveType
<1>2. Total(rem, Live) = Total(rem, S) + Total(rem, Live \ S)
  BY <1>1, TotalSplit
<1>3. Total(rem, Live \ S) = 0
  <2>1. \A l \in Live \ S : rem[l] = 0
    BY <1>1
  <2> QED
    BY <2>1, TotalZero
<1>4. Total(rem, S) \in Nat
  <2>1. IsFiniteSet(S)
    BY <1>1, FS_Subset
  <2> QED
    BY <1>1, <2>1, TotalType
<1> QED
  BY <1>2, <1>3, <1>4 DEF LiveTotal

\* The commit of a charge takes from the live row what the bucket gave.
LEMMA SerialCommitCharge ==
    ASSUME Serial, SerialInv, TypeInv', NEW r \in Req, CommitCharge(r)
    PROVE  SerialInv'
<1> DEFINE S == {l \in Live : rem[l] > 0}
<1>1. /\ pc[r] = "commit" /\ op[r] = "charge" /\ pc[r] \in Working
      /\ late' = [late EXCEPT ![r] = FALSE]
      /\ UNCHANGED <<refunds, job, deposited, redisVars, op, stage, seen, until, reaper>>
  BY DEF CommitCharge, Working
<1>2. /\ PlaceTells(r) /\ Unwritten(r) /\ BucketTells(r) /\ OneAtATime /\ TypeInv /\ OneLiveRow
      /\ ~reaper /\ \A q \in Req \ {r} : pc[q] \notin Working
      /\ credits(r) \in Nat /\ credits(r) > 0 /\ KeyOf[r] \in Key
  BY <1>1, AtWork, CreditsType
<1>3. bucket + credits(r) = LiveTotal /\ bucket \in Nat /\ LiveTotal \in Nat
  BY <1>1, <1>2, LiveType DEF BucketTells, Charging
<1>4. {l \in Visible(r) : rem[l] > 0} = S
  BY <1>2 DEF PlaceTells, Visible, Live, TypeInv, TypeOK
<1>5. Total(rem, S) >= credits(r)
  BY <1>2, <1>3, FundedTotal
<1>6. PICK reply \in Replies("db") :
        /\ Answer(reply)
        /\ reply # "refused" =>
             /\ \E d \in DebitPlans(S, credits(r)) :
                 /\ rem' = [l \in Lease |-> IF l \in S THEN rem[l] - d[l] ELSE rem[l]]
                 /\ ttl' = [l \in Lease |-> IF l \in S /\ d[l] > 0 THEN TTL ELSE ttl[l]]
             /\ charges' = [charges EXCEPT ![KeyOf[r]] = @ + 1]
             /\ UNCHANGED <<balance, active>>
        /\ \E next \in AfterTx(r, reply, "charged") : Goto(r, next)
  <2>1. ~(Total(rem, S) < credits(r))
    <3>1. Total(rem, S) \in Nat
      BY <1>2, <1>3, FundedTotal
    <3> QED
      BY <1>2, <1>5, <3>1
  <2> HIDE DEF S
  <2> QED
    BY <1>4, <2>1 DEF CommitCharge
<1>7. reply = "ok" /\ budget' = budget
  BY <1>2, <1>6, AlwaysOk
<1>8. pc' = [pc EXCEPT ![r] = "charged"] /\ pc'[r] = "charged"
  BY <1>2, <1>6, <1>7 DEF AfterTx, Goto, TypeInv, TypeOK
<1>9. PICK d \in DebitPlans(S, credits(r)) :
        /\ rem' = [l \in Lease |-> IF l \in S THEN rem[l] - d[l] ELSE rem[l]]
        /\ ttl' = [l \in Lease |-> IF l \in S /\ d[l] > 0 THEN TTL ELSE ttl[l]]
  BY <1>6, <1>7
<1>10. active' = active /\ charges' = [charges EXCEPT ![KeyOf[r]] = @ + 1]
  BY <1>6, <1>7
<1>11. Live' = Live /\ LiveTotal' = LiveTotal - credits(r) /\ \A l \in Live' : ttl'[l] = TTL
  <2> DEFINE c == credits(r)
  <2>1. c \in Nat /\ c > 0 /\ d \in DebitPlans(S, c)
    BY <1>2, <1>9
  <2> HIDE DEF c
  <2>2. Live' = Live /\ LiveTotal' = LiveTotal - c /\ \A l \in Live' : ttl'[l] = TTL
    BY <1>2, <1>9, <1>10, <2>1, DebitLive
  <2> QED
    BY <2>2 DEF c
<1>12. PlaceTells(r)'
  BY <1>1, <1>2, <1>8 DEF PlaceTells, TypeInv, TypeOK
<1>13. Unwritten(r)'
  BY <1>1, <1>2, <1>8 DEF Unwritten
<1>14. BucketTells(r)'
  BY <1>1, <1>8 DEF BucketTells, Charging, Refunding
<1>15. Mirrors'
  BY <1>1, <1>2, <1>3, <1>11 DEF Mirrors, redisVars
<1>16. EndsFirst'
  BY <1>1, <1>2, <1>11, LiveType DEF EndsFirst, redisVars
<1>17. OneLiveRow'
  BY <1>2, <1>11 DEF OneLiveRow
<1>18. \A q \in Req \ {r} : charges'[KeyOf[q]] = charges[KeyOf[q]] /\ late'[q] = late[q]
  <2>1. \A q \in Req \ {r} : KeyOf[q] # KeyOf[r] /\ KeyOf[q] \in Key
    BY ConstantsAssumption DEF Serial
  <2> QED
    BY <1>1, <1>2, <1>10, <2>1 DEF TypeInv, TypeOK
<1> QED
  BY <1>1, <1>2, <1>7, <1>8, <1>12, <1>13, <1>14, <1>15, <1>16, <1>17, <1>18, WorkerStep

\* The commit of a refund gives the live row what the bucket got.
LEMMA SerialCommitRefund ==
    ASSUME Serial, SerialInv, TypeInv', NEW r \in Req, CommitRefund(r)
    PROVE  SerialInv'
<1>1. /\ pc[r] = "commit" /\ op[r] = "refund" /\ pc[r] \in Working
      /\ late' = [late EXCEPT ![r] = FALSE]
      /\ UNCHANGED <<charges, job, deposited, redisVars, op, stage, seen, until, reaper>>
  BY DEF CommitRefund, Working
<1>2. /\ PlaceTells(r) /\ Unwritten(r) /\ BucketTells(r) /\ OneAtATime /\ TypeInv /\ OneLiveRow
      /\ ~reaper /\ \A q \in Req \ {r} : pc[q] \notin Working
      /\ credits(r) \in Nat /\ KeyOf[r] \in Key
  BY <1>1, AtWork, CreditsType
<1>3. bucket = LiveTotal + credits(r) /\ LiveTotal \in Nat /\ refunds[KeyOf[r]] = 0
  BY <1>1, <1>2, LiveType DEF BucketTells, Refunding, Unwritten
<1>4. Visible(r) = Live
  BY <1>2 DEF PlaceTells, Visible, Live, TypeInv, TypeOK
<1>5. PICK reply \in Replies("db") :
        /\ Answer(reply)
        /\ reply # "refused" =>
             /\ AddToLease(credits(r), Live)
             /\ refunds' = [refunds EXCEPT ![KeyOf[r]] = @ + 1]
        /\ \E next \in AfterTx(r, reply, "done") : Goto(r, next)
  BY <1>3, <1>4 DEF CommitRefund, uniqueViolation
<1>6. reply = "ok" /\ budget' = budget
  BY <1>2, <1>5, AlwaysOk
<1>7. pc' = [pc EXCEPT ![r] = "done"] /\ pc'[r] = "done"
  BY <1>2, <1>5, <1>6 DEF AfterTx, Goto, TypeInv, TypeOK
<1>8. LiveTotal' = LiveTotal + credits(r) /\ OneLiveRow' /\ \A l \in Live' : ttl'[l] = TTL
  <2> DEFINE c == credits(r)
  <2>1. c \in Nat /\ AddToLease(c, Live)
    BY <1>2, <1>5, <1>6
  <2> HIDE DEF c
  <2>2. LiveTotal' = LiveTotal + c /\ OneLiveRow' /\ \A l \in Live' : ttl'[l] = TTL
    BY <1>2, <2>1, AddLive
  <2> QED
    BY <2>2 DEF c
<1>9. PlaceTells(r)'
  BY <1>1, <1>2, <1>7 DEF PlaceTells, TypeInv, TypeOK
<1>10. Unwritten(r)'
  BY <1>1, <1>7 DEF Unwritten, Working
<1>11. BucketTells(r)'
  BY <1>1, <1>7 DEF BucketTells, Charging, Refunding, Working
<1>12. Mirrors' /\ EndsFirst'
  BY <1>1, <1>2, <1>3, <1>8, LiveType DEF Mirrors, EndsFirst, redisVars
<1>13. \A q \in Req \ {r} : refunds'[KeyOf[q]] = refunds[KeyOf[q]] /\ late'[q] = late[q]
  <2>1. \A q \in Req \ {r} : KeyOf[q] # KeyOf[r] /\ KeyOf[q] \in Key
    BY ConstantsAssumption DEF Serial
  <2> QED
    BY <1>1, <1>2, <1>5, <1>6, <2>1 DEF TypeInv, TypeOK
<1> QED
  BY <1>1, <1>2, <1>6, <1>7, <1>8, <1>9, <1>10, <1>11, <1>12, <1>13, WorkerStep

\* A refund finds a live row or inserts an empty one.
LEMMA SerialEnsureRefund ==
    ASSUME Serial, SerialInv, TypeInv', NEW r \in Req, EnsureRefundQuotaLease(r)
    PROVE  SerialInv'
<1>1. /\ pc[r] = "refundLease" /\ pc[r] \in Working
      /\ UNCHANGED <<rowVars, redisVars, localVars, reaper>>
  BY DEF EnsureRefundQuotaLease, Working
<1>2. /\ PlaceTells(r) /\ Unwritten(r) /\ OneAtATime /\ TypeInv /\ OneLiveRow /\ Mirrors /\ EndsFirst
      /\ ~reaper /\ \A q \in Req \ {r} : pc[q] \notin Working
  BY <1>1, AtWork
<1>3. /\ pc' = [pc EXCEPT ![r] = "read"] /\ budget' = budget
      /\ \/ Live # {} /\ UNCHANGED leaseVars
         \/ AddToLease(0, Live)
  <2>1. CASE Live # {}
    BY <2>1 DEF EnsureRefundQuotaLease, Goto
  <2>2. CASE Live = {}
    <3>1. PICK reply \in Replies("db") :
            /\ Answer(reply)
            /\ IF reply = "refused" THEN UNCHANGED leaseVars ELSE AddToLease(0, Live) /\ UNCHANGED balance
            /\ Goto(r, IF reply = "ok" THEN "read" ELSE "failed")
      BY <2>2 DEF EnsureRefundQuotaLease
    <3>2. reply = "ok" /\ budget' = budget
      BY <1>2, <3>1, AlwaysOk
    <3> QED
      BY <3>1, <3>2 DEF Goto
  <2> QED
    BY <2>1, <2>2
<1>4. /\ LiveTotal' = LiveTotal /\ OneLiveRow' /\ Live' # {} /\ EndsFirst'
  <2>1. CASE Live # {} /\ UNCHANGED leaseVars
    <3>1. Live' = Live /\ LiveTotal' = LiveTotal
      BY <2>1, LiveSame DEF leaseVars
    <3> QED
      BY <1>1, <1>2, <2>1, <3>1 DEF OneLiveRow, EndsFirst, leaseVars, redisVars
  <2>2. CASE AddToLease(0, Live)
    <3>1. LiveTotal' = LiveTotal + 0 /\ OneLiveRow' /\ Live' # {} /\ \A l \in Live' : ttl'[l] = TTL
      BY <1>2, <2>2, AddLive
    <3> QED
      BY <1>1, <1>2, <3>1, LiveType DEF EndsFirst, redisVars
  <2> QED
    BY <1>3, <2>1, <2>2
<1>5. pc'[r] = "read" /\ op[r] = "refund"
  BY <1>1, <1>2, <1>3 DEF PlaceTells, TypeInv, TypeOK
<1>6. PlaceTells(r)' /\ Unwritten(r)'
  BY <1>1, <1>2, <1>5 DEF PlaceTells, Unwritten, Working, rowVars, localVars
<1>7. BucketTells(r)'
  BY <1>4, <1>5 DEF BucketTells, Charging, Refunding
<1>8. Mirrors'
  BY <1>1, <1>2, <1>4 DEF Mirrors, Trusted, KeyExists, quotaCacheCurrent, redisVars
<1> QED
  BY <1>1, <1>2, <1>3, <1>4, <1>6, <1>7, <1>8, WorkerStep DEF rowVars, localVars

\* Where a step would follow a failed call, none is.
LEMMA NeverFails ==
    ASSUME Serial, SerialInv
    PROVE  /\ \A r \in Req : ~(\/ ReleaseReservedQuota(r) \/ EnqueueRefundJob(r) \/ CompensateRead(r)
                               \/ CompensateApply(r) \/ CompensateMark(r) \/ Crash(r))
           /\ \A k \in Key : ~ProcessBillingRefundJob(k)
<1>1. budget = 0 /\ \A k \in Key : ~job[k]
  BY DEF SerialInv, OneAtATime
<1>2. \A r \in Req : pc[r] \notin {"release", "enqueue", "compRead", "compApply", "compMark"}
  BY DEF SerialInv, RequestTells, PlaceTells
<1> QED
  BY <1>1, <1>2 DEF ReleaseReservedQuota, EnqueueRefundJob, CompensateRead, CompensateApply,
                    CompensateMark, Crash, ProcessBillingRefundJob

\* What the requests tell stays when they and the live leases do.
LEMMA RequestsStay ==
    ASSUME SerialInv, UNCHANGED <<pc, localVars, charges, refunds>>,
           Live' = Live, LiveTotal' = LiveTotal,
           \A l \in Live : rem'[l] = rem[l] /\ ttl'[l] = ttl[l],
           UNCHANGED redisVars \/ \A r \in Req : pc[r] \notin Working
    PROVE  RequestTells'
<1> SUFFICES ASSUME NEW r \in Req PROVE PlaceTells(r)' /\ Unwritten(r)' /\ BucketTells(r)'
  BY DEF RequestTells
<1>1. PlaceTells(r) /\ Unwritten(r) /\ BucketTells(r)
  BY AtWork
<1>2. PlaceTells(r)' /\ Unwritten(r)'
  BY <1>1 DEF PlaceTells, Unwritten, localVars
<1>3. ASSUME UNCHANGED redisVars PROVE BucketTells(r)'
  BY <1>1, <1>3 DEF BucketTells, Charging, Refunding, KeyExists, credits, redisVars, localVars
<1>4. ASSUME pc[r] \notin Working PROVE BucketTells(r)'
  BY <1>4 DEF BucketTells, Charging, Refunding, Working
<1> QED
  BY <1>2, <1>3, <1>4

\* The reclaimer closes a row between requests.
LEMMA SerialReclaimLease ==
    ASSUME Serial, SerialInv, TypeInv', NEW l \in Lease, ReclaimQuotaLease(l)
    PROVE  SerialInv'
<1>1. /\ ~reaper /\ \A q \in Req : pc[q] \notin Working
      /\ l \in active /\ ttl[l] = Reclaimable /\ GiveBack({l}) /\ reaper' = TRUE
      /\ UNCHANGED <<rowVars, redisVars, pc, localVars, budget>>
  BY EntersAlone DEF ReclaimQuotaLease, SerialInv
<1>2. TypeInv /\ OneAtATime /\ OneLiveRow /\ Mirror /\ VersionEndsFirst
  BY DEF SerialInv
<1>3. Live' = Live /\ LiveTotal' = LiveTotal /\ \A m \in Live : rem'[m] = rem[m] /\ ttl'[m] = ttl[m]
  <2>1. {l} \in SUBSET active /\ \A m \in {l} : ttl[m] = Reclaimable
    BY <1>1
  <2> QED
    BY <1>1, <1>2, <2>1, GiveBackLive
<1>4. RequestTells'
  BY <1>1, <1>3, RequestsStay DEF rowVars
<1>5. OneAtATime'
  BY <1>1, <1>2 DEF OneAtATime, rowVars
<1>6. Mirror' /\ VersionEndsFirst' /\ OneLiveRow'
  BY <1>1, <1>2, <1>3
     DEF Mirror, Mirrors, Trusted, KeyExists, quotaCacheCurrent, VersionEndsFirst, EndsFirst, OneLiveRow, redisVars
<1> QED
  BY <1>4, <1>5, <1>6 DEF SerialInv

\* It clears the bucket of a user it closed a row of.
LEMMA SerialClearReclaimed ==
    ASSUME Serial, SerialInv, TypeInv', ClearAfterReclaimQuotaLease
    PROVE  SerialInv'
<1>1. /\ reaper /\ reaper' = FALSE /\ clearQuotaCache
      /\ UNCHANGED <<dbVars, pc, localVars, budget>>
  BY DEF ClearAfterReclaimQuotaLease
<1>2. TypeInv /\ OneAtATime /\ \A q \in Req : pc[q] \notin Working
  BY <1>1 DEF SerialInv, OneAtATime
<1>3. Live' = Live /\ LiveTotal' = LiveTotal /\ OneLiveRow' /\ UNCHANGED <<charges, refunds, job, active, rem, ttl>>
  BY <1>1, RowsStay
<1>4. RequestTells'
  BY <1>1, <1>2, <1>3, RequestsStay
<1>5. OneAtATime'
  BY <1>1, <1>2, <1>3 DEF OneAtATime
<1>6. Mirror' /\ VersionEndsFirst'
  <2>1. verTTL' = 0
    BY <1>1 DEF clearQuotaCache
  <2>2. \A l \in Live' : 0 <= ttl'[l]
    BY <1>2, <1>3, LiveType
  <2> QED
    BY <2>1, <2>2 DEF Mirror, Mirrors, VersionEndsFirst, EndsFirst, Trusted, quotaCacheCurrent
<1> QED
  BY <1>3, <1>4, <1>5, <1>6 DEF SerialInv

\* A recharge or an adjustment touches the free balance alone.
LEMMA SerialAdjust ==
    ASSUME Serial, SerialInv, TypeInv', NEW n \in Adjustments, AdjustBalance(n)
    PROVE  SerialInv'
<1>1. UNCHANGED <<active, rem, ttl, charges, refunds, job, redisVars, pc, localVars, reaper, budget>>
  BY DEF AdjustBalance
<1>2. Live' = Live /\ LiveTotal' = LiveTotal
  BY <1>1, LiveSame
<1>3. RequestTells'
  BY <1>1, <1>2, RequestsStay
<1> QED
  BY <1>1, <1>2, <1>3
     DEF SerialInv, OneAtATime, Mirror, Mirrors, Trusted, KeyExists, quotaCacheCurrent, VersionEndsFirst,
         EndsFirst, OneLiveRow, redisVars

\* A tick expires rows that hold something only with the version of the bucket.
LEMMA SerialTick ==
    ASSUME Serial, SerialInv, TypeInv', Tick
    PROVE  SerialInv'
<1>1. /\ \A q \in Req : pc[q] \notin Working
      /\ ~reaper
      /\ ttl' = [l \in Lease |-> Down(ttl[l], Reclaimable)]
      /\ keyTTL' = (IF keyTTL = Forever THEN Forever ELSE Down(keyTTL, 0))
      /\ bucket' = (IF keyTTL' = 0 THEN 0 ELSE bucket)
      /\ verTTL' = Down(verTTL, 0)
      /\ late' = [r \in Req |-> pc[r] = "commit"]
      /\ UNCHANGED <<balance, active, rem, rowVars, pc, op, stage, seen, reaper, budget>>
  BY DEF Tick, Serial, InFlight
<1>2. TypeInv /\ OneAtATime /\ RequestTells /\ Mirror /\ OneLiveRow /\ VersionEndsFirst
  BY DEF SerialInv
<1>3. /\ \A l \in Lease : ttl[l] \in Int /\ ttl'[l] <= ttl[l]
      /\ verTTL \in Nat /\ keyTTL \in Nat
  BY <1>1, <1>2, ConstantsAssumption DEF TypeInv, TypeOK, Down, Reclaimable, Forever
<1>4. Live' \subseteq Live /\ Live \subseteq Lease
  BY <1>1, <1>2, <1>3 DEF Live, TypeInv, TypeOK
<1>5. EndsFirst
  <2>1. \A q \in Req : pc[q] \notin {"begin", "commit"}
    BY <1>1 DEF Working
  <2> QED
    BY <1>2, <2>1 DEF VersionEndsFirst
<1>6. EndsFirst'
  <2> SUFFICES ASSUME NEW l \in Live', rem[l] > 0 PROVE verTTL' <= ttl'[l]
    BY <1>1 DEF EndsFirst
  <2>1. l \in Live /\ l \in Lease /\ verTTL <= ttl[l]
    BY <1>4, <1>5 DEF EndsFirst
  <2>2. ttl'[l] > 0 /\ ttl'[l] = Down(ttl[l], Reclaimable)
    BY <1>1, <2>1 DEF Live
  <2>3. Reclaimable \in Int
    BY ConstantsAssumption DEF Reclaimable
  <2>4. ttl[l] \in Int /\ ttl[l] > 0
    BY <1>3, <2>1 DEF Live
  <2> QED
    BY <1>1, <1>3, <2>1, <2>2, <2>3, <2>4 DEF Down
<1>7. ASSUME Trusted' PROVE Trusted /\ bucket' = bucket /\ \A l \in Live \ Live' : rem[l] = 0
  <2>1. verTTL' # 0 /\ keyTTL' # 0
    BY <1>7 DEF Trusted, KeyExists, quotaCacheCurrent
  <2>2. verTTL > 1 /\ keyTTL # 0 /\ bucket' = bucket
    BY <1>1, <1>3, <2>1 DEF Down, Forever
  <2>3. ASSUME NEW l \in Live, rem[l] # 0 PROVE l \in Live'
    <3>1. rem[l] > 0 /\ l \in Lease /\ l \in active
      BY <1>2, <2>3, LiveType
    <3>2. ttl[l] > 1
      BY <1>3, <1>5, <2>2, <3>1 DEF EndsFirst
    <3>3. Reclaimable \in Int /\ Reclaimable <= 0
      BY ConstantsAssumption DEF Reclaimable
    <3>4. ttl'[l] > 0
      BY <1>1, <1>3, <3>1, <3>2, <3>3 DEF Down
    <3> QED
      BY <1>1, <3>1, <3>4 DEF Live
  <2> QED
    BY <2>2, <2>3 DEF Trusted, KeyExists, quotaCacheCurrent
<1>8. Mirror'
  <2> SUFFICES ASSUME Trusted' PROVE bucket' = LiveTotal'
    BY DEF Mirror, Mirrors
  <2>1. bucket' = LiveTotal
    <3>1. \A q \in Req : pc[q] \in Untouched
      BY <1>1, <1>2 DEF TypeInv, TypeOK, Untouched
    <3> QED
      BY <1>2, <1>7, <3>1 DEF Mirror, Mirrors
  <2>2. Total(rem, Live) = Total(rem, Live') + Total(rem, Live \ Live')
    <3>1. IsFiniteSet(Live) /\ \A l \in Live : rem[l] \in Nat
      BY <1>2, LiveType
    <3> QED
      BY <1>4, <3>1, TotalSplit
  <2>3. Total(rem, Live \ Live') = 0
    BY <1>7, TotalZero
  <2>4. LiveTotal' = Total(rem, Live') /\ Total(rem, Live') \in Nat
    <3>1. IsFiniteSet(Live') /\ \A l \in Live' : rem[l] \in Nat
      BY <1>2, <1>4, LiveType, FS_Subset
    <3>2. Total(rem, Live') \in Nat
      BY <3>1, TotalType
    <3> QED
      BY <1>1, <3>2 DEF LiveTotal
  <2> QED
    BY <1>1, <1>2, <2>1, <2>2, <2>3, <2>4 DEF LiveTotal
<1>9. RequestTells'
  <2> SUFFICES ASSUME NEW r \in Req PROVE PlaceTells(r)' /\ Unwritten(r)' /\ BucketTells(r)'
    BY DEF RequestTells
  <2>1. PlaceTells(r) /\ Unwritten(r) /\ pc[r] \notin Working
    BY <1>1, AtWork
  <2>2. PlaceTells(r)'
    BY <1>1, <2>1 DEF PlaceTells, Working
  <2>3. Unwritten(r)'
    BY <1>1, <2>1 DEF Unwritten, rowVars
  <2>4. BucketTells(r)'
    BY <1>1, <2>1 DEF BucketTells, Charging, Refunding, Working
  <2> QED
    BY <2>2, <2>3, <2>4
<1>10. OneAtATime'
  BY <1>1, <1>2 DEF OneAtATime, rowVars
<1>11. OneLiveRow'
  BY <1>2, <1>4 DEF OneLiveRow
<1> QED
  BY <1>6, <1>8, <1>9, <1>10, <1>11 DEF SerialInv, VersionEndsFirst

\* Nothing is reserved and no bucket exists.
LEMMA SerialInit ==
    ASSUME Serial, Init
    PROVE  SerialInv
<1>1. TypeInv
  BY InitTypes
<1>2. Live = {} /\ verTTL = 0 /\ \A r \in Req : pc[r] = "idle" /\ op[r] = "charge" /\ stage[r] = "ensure" /\ ~late[r]
  BY DEF Init, Live
<1>3. OneAtATime
  BY DEF Init, OneAtATime, Serial, Working
<1>4. RequestTells
  BY <1>2, ConstantsAssumption DEF Init, RequestTells, PlaceTells, Unwritten, BucketTells, Charging, Refunding, Working
<1> QED
  BY <1>1, <1>2, <1>3, <1>4
     DEF SerialInv, Mirror, Mirrors, Trusted, quotaCacheCurrent, OneLiveRow, VersionEndsFirst, EndsFirst

\* Every step keeps the invariant.
LEMMA SerialStep ==
    ASSUME Serial, SerialInv, [Next]_vars
    PROVE  SerialInv'
<1>1. TypeInv'
  BY TypeStep DEF SerialInv
<1>2. ASSUME UNCHANGED vars PROVE SerialInv'
  <2>1. Live' = Live /\ LiveTotal' = LiveTotal
    BY <1>2, LiveSame DEF vars, dbVars, leaseVars
  <2>2. RequestTells'
    BY <1>2, <2>1, RequestsStay DEF vars, dbVars, leaseVars, rowVars
  <2>3. UNCHANGED <<pc, reaper, budget, job, bucket, keyTTL, verTTL, rem, ttl>>
    BY <1>2 DEF vars, dbVars, leaseVars, rowVars, redisVars
  <2> QED
    BY <1>1, <2>1, <2>2, <2>3
       DEF SerialInv, OneAtATime, Mirror, Mirrors, Trusted, KeyExists, quotaCacheCurrent, VersionEndsFirst,
           EndsFirst, OneLiveRow
<1>3. ASSUME NEW r \in Req, RedisStep(r) PROVE SerialInv'
  BY <1>1, <1>3, NeverFails, SerialClear, SerialRead, SerialSyncSet, SerialIncr, SerialMark, SerialLua,
     SerialMarkCharge, SerialIncrRefund DEF RedisStep
<1>4. ASSUME NEW r \in Req, DbStep(r) PROVE SerialInv'
  BY <1>1, <1>4, NeverFails, SerialReclaim, SerialSyncRead, SerialReserve, SerialBegin, SerialCommitCharge,
     SerialCommitRefund, SerialEnsureRefund DEF DbStep
<1>5. ASSUME NEW r \in Req, StartCharge(r) \/ KeepCharge(r) \/ StartRefund(r) \/ Crash(r) PROVE SerialInv'
  BY <1>1, <1>5, NeverFails, SerialStart, SerialKeep, SerialStartRefund
<1> QED
  BY <1>1, <1>2, <1>3, <1>4, <1>5, NeverFails, SerialReclaimLease, SerialClearReclaimed, SerialAdjust, SerialTick
     DEF Next, Step

\* So it holds of every behaviour.
LEMMA SerialInvariant == ASSUME Serial PROVE Spec => []SerialInv
<1>1. Init => SerialInv
  BY SerialInit
<1>2. SerialInv /\ [Next]_vars => SerialInv'
  BY SerialStep
<1> QED
  BY <1>1, <1>2, PTL DEF Spec

-----------------------------------------------------------------------------
(***************************************************************************)
(* What a user of one request at a time can rely on.                       *)
(***************************************************************************)

\* Between requests a bucket that Charge would believe holds exactly what the live
\* leases hold, whatever expired, was reserved, charged, refunded or reclaimed before.
THEOREM BucketMirrorsLeases == ASSUME Serial PROVE Spec => []MirrorAtRest
<1>1. SerialInv => MirrorAtRest
  <2> SUFFICES ASSUME SerialInv, AtRest, Trusted PROVE bucket = LiveTotal
    BY DEF MirrorAtRest
  <2>1. \A r \in Req : pc[r] \in Untouched
    BY DEF AtRest, InFlight, SerialInv, TypeInv, TypeOK, Untouched
  <2> QED
    BY <2>1 DEF SerialInv, Mirror, Mirrors
<1> QED
  BY <1>1, SerialInvariant, PTL

\* At no step does a bucket that Charge would believe hold credits without a live lease.
THEOREM BucketEndsWithLease == ASSUME Serial PROVE Spec => []RedisNeverOutlivesLease
<1>1. SerialInv => RedisNeverOutlivesLease
  <2> SUFFICES ASSUME SerialInv, Trusted, bucket > 0, Live = {} PROVE FALSE
    BY DEF RedisNeverOutlivesLease
  <2>1. TypeInv /\ LiveTotal = 0 /\ bucket \in Nat
    BY OneLive, LiveType DEF SerialInv
  <2>2. PICK r \in Req : pc[r] \notin Untouched
    BY <2>1 DEF SerialInv, Mirror, Mirrors
  <2>3. pc[r] \in Working \ Untouched /\ op[r] \in {"charge", "refund"}
    BY <2>1, <2>2 DEF TypeInv, TypeOK, Untouched
  <2>4. PlaceTells(r) /\ BucketTells(r) /\ credits(r) \in Nat /\ credits(r) > 0
    BY AtWork
  <2>5. op[r] = "charge"
    BY <2>3, <2>4 DEF BucketTells, Untouched
  <2>6. seen[r] \in Nat
    BY <2>1 DEF TypeInv, TypeOK
  <2> QED
    BY <2>1, <2>3, <2>4, <2>5, <2>6 DEF BucketTells, PlaceTells, Charging, Working, Untouched
<1> QED
  BY <1>1, SerialInvariant, PTL

\* A charge that Redis accepted is always written: the leases can pay what the bucket could.
THEOREM AcceptedIsWritten == ASSUME Serial PROVE Spec => []AcceptedChargeIsWritten
<1>1. SerialInv => AcceptedChargeIsWritten
  BY AtWork DEF AcceptedChargeIsWritten, PlaceTells
<1> QED
  BY <1>1, SerialInvariant, PTL

\* Of the steps of the requests only the reserve and the charge of Redis refuse one.
LEMMA Refusers ==
    ASSUME TypeInv, [Next]_vars, NEW r \in Req, pc[r] # "refused", pc'[r] = "refused"
    PROVE  ReserveQuota(r) \/ LuaCharge(r)
<1>1. ASSUME NEW q \in Req, NEW next, next # "refused", pc' = [pc EXCEPT ![q] = next] PROVE FALSE
  BY <1>1 DEF TypeInv, TypeOK
<1>2. ASSUME NEW q \in Req PROVE ~(StartCharge(q) \/ KeepCharge(q) \/ StartRefund(q) \/ Crash(q))
  BY <1>1 DEF StartCharge, KeepCharge, StartRefund, Crash, Goto
<1>3. ASSUME NEW q \in Req PROVE AfterError(q) # "refused" /\ Ended(q) # "refused" /\ preAppliedFailure(q) # "refused"
  BY DEF AfterError, Ended, preAppliedFailure
<1>4. ASSUME NEW q \in Req, NEW n PROVE AfterRemaining(q, n) # "refused"
  BY DEF AfterRemaining, Ended
<1>5. ASSUME NEW q \in Req
      PROVE  ~(ClearAfterReclaim(q) \/ IncrReserve(q) \/ MarkReserve(q) \/ MarkCharge(q)
               \/ IncrRefund(q) \/ MarkRefund(q) \/ CompensateMark(q))
  BY <1>1, <1>3 DEF ClearAfterReclaim, IncrReserve, MarkReserve, MarkCharge, IncrRefund, MarkRefund, CompensateMark, Goto
<1>6. ASSUME NEW q \in Req PROVE ~QuotaRemaining(q)
  BY <1>1, <1>4 DEF QuotaRemaining, Goto
<1>7. ASSUME NEW q \in Req PROVE ~SyncSet(q)
  BY <1>1, <1>3, <1>4 DEF SyncSet, Goto
<1>8. ASSUME NEW q \in Req PROVE ~CompensateRead(q)
  BY <1>1, <1>3 DEF CompensateRead, Goto
<1>9. ASSUME NEW q \in Req PROVE ~CompensateApply(q)
  BY <1>1, <1>3 DEF CompensateApply, Goto
<1>10. ASSUME NEW q \in Req PROVE ~(ReclaimForUser(q) \/ SyncRead(q) \/ ReleaseReservedQuota(q) \/ EnsureRefundQuotaLease(q))
  BY <1>1, <1>3 DEF ReclaimForUser, SyncRead, ReleaseReservedQuota, EnsureRefundQuotaLease, Goto
<1>11. ASSUME NEW q \in Req PROVE ~(BeginTx(q) \/ EnqueueRefundJob(q))
  BY <1>1, <1>3 DEF BeginTx, EnqueueRefundJob, Goto
<1>12. ASSUME NEW q \in Req, NEW reply, NEW place, place # "refused", NEW next \in AfterTx(q, reply, place)
       PROVE  next # "refused"
  BY <1>3, <1>12 DEF AfterTx
<1>13. ASSUME NEW q \in Req PROVE ~(CommitCharge(q) \/ CommitRefund(q))
  <2>1. \A reply : \A next \in AfterTx(q, reply, "charged") \cup AfterTx(q, reply, "done") : next # "refused"
    BY <1>12
  <2> QED
    BY <1>1, <1>3, <2>1 DEF CommitCharge, CommitRefund, Goto
<1>14. ASSUME NEW q \in Req, ReserveQuota(q) \/ LuaCharge(q) PROVE q = r
  <2>1. PICK next : pc' = [pc EXCEPT ![q] = next]
    BY <1>14 DEF ReserveQuota, LuaCharge, Goto
  <2> QED
    BY <2>1 DEF TypeInv, TypeOK
<1>15. UNCHANGED pc => FALSE
  OBVIOUS
<1>16. \A k \in Key : ~ProcessBillingRefundJob(k)
  BY <1>15 DEF ProcessBillingRefundJob
<1>17. ~ClearAfterReclaimQuotaLease /\ ~Tick /\ (\A l \in Lease : ~ReclaimQuotaLease(l)) /\ (\A n \in Adjustments : ~AdjustBalance(n))
  BY <1>15 DEF ClearAfterReclaimQuotaLease, Tick, ReclaimQuotaLease, AdjustBalance
<1>18. ~UNCHANGED vars
  BY <1>15 DEF vars
<1>19. PICK q \in Req : Step(q)
  BY <1>2, <1>16, <1>17, <1>18 DEF Next
<1>20. ReserveQuota(q) \/ LuaCharge(q)
  BY <1>5, <1>6, <1>7, <1>8, <1>9, <1>10, <1>11, <1>13, <1>19 DEF Step, RedisStep, DbStep
<1> QED
  BY <1>14, <1>20

\* A request is refused only when the free balance and the live leases together are short.
THEOREM RefusalsAreHonest == ASSUME Serial PROVE Spec => RefusalIsHonest
<1>1. ASSUME SerialInv, [Next]_vars, NEW r \in Req, pc[r] # "refused", pc'[r] = "refused"
      PROVE  balance + LiveTotal < credits(r)
  <2>1. TypeInv /\ PlaceTells(r) /\ BucketTells(r) /\ OneAtATime
    BY <1>1, AtWork
  <2>2. ReserveQuota(r) \/ LuaCharge(r)
    BY <1>1, <2>1, Refusers
  <2>3. CASE LuaCharge(r)
    <3>1. pc[r] = "lua" /\ KeyExists /\ bucket >= credits(r)
      BY <2>1, <2>3 DEF LuaCharge, BucketTells
    <3>2. Goto(r, "markCharge") \/ Goto(r, "failed")
      BY <2>3, <3>1 DEF LuaCharge
    <3> QED
      BY <1>1, <2>1, <3>2 DEF Goto, TypeInv, TypeOK
  <2>4. CASE ReserveQuota(r)
    <3>1. pc[r] = "reserve" /\ seen[r] = LiveTotal
      BY <2>1, <2>4 DEF ReserveQuota, BucketTells
    <3>2. balance < credits(r) - seen[r]
      <4>1. ~(Goto(r, "incr") \/ Goto(r, "failed"))
        BY <1>1, <2>1 DEF Goto, TypeInv, TypeOK
      <4> QED
        BY <2>4, <4>1 DEF ReserveQuota, quotaReserveNeeded
    <3>3. balance \in Nat /\ LiveTotal \in Nat /\ credits(r) \in Nat
      BY <2>1, LiveType, CreditsType DEF TypeInv, TypeOK
    <3> QED
      BY <3>1, <3>2, <3>3
  <2> QED
    BY <2>2, <2>3, <2>4
<1>2. SerialInv /\ [Next]_vars =>
        [\A r \in Req : pc[r] # "refused" /\ pc'[r] = "refused" =>
             balance + LiveTotal < credits(r)]_vars
  BY <1>1
<1> QED
  BY <1>2, SerialInvariant, PTL DEF Spec, RefusalIsHonest
=============================================================================
