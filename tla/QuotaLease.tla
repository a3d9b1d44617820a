----------------------------- MODULE QuotaLease -----------------------------
(***************************************************************************)
(* The hot charging path of internal/billing and the part of               *)
(* service.WriteTx that mirrors it, for ONE user (every key, row and       *)
(* advisory lock of the path is per user).                                 *)
(*                                                                         *)
(* PostgreSQL holds the free balance, the lease rows and the billing rows; *)
(* a DB transaction takes the user's advisory lock and is one step here.   *)
(* Redis holds the spending bucket and its version key; one command (or    *)
(* script) is one step.  Between two such steps of a request, any other    *)
(* request, the background reclaimer, the clock and the faults may act.    *)
(***************************************************************************)
EXTENDS Integers, FiniteSets, Totals

CONSTANTS
    Req,             \* the requests of the user (one goroutine each)
    Key,             \* the correlation ids they are billed under
    KeyOf,           \* [Req -> Key]: two requests of a key are a redelivery
    Cost,            \* [Key -> Nat \ {0}]: credits one request of the key costs
    OpeningBalance,  \* users.balance at the start
    Adjustments,     \* amounts a recharge or an admin adjustment may move
    MaxFunds,        \* BOUND: an adjustment never lifts the deposits above it
    MaxLeases,       \* BOUND: active lease rows of the user at one time
    TTL,             \* quotaLeaseTTL, in clock ticks
    Grace,           \* quotaLeaseReclaimGrace, in clock ticks
    Env,             \* what the environment does: "tick" (time passes at any
                     \* step) or "nap" (only while no request is at work),
                     \* "redis", "db" (calls of the store fail), "crash"
    MaxFaults,       \* BOUND: faults in one behaviour
    MaxInFlight      \* BOUND: requests, and the background reclaimer, that work
                     \* on the bucket at one time

Lease == 1..MaxLeases

ASSUME ConstantsAssumption ==
    /\ IsFiniteSet(Req) /\ IsFiniteSet(Key)
    /\ KeyOf \in [Req -> Key]
    /\ Cost \in [Key -> Nat \ {0}]
    /\ OpeningBalance \in Nat /\ MaxFunds \in Nat
    /\ Adjustments \subseteq Int
    /\ MaxLeases \in Nat /\ TTL \in Nat \ {0} /\ Grace \in 0..TTL
    /\ MaxFaults \in Nat /\ MaxInFlight \in Nat

VARIABLES
    \* PostgreSQL
    balance,    \* users.balance: free credits, not moved into a lease
    active,     \* the lease rows with status 'active' (a larger id is newer)
    rem,        \* remaining_credits of each lease row
    ttl,        \* expires_at minus now, in ticks, down to Reclaimable
    charges,    \* rows of type charge, hold or settle written per key
    refunds,    \* rows of type refund written per key
    job,        \* the billing_refund_jobs row of a key is pending
    deposited,  \* opening balance plus every recharge and adjustment row
    \* Redis
    bucket,     \* billing:quota:<user>, 0 when the key is absent
    keyTTL,     \* its time to live: 0 when absent, Forever without EXPIRE
    verTTL,     \* the time to live of the version key, 0 when absent
    \* the API process
    pc,         \* where each request is
    op,         \* "charge" or "refund": the half of its life it is in
    stage,      \* which caller of quotaRemaining/reserveQuota it returns to
    seen,       \* the quota it last read, or the amount it has reserved
    until,      \* the expiry it read while rebuilding the bucket
    late,       \* a tick has passed since the BEGIN of its DB transaction
    reaper,     \* the background reclaimer has still to clear the cache
    budget      \* faults left

leaseVars == <<balance, active, rem, ttl>>
rowVars   == <<charges, refunds, job, deposited>>
dbVars    == <<leaseVars, rowVars>>
redisVars == <<bucket, keyTTL, verTTL>>
localVars == <<op, stage, seen, until, late>>
vars == <<dbVars, redisVars, pc, localVars, reaper, budget>>

Reclaimable == -Grace - 1      \* ttl of a lease whose grace period is over
Forever     == TTL + 1         \* keyTTL of a key without expiry

Terminal == {"done", "refused", "failed", "crashed"}
Resting  == {"idle", "charged"} \cup Terminal
Working  == {"reclaim", "clear", "read", "syncRead", "syncSet", "reserve",
             "incr", "markReserve", "release", "lua", "markCharge", "begin",
             "commit", "compRead", "compApply", "compMark", "refundLease",
             "incrRefund", "markRefund", "enqueue"}
Stage == {"ensure", "missing", "reensure", "retry", "retryWait", "refund", "comp"}

credits(r) == Cost[KeyOf[r]]
Live       == {l \in active : ttl[l] > 0}
LiveTotal  == Total(rem, Live)
Spent      == [k \in Key |-> Cost[k] * (charges[k] - refunds[k])]

KeyExists         == keyTTL # 0
quotaCacheCurrent == verTTL # 0
Trusted           == KeyExists /\ quotaCacheCurrent

TypeOK ==
    /\ balance \in Nat
    /\ active \subseteq Lease
    /\ rem \in [Lease -> Nat]
    /\ \A l \in Lease \ active : rem[l] = 0
    /\ ttl \in [Lease -> Reclaimable..TTL]
    /\ charges \in [Key -> Nat]
    /\ refunds \in [Key -> Nat]
    /\ job \in [Key -> BOOLEAN]
    /\ deposited \in Int
    /\ bucket \in Nat
    /\ keyTTL \in 0..Forever
    /\ verTTL \in 0..TTL
    /\ pc \in [Req -> Resting \cup Working]
    /\ op \in [Req -> {"charge", "refund"}]
    /\ stage \in [Req -> Stage]
    /\ seen \in [Req -> Nat]
    /\ until \in [Req -> Reclaimable..TTL]
    /\ late \in [Req -> BOOLEAN]
    /\ reaper \in BOOLEAN
    /\ budget \in 0..MaxFaults

Init ==
    /\ balance = OpeningBalance
    /\ active = {}
    /\ rem = [l \in Lease |-> 0]
    /\ ttl = [l \in Lease |-> Reclaimable]
    /\ charges = [k \in Key |-> 0]
    /\ refunds = [k \in Key |-> 0]
    /\ job = [k \in Key |-> FALSE]
    /\ deposited = OpeningBalance
    /\ bucket = 0 /\ keyTTL = 0 /\ verTTL = 0
    /\ pc = [r \in Req |-> "idle"]
    /\ op = [r \in Req |-> "charge"]
    /\ stage = [r \in Req |-> "ensure"]
    /\ seen = [r \in Req |-> 0]
    /\ until = [r \in Req |-> 0]
    /\ late = [r \in Req |-> FALSE]
    /\ reaper = FALSE
    /\ budget = MaxFaults

-----------------------------------------------------------------------------
(***************************************************************************)
(* Building blocks.                                                        *)
(***************************************************************************)

Goto(r, next) == pc' = [pc EXCEPT ![r] = next]
Read(r, n)    == seen' = [seen EXCEPT ![r] = n]

\* What a call to a store may answer: "refused" had no effect; "lost" took
\* effect, but the caller gets an error (a cancelled context, a dropped
\* connection, a COMMIT without an answer).
Replies(store) ==
    {"ok"} \cup (IF store \in Env /\ budget > 0 THEN {"refused", "lost"} ELSE {})

Answer(reply) == budget' = IF reply = "ok" THEN budget ELSE budget - 1

\* A lease row is inserted with the next id above the active ones.
IsNewLease(n) ==
    /\ n \notin active
    /\ \A m \in active : m < n
    /\ n = 1 \/ n - 1 \in active

IsNewest(l, S) == l \in S /\ \A m \in S : m <= l

\* Mutants of GiveBack: the credits are returned but stay in the row; the row
\* is closed with its credits in it; the balance is not updated.
GiveBackTwice(S) ==
    balance' = balance + Total(rem, S) /\ UNCHANGED <<active, rem, ttl>>
GiveBackUnzeroed(S) ==
    /\ balance' = balance + Total(rem, S)
    /\ active' = active \ S
    /\ UNCHANGED <<rem, ttl>>
GiveBackNothing(S) ==
    /\ rem' = [l \in Lease |-> IF l \in S THEN 0 ELSE rem[l]]
    /\ ttl' = [l \in Lease |-> IF l \in S THEN Reclaimable ELSE ttl[l]]
    /\ active' = active \ S
    /\ UNCHANGED balance

\* The leases of S are closed and their credits return to the balance.
GiveBack(S) ==
    /\ balance' = balance + Total(rem, S)
    /\ rem' = [l \in Lease |-> IF l \in S THEN 0 ELSE rem[l]]
    /\ ttl' = [l \in Lease |-> IF l \in S THEN Reclaimable ELSE ttl[l]]
    /\ active' = active \ S

\* Mutants of AddToLease: the row is overwritten; an expired row is topped up
\* and not renewed.
SetLease(n, S) ==
    \E l \in Lease :
        /\ IF S = {} THEN IsNewLease(l) ELSE IsNewest(l, S)
        /\ active' = active \cup {l}
        /\ rem' = [rem EXCEPT ![l] = n]
        /\ ttl' = [ttl EXCEPT ![l] = TTL]
AddToStaleLease(n, S) ==
    \E l \in Lease :
        /\ IF active = {} THEN IsNewLease(l) ELSE IsNewest(l, active)
        /\ active' = active \cup {l}
        /\ rem' = [rem EXCEPT ![l] = @ + n]
        /\ ttl' = IF active = {} THEN [ttl EXCEPT ![l] = TTL] ELSE ttl

\* An amount is added to the newest lease of S, or to a new row if S is empty.
AddToLease(n, S) ==
    \E l \in Lease :
        /\ IF S = {} THEN IsNewLease(l) ELSE IsNewest(l, S)
        /\ active' = active \cup {l}
        /\ rem' = [rem EXCEPT ![l] = @ + n]
        /\ ttl' = [ttl EXCEPT ![l] = TTL]

clearQuotaCache == bucket' = 0 /\ keyTTL' = 0 /\ verTTL' = 0

\* Mutant of IncrBy: SET in place of INCRBY.
SetTo(n) ==
    /\ bucket' = n
    /\ keyTTL' = IF KeyExists THEN keyTTL ELSE Forever
    /\ UNCHANGED verTTL

\* INCRBY creates a missing key, without expiry.
IncrBy(n) ==
    /\ bucket' = bucket + n
    /\ keyTTL' = IF KeyExists THEN keyTTL ELSE Forever
    /\ UNCHANGED verTTL

\* markQuotaCacheVersion, then expireQuotaCache: EXPIRE ignores a missing key.
markAndExpire ==
    /\ verTTL' = TTL
    /\ keyTTL' = IF KeyExists THEN TTL ELSE 0
    /\ UNCHANGED bucket

InFlight == {r \in Req : pc[r] \in Working}
MayEnter == Cardinality(InFlight) + (IF reaper THEN 1 ELSE 0) < MaxInFlight

\* A compensation is the last thing a request does: WriteTx returns the error
\* of a charge, and nil for a refund that is already written.
Ended(r) == IF op[r] = "charge" THEN "failed" ELSE "done"

\* Mutant of AfterRemaining: wait for the bucket to fill instead of reserving.
AfterRemainingWait(r, n) ==
    CASE stage[r] = "refund"  -> "incrRefund"
      [] stage[r] = "missing" -> "reclaim"
      [] stage[r] = "comp"    -> Ended(r)
      [] OTHER -> IF n >= credits(r) THEN "lua" ELSE "read"

\* Where a caller of quotaRemaining goes once it knows the quota n, and where
\* it goes when the read fails.
AfterRemaining(r, n) ==
    CASE stage[r] = "refund"  -> "incrRefund"
      [] stage[r] = "missing" -> "reclaim"
      [] stage[r] = "comp"    -> Ended(r)
      [] OTHER -> IF n >= credits(r) THEN "lua" ELSE "reserve"

AfterError(r) == IF stage[r] = "comp" THEN Ended(r) ELSE "failed"

\* handlePreAppliedFailure: a charge is compensated, a refund is queued.
preAppliedFailure(r) == IF op[r] = "charge" THEN "compRead" ELSE "enqueue"

\* Where the transaction of WriteTx leads.  Every error exit goes through
\* handlePreAppliedFailure, but that of the INSERT of the post-billing job,
\* which rolls back and returns.
AfterTx(r, reply, committed) ==
    CASE reply = "ok"      -> {committed}
      [] reply = "refused" -> {preAppliedFailure(r), "failed"}
      [] OTHER             -> {preAppliedFailure(r)}

-----------------------------------------------------------------------------
(***************************************************************************)
(* ensureQuota and quotaRemaining.                                         *)
(***************************************************************************)

\* A request calls Charge: ensureQuota begins with the reclaim.
StartCharge(r) ==
    /\ pc[r] = "idle"
    /\ MayEnter
    /\ Goto(r, "reclaim")
    /\ UNCHANGED <<dbVars, redisVars, localVars, reaper, budget>>

\* ReclaimExpiredQuotaLeasesForUser; its error is logged and ignored.
ReclaimForUser(r) ==
    LET expired == {l \in active : ttl[l] = Reclaimable} IN
    /\ pc[r] = "reclaim"
    /\ \E reply \in Replies("db") :
        /\ Answer(reply)
        /\ IF reply = "refused" THEN UNCHANGED leaseVars ELSE GiveBack(expired)
        /\ Goto(r, IF reply = "ok" /\ expired # {} THEN "clear" ELSE "read")
    /\ UNCHANGED <<rowVars, redisVars, localVars, reaper>>

\* The clearQuotaCache after a reclaim, once its transaction has committed.
ClearAfterReclaim(r) ==
    /\ pc[r] = "clear"
    /\ \E reply \in Replies("redis") :
        /\ Answer(reply)
        /\ IF reply = "refused" THEN UNCHANGED redisVars ELSE clearQuotaCache
    /\ Goto(r, "read")
    /\ UNCHANGED <<dbVars, localVars, reaper>>

\* quotaRemaining: a current bucket is believed, any other is rebuilt.
QuotaRemaining(r) ==
    /\ pc[r] = "read"
    /\ \E reply \in Replies("redis") :
        /\ Answer(reply)
        /\ IF reply # "ok"
           THEN Goto(r, "failed") /\ UNCHANGED <<seen, stage>>
           ELSE IF Trusted
                THEN /\ Read(r, bucket)
                     /\ Goto(r, AfterRemaining(r, bucket))
                     /\ UNCHANGED stage
                ELSE Goto(r, "syncRead") /\ UNCHANGED <<seen, stage>>
    /\ UNCHANGED <<dbVars, redisVars, op, until, late, reaper>>

\* SyncQuotaToRedis, first half: one SELECT over the live lease rows.
SyncRead(r) ==
    LET funded == {l \in Live : rem[l] > 0} IN
    /\ pc[r] = "syncRead"
    /\ \/ /\ Read(r, LiveTotal)
          /\ IF funded = {}
             THEN UNCHANGED until
             ELSE \E l \in funded :
                    /\ \A m \in funded : ttl[l] <= ttl[m]
                    /\ until' = [until EXCEPT ![r] = ttl[l]]
          /\ Goto(r, "syncSet")
          /\ UNCHANGED budget
       \/ /\ "db" \in Env /\ budget > 0
          /\ budget' = budget - 1
          /\ Goto(r, AfterError(r))
          /\ UNCHANGED <<seen, until>>
    /\ UNCHANGED <<dbVars, redisVars, op, stage, late, reaper>>

\* Mutant of quotaTTL: the full TTL of a new lease.
FullTTL(r) == TTL

\* The life SyncQuotaToRedis gives the keys: that of the earliest lease.
quotaTTL(r) == IF until[r] > 0 THEN until[r] ELSE until[r] + Grace

\* SyncQuotaToRedis, second half: the total read is SET, or both keys are
\* deleted when nothing was found or the expiry read is past its grace.
SyncSet(r) ==
    LET usable == seen[r] > 0 /\ until[r] + Grace > 0
    IN
    /\ pc[r] = "syncSet"
    /\ \E reply \in Replies("redis") :
        /\ Answer(reply)
        /\ CASE reply = "refused" -> UNCHANGED redisVars
             [] usable /\ reply # "refused" ->
                  bucket' = seen[r] /\ keyTTL' = quotaTTL(r) /\ verTTL' = quotaTTL(r)
             [] OTHER -> clearQuotaCache
        /\ Read(r, IF usable THEN seen[r] ELSE 0)
        /\ Goto(r, IF usable /\ reply # "ok" THEN AfterError(r)
                   ELSE AfterRemaining(r, seen'[r]))
    /\ stage' = [stage EXCEPT ![r] = IF @ = "missing" THEN "reensure" ELSE @]
    /\ until' = [until EXCEPT ![r] = 0]
    /\ UNCHANGED <<dbVars, op, late, reaper>>

-----------------------------------------------------------------------------
(***************************************************************************)
(* reserveQuota and the Redis charge.                                      *)
(***************************************************************************)

\* Mutant of quotaReserveNeeded: what is in the bucket does not count.
ReserveAll(r) == credits(r)

\* Only the gap is reserved.
quotaReserveNeeded(r) == credits(r) - seen[r]

\* reserveQuota, the DB transaction: the gap moves from the balance into the
\* newest live lease, or into a new one.
ReserveQuota(r) ==
    LET needed == quotaReserveNeeded(r) IN
    /\ pc[r] = "reserve"
    /\ \/ /\ balance < needed
          /\ Goto(r, "refused")
          /\ UNCHANGED <<leaseVars, seen, budget>>
       \/ /\ balance >= needed
          /\ \E reply \in Replies("db") :
              /\ Answer(reply)
              /\ IF reply = "refused"
                 THEN UNCHANGED leaseVars
                 ELSE balance' = balance - needed /\ AddToLease(needed, Live)
              /\ Goto(r, IF reply = "ok" THEN "incr" ELSE "failed")
          /\ Read(r, needed)
    /\ UNCHANGED <<rowVars, redisVars, op, stage, until, late, reaper>>

\* reserveQuota, the INCRBY after the commit.
IncrReserve(r) ==
    /\ pc[r] = "incr"
    /\ \E reply \in Replies("redis") :
        /\ Answer(reply)
        /\ IF reply = "refused" THEN UNCHANGED redisVars ELSE IncrBy(seen[r])
        /\ Goto(r, IF reply = "ok" THEN "markReserve" ELSE "release")
    /\ UNCHANGED <<dbVars, localVars, reaper>>

\* Mutant of Releasable: LEAST is missing.
ReleaseAll(l, n) == n

\* LEAST(remaining_credits, n)
Releasable(l, n) == IF rem[l] < n THEN rem[l] ELSE n

\* releaseReservedQuota: the newest active lease, live or not, gives back at
\* most what it holds; the charge then fails with the Redis error.
ReleaseReservedQuota(r) ==
    /\ pc[r] = "release"
    /\ \/ /\ \E l \in active :
                LET back == Releasable(l, seen[r]) IN
                /\ IsNewest(l, active)
                /\ balance' = balance + back
                /\ rem' = [rem EXCEPT ![l] = @ - back]
          /\ UNCHANGED <<active, ttl, budget>>
       \/ active = {} /\ UNCHANGED <<leaseVars, budget>>
       \/ /\ "db" \in Env /\ budget > 0
          /\ budget' = budget - 1
          /\ UNCHANGED leaseVars
    /\ Goto(r, "failed")
    /\ UNCHANGED <<rowVars, redisVars, localVars, reaper>>

MarkReserve(r) ==
    /\ pc[r] = "markReserve"
    /\ \E reply \in Replies("redis") :
        /\ Answer(reply)
        /\ IF reply = "refused" THEN UNCHANGED redisVars ELSE markAndExpire
    /\ Goto(r, "lua")
    /\ UNCHANGED <<dbVars, localVars, reaper>>

\* luaCharge and the retries of Charge around it: a missing bucket is rebuilt
\* once (from the first attempt only), a short one is topped up twice.
LuaCharge(r) ==
    LET c == credits(r) IN
    /\ pc[r] = "lua"
    /\ \E reply \in Replies("redis") :
        /\ Answer(reply)
        /\ IF KeyExists /\ bucket >= c /\ reply # "refused"
           THEN bucket' = bucket - c /\ UNCHANGED <<keyTTL, verTTL>>
           ELSE UNCHANGED redisVars
        /\ CASE reply # "ok" -> Goto(r, "failed") /\ UNCHANGED stage
             [] reply = "ok" /\ KeyExists /\ bucket >= c ->
                  Goto(r, "markCharge") /\ UNCHANGED stage
             [] reply = "ok" /\ ~KeyExists ->
                  IF stage[r] = "ensure"
                  THEN /\ Goto(r, "syncRead")
                       /\ stage' = [stage EXCEPT ![r] = "missing"]
                  ELSE /\ Goto(r, IF stage[r] = "reensure" THEN "failed" ELSE "refused")
                       /\ UNCHANGED stage
             [] OTHER ->
                  IF stage[r] = "retryWait"
                  THEN Goto(r, "refused") /\ UNCHANGED stage
                  ELSE /\ Goto(r, "read")
                       /\ stage' = [stage EXCEPT ![r] =
                                      IF @ = "retry" THEN "retryWait" ELSE "retry"]
    /\ UNCHANGED <<dbVars, op, seen, until, late, reaper>>

MarkCharge(r) ==
    /\ pc[r] = "markCharge"
    /\ \E reply \in Replies("redis") :
        /\ Answer(reply)
        /\ IF reply = "refused" THEN UNCHANGED redisVars ELSE markAndExpire
    /\ Goto(r, "begin")
    /\ UNCHANGED <<dbVars, localVars, reaper>>

-----------------------------------------------------------------------------
(***************************************************************************)
(* WriteTx, with ApplyQuotaLeaseTx.  NOW() of a PostgreSQL transaction is   *)
(* the time of its BEGIN, so a lease that expired since then still counts. *)
(***************************************************************************)

\* BEGIN and the lookup of a row with the same dedupe key.
BeginTx(r) ==
    LET k == KeyOf[r]
        duplicate == IF op[r] = "charge" THEN charges[k] > 0 ELSE refunds[k] > 0
    IN
    /\ pc[r] = "begin"
    /\ \/ Goto(r, IF duplicate THEN "compRead" ELSE "commit") /\ UNCHANGED budget
       \/ /\ "db" \in Env /\ budget > 0
          /\ budget' = budget - 1
          /\ Goto(r, preAppliedFailure(r))
    /\ UNCHANGED <<dbVars, redisVars, localVars, reaper>>

Visible(r) == {l \in active : ttl[l] + (IF late[r] THEN 1 ELSE 0) > 0}

\* ORDER BY expires_at, id
ExpiresBefore(l, m) == ttl[l] < ttl[m] \/ (ttl[l] = ttl[m] /\ l < m)

\* quotaLeaseDebitPlan: c credits are taken from the leases of S, the one
\* that expires first (then the older row) being emptied first.
DebitPlans(S, c) ==
    {d \in [S -> 0..c] :
        /\ Total(d, S) = c
        /\ \A l \in S : d[l] <= rem[l]
        /\ \A l, m \in S : ExpiresBefore(l, m) /\ d[m] > 0 => d[l] = rem[l]}

\* The charge row and the debit of the leases commit together.  There is no
\* unique index on the dedupe key of a charge.
CommitCharge(r) ==
    LET k == KeyOf[r]
        S == {l \in Visible(r) : rem[l] > 0}
    IN
    /\ pc[r] = "commit" /\ op[r] = "charge"
    /\ \/ /\ Total(rem, S) < credits(r)
          /\ Goto(r, preAppliedFailure(r))
          /\ UNCHANGED <<leaseVars, charges, budget>>
       \/ /\ Total(rem, S) >= credits(r)
          /\ \E reply \in Replies("db") :
              /\ Answer(reply)
              /\ \/ reply = "refused" /\ UNCHANGED <<leaseVars, charges>>
                 \/ /\ reply # "refused"
                    /\ \E d \in DebitPlans(S, credits(r)) :
                        /\ rem' = [l \in Lease |->
                              IF l \in S THEN rem[l] - d[l] ELSE rem[l]]
                        /\ ttl' = [l \in Lease |->
                              IF l \in S /\ d[l] > 0 THEN TTL ELSE ttl[l]]
                    /\ charges' = [charges EXCEPT ![k] = @ + 1]
                    /\ UNCHANGED <<balance, active>>
              /\ \E next \in AfterTx(r, reply, "charged") : Goto(r, next)
    /\ late' = [late EXCEPT ![r] = FALSE]
    /\ UNCHANGED <<refunds, job, deposited, redisVars, op, stage, seen, until, reaper>>

\* Mutant of uniqueViolation: the index on refund_dedupe_key is missing.
NoUniqueIndex(k) == FALSE

uniqueViolation(k) == refunds[k] > 0

\* The refund row and the credit to a lease commit together; the unique index
\* on refund_dedupe_key turns a second row into a compensation.
CommitRefund(r) ==
    LET k == KeyOf[r] IN
    /\ pc[r] = "commit" /\ op[r] = "refund"
    /\ \/ /\ uniqueViolation(k)
          /\ Goto(r, "compRead")
          /\ UNCHANGED <<leaseVars, refunds, budget>>
       \/ /\ ~uniqueViolation(k)
          /\ \E reply \in Replies("db") :
              /\ Answer(reply)
              /\ \/ reply = "refused" /\ UNCHANGED <<leaseVars, refunds>>
                 \/ /\ reply # "refused"
                    /\ AddToLease(credits(r), Visible(r))
                    /\ refunds' = [refunds EXCEPT ![k] = @ + 1]
                    /\ UNCHANGED balance
              /\ \E next \in AfterTx(r, reply, "done") : Goto(r, next)
    /\ late' = [late EXCEPT ![r] = FALSE]
    /\ UNCHANGED <<charges, job, deposited, redisVars, op, stage, seen, until, reaper>>

\* handlePreAppliedFailure of a refund: the refund is queued, Redis keeps it.
EnqueueRefundJob(r) ==
    /\ pc[r] = "enqueue"
    /\ \E reply \in Replies("db") :
        /\ Answer(reply)
        /\ job' = IF reply = "refused" THEN job ELSE [job EXCEPT ![KeyOf[r]] = TRUE]
        /\ Goto(r, IF reply = "ok" THEN "done" ELSE "compRead")
    /\ UNCHANGED <<leaseVars, charges, refunds, deposited, redisVars, localVars, reaper>>

\* A claimed refund job: its row exists already, or WriteTx with
\* skip_redis_sync writes it; a failure leaves the job for a later attempt.
ProcessBillingRefundJob(k) ==
    /\ job[k]
    /\ job' = [job EXCEPT ![k] = FALSE]
    /\ \/ refunds[k] > 0 /\ UNCHANGED <<leaseVars, refunds>>
       \/ /\ refunds[k] = 0
          /\ AddToLease(Cost[k], Live)
          /\ refunds' = [refunds EXCEPT ![k] = 1]
          /\ UNCHANGED balance
    /\ UNCHANGED <<charges, deposited, redisVars, pc, localVars, reaper, budget>>

-----------------------------------------------------------------------------
(***************************************************************************)
(* compensateRedis / ApplyQuotaDelta: a charge that was not written gives  *)
(* its credits back to Redis, a refund that was not written takes them.    *)
(***************************************************************************)

\* EXISTS and the version check; an absent or stale bucket is rebuilt instead.
CompensateRead(r) ==
    /\ pc[r] = "compRead"
    /\ \E reply \in Replies("redis") :
        /\ Answer(reply)
        /\ Goto(r, CASE reply # "ok" -> Ended(r)
                     [] reply = "ok" /\ Trusted -> "compApply"
                     [] OTHER -> "syncRead")
    /\ stage' = [stage EXCEPT ![r] = "comp"]
    /\ UNCHANGED <<dbVars, redisVars, op, seen, until, late, reaper>>

CompensateApply(r) ==
    LET c == credits(r)
        applies == op[r] = "charge" \/ (KeyExists /\ bucket >= c)
    IN
    /\ pc[r] = "compApply"
    /\ \E reply \in Replies("redis") :
        /\ Answer(reply)
        /\ CASE reply = "refused" \/ ~applies -> UNCHANGED redisVars
             [] reply # "refused" /\ op[r] = "charge" -> IncrBy(c)
             [] OTHER -> bucket' = bucket - c /\ UNCHANGED <<keyTTL, verTTL>>
        /\ Goto(r, IF reply = "ok" /\ applies THEN "compMark" ELSE Ended(r))
    /\ UNCHANGED <<dbVars, localVars, reaper>>

CompensateMark(r) ==
    /\ pc[r] = "compMark"
    /\ \E reply \in Replies("redis") :
        /\ Answer(reply)
        /\ IF reply = "refused" THEN UNCHANGED redisVars ELSE markAndExpire
    /\ Goto(r, Ended(r))
    /\ UNCHANGED <<dbVars, localVars, reaper>>

-----------------------------------------------------------------------------
(***************************************************************************)
(* After the charge: the request succeeds, or its credits are refunded.    *)
(***************************************************************************)

KeepCharge(r) ==
    /\ pc[r] = "charged"
    /\ Goto(r, "done")
    /\ UNCHANGED <<dbVars, redisVars, localVars, reaper, budget>>

\* The caller of Refund: the task failed, the upstream call failed, ...
StartRefund(r) ==
    /\ pc[r] = "charged"
    /\ MayEnter
    /\ Goto(r, "refundLease")
    /\ op' = [op EXCEPT ![r] = "refund"]
    /\ stage' = [stage EXCEPT ![r] = "refund"]
    /\ UNCHANGED <<dbVars, redisVars, seen, until, late, reaper, budget>>

\* ensureRefundQuotaLease: the refund finds a live lease or inserts an empty one.
EnsureRefundQuotaLease(r) ==
    /\ pc[r] = "refundLease"
    /\ \/ /\ Live # {}
          /\ Goto(r, "read")
          /\ UNCHANGED <<leaseVars, budget>>
       \/ /\ Live = {}
          /\ \E reply \in Replies("db") :
              /\ Answer(reply)
              /\ IF reply = "refused"
                 THEN UNCHANGED leaseVars
                 ELSE AddToLease(0, Live) /\ UNCHANGED balance
              /\ Goto(r, IF reply = "ok" THEN "read" ELSE "failed")
    /\ UNCHANGED <<rowVars, redisVars, localVars, reaper>>

\* The INCRBY of Refund; when it fails no refund row is ever written.
IncrRefund(r) ==
    /\ pc[r] = "incrRefund"
    /\ \E reply \in Replies("redis") :
        /\ Answer(reply)
        /\ IF reply = "refused" THEN UNCHANGED redisVars ELSE IncrBy(credits(r))
        /\ Goto(r, IF reply = "ok" THEN "markRefund" ELSE "failed")
    /\ UNCHANGED <<dbVars, localVars, reaper>>

MarkRefund(r) ==
    /\ pc[r] = "markRefund"
    /\ \E reply \in Replies("redis") :
        /\ Answer(reply)
        /\ IF reply = "refused" THEN UNCHANGED redisVars ELSE markAndExpire
    /\ Goto(r, "begin")
    /\ UNCHANGED <<dbVars, localVars, reaper>>

-----------------------------------------------------------------------------
(***************************************************************************)
(* The background reclaimer, recharges, the clock and crashes.             *)
(***************************************************************************)

\* reclaimQuotaLease of one row, by the billing-sync goroutine.
ReclaimQuotaLease(l) ==
    /\ ~reaper /\ MayEnter
    /\ l \in active /\ ttl[l] = Reclaimable
    /\ GiveBack({l})
    /\ reaper' = TRUE
    /\ UNCHANGED <<rowVars, redisVars, pc, localVars, budget>>

ClearAfterReclaimQuotaLease ==
    /\ reaper
    /\ reaper' = FALSE
    /\ clearQuotaCache
    /\ UNCHANGED <<dbVars, pc, localVars, budget>>

\* WriteTx of type recharge or adjust: the guarded UPDATE of users.balance.
AdjustBalance(n) ==
    /\ balance + n >= 0
    /\ deposited + n <= MaxFunds
    /\ balance' = balance + n
    /\ deposited' = deposited + n
    /\ UNCHANGED <<active, rem, ttl, charges, refunds, job, redisVars, pc,
                   localVars, reaper, budget>>

Down(n, floor) == IF n > floor THEN n - 1 ELSE floor

\* One tick for every expiry.  A DB transaction lasts less than a tick: at
\* most one may pass between its BEGIN and its COMMIT.
Tick ==
    /\ "tick" \in Env \/ ("nap" \in Env /\ InFlight = {} /\ ~reaper)
    /\ \A r \in Req : ~late[r]
    /\ ttl' = [l \in Lease |-> Down(ttl[l], Reclaimable)]
    /\ keyTTL' = IF keyTTL = Forever THEN Forever ELSE Down(keyTTL, 0)
    /\ bucket' = IF keyTTL' = 0 THEN 0 ELSE bucket
    /\ verTTL' = Down(verTTL, 0)
    /\ until' = [r \in Req |-> IF pc[r] = "syncSet" THEN Down(until[r], Reclaimable)
                                                     ELSE until[r]]
    /\ late' = [r \in Req |-> pc[r] = "commit"]
    /\ UNCHANGED <<balance, active, rem, rowVars, pc, op, stage, seen, reaper, budget>>

\* The goroutine of a request dies with its process.
Crash(r) ==
    /\ "crash" \in Env /\ budget > 0
    /\ pc[r] \in Working \cup {"charged"}
    /\ budget' = budget - 1
    /\ Goto(r, "crashed")
    /\ late' = [late EXCEPT ![r] = FALSE]
    /\ UNCHANGED <<dbVars, redisVars, op, stage, seen, until, reaper>>

-----------------------------------------------------------------------------
RedisStep(r) ==
    \/ ClearAfterReclaim(r) \/ QuotaRemaining(r) \/ SyncSet(r)
    \/ IncrReserve(r) \/ MarkReserve(r) \/ LuaCharge(r) \/ MarkCharge(r)
    \/ CompensateRead(r) \/ CompensateApply(r) \/ CompensateMark(r)
    \/ IncrRefund(r) \/ MarkRefund(r)

DbStep(r) ==
    \/ ReclaimForUser(r) \/ SyncRead(r) \/ ReserveQuota(r)
    \/ ReleaseReservedQuota(r) \/ BeginTx(r) \/ CommitCharge(r)
    \/ CommitRefund(r) \/ EnqueueRefundJob(r) \/ EnsureRefundQuotaLease(r)

Step(r) == RedisStep(r) \/ DbStep(r)

Next ==
    \/ \E r \in Req : StartCharge(r) \/ KeepCharge(r) \/ StartRefund(r)
                      \/ Step(r) \/ Crash(r)
    \/ \E k \in Key : ProcessBillingRefundJob(k)
    \/ \E l \in Lease : ReclaimQuotaLease(l)
    \/ ClearAfterReclaimQuotaLease
    \/ \E n \in Adjustments : AdjustBalance(n)
    \/ Tick

Spec == Init /\ [][Next]_vars

(***************************************************************************)
(* Fairness.  A goroutine that has something to do goes on; the tickers of *)
(* StartBalanceSyncer and StartBillingRefundJobWorker keep firing; time    *)
(* passes.  Nothing makes a request arrive, an operator recharge or a      *)
(* fault happen.                                                           *)
(***************************************************************************)
Fairness ==
    /\ \A r \in Req : WF_vars(Step(r)) /\ WF_vars(KeepCharge(r))
    /\ \A k \in Key : WF_vars(ProcessBillingRefundJob(k))
    /\ WF_vars(\E l \in Lease : ReclaimQuotaLease(l))
    /\ WF_vars(ClearAfterReclaimQuotaLease)
    /\ WF_vars(Tick)

FairSpec == Spec /\ Fairness

-----------------------------------------------------------------------------
(***************************************************************************)
(* Properties.                                                             *)
(***************************************************************************)

\* No credit is created or lost in PostgreSQL: whatever was deposited is free
\* balance, unspent lease or net consumption, at every commit of every
\* interleaving of charges, refunds, reserves, releases and reclaims.
Conservation ==
    balance + Total(rem, active) + Total(Spent, Key) = deposited

\* A refund row is written at most once per key, and only after a charge row:
\* neither a retried refund, nor its queued job, nor a redelivery gives
\* credits that were not taken.
RefundsFollowCharges ==
    \A k \in Key : refunds[k] <= 1 /\ refunds[k] <= charges[k]

\* QuotaLease implements the account of CreditLedger: the funds are the free
\* balance and what the active leases hold, and a step that is not the commit
\* of a charge, a refund or an adjustment moves no funds.
Ledger == INSTANCE CreditLedger WITH funds <- balance + Total(rem, active)
ImplementsLedger == Ledger!Spec

\* No request, reclaim or refund job is between two of its steps.
AtRest == InFlight = {} /\ ~reaper /\ \A k \in Key : ~job[k]

\* "moves only the missing amount ... into both the DB lease mirror and the
\* Redis quota bucket": at rest, a bucket that Charge believes holds what the
\* live leases hold.
MirrorAtRest == AtRest /\ Trusted => bucket = LiveTotal

\* A charge that Redis accepted is written: WriteTx finds the leases short
\* only after a fault or for a key that was charged already.
AcceptedChargeIsWritten ==
    \A r \in Req : pc[r] = "compRead" /\ op[r] = "charge" =>
        budget < MaxFaults \/ charges[KeyOf[r]] > 0

\* A request is refused for lack of credits only when the free balance and the
\* live leases together cannot pay it.
RefusalIsHonest ==
    [][\A r \in Req : pc[r] # "refused" /\ pc'[r] = "refused" =>
            balance + LiveTotal < credits(r)]_vars

\* A key is charged once, however often its request is delivered.
ChargedAtMostOnce == \A k \in Key : charges[k] <= 1

\* "so Redis never outlives the DB authority": a bucket that Charge believes
\* and that holds credits is backed by a lease that has not expired.
RedisNeverOutlivesLease == Trusted /\ bucket > 0 => Live # {}

\* Every request ends: no retry of Charge, compensation or refund waits for
\* another request for ever.
RequestsEnd == \A r \in Req : pc[r] \in Working ~> pc[r] \in Resting

\* Unspent credits come home: whatever failed on the way, in the end no credit
\* stays in a lease, and no bucket is left that Charge would believe.
CreditsComeHome ==
    <>[](active = {} /\ balance + Total(Spent, Key) = deposited /\ ~Trusted)

\* A refund that reached Redis is written in the end, although the DB may fail
\* on the way: StartBillingRefundJobWorker retries what was deferred.
RefundPersists ==
    \A r \in Req : pc[r] = "markRefund" ~> refunds[KeyOf[r]] = 1
=============================================================================
