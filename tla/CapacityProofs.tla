---------------------------- MODULE CapacityProofs ----------------------------
(***************************************************************************)
(* Proofs about Capacity, for any number of customers, pools, rules,       *)
(* messages, workers and faults.                                           *)
(***************************************************************************)
EXTENDS Capacity, FiniteSetTheorems, TLAPS

\* A worker about to hit a key or to give it its expiry has named one, for a rule it has
\* yet to pass.
KeysInHand ==
  \A w \in Workers :
    pc[w] \in {"incr", "expire"} =>
      job[w].check \in Checks /\ job[w].check[1] \in job[w].rules

TypeInv == TypeOK /\ KeysInHand

-----------------------------------------------------------------------------
(* Types.                                                                  *)

\* The settings in force, row by row.
LEMMA SettingsType ==
  ASSUME settings \in Settings
  PROVE  /\ settings.queued \in [Classes -> Nat]
         /\ settings.daily_send_cap \in [Customers -> Nat]
         /\ settings.pools \in [Pools -> PoolRows]
         /\ settings.throttle_rules \subseteq Rules
BY CapacityAssumption DEF Rules

LEMMA RuleLimits == \A r \in Rules : r.messages_per_minute \in Nat
BY CapacityAssumption DEF Rules

LEMMA MatchingRules ==
  ASSUME settings \in Settings, NEW m, NEW p
  PROVE  Matching(m, p) \subseteq Rules
BY SettingsType DEF Matching

LEMMA ChoicesArePools == \A m : Choices(m) \subseteq Pools
BY DEF Choices, Routed, Dedicated, Shared

LEMMA KeyType ==
  ASSUME TypeInv, NEW w \in Workers, pc[w] \in {"incr", "expire"}
  PROVE  /\ KeyInHand(w) \in Keys /\ job[w].check[1] \in job[w].rules
         /\ job[w].check[1] \in Rules /\ job[w].check[2] \in Minutes
BY DEF TypeInv, KeysInHand, KeyInHand, KeyOf, Keys, Checks

\* Letting go of the message in hand.
LEMMA HoldType ==
  ASSUME TypeInv, NEW w \in Workers, pc[w] # "idle", Hold(w)
  PROVE  /\ held' \in [Classes -> Nat] /\ pc' \in [Workers -> PCs]
         /\ job' \in [Workers -> Jobs]
         /\ pc' = [pc EXCEPT ![w] = "idle"] /\ job' = [job EXCEPT ![w] = NoJob]
         /\ NoJob \in Jobs
<1>1. NoJob \in Jobs
  BY CapacityAssumption DEF NoJob, Jobs, Minutes
<1> QED BY <1>1 DEF TypeInv, TypeOK, Hold, Goto, PCs

\* Going on to the rules that are left.
LEMMA GoOnType ==
  ASSUME TypeInv, NEW w \in Workers, NEW rules \in SUBSET Rules, GoOn(w, rules)
  PROVE  /\ pc' \in [Workers -> PCs] /\ job' \in [Workers -> Jobs]
         /\ pc'[w] = (IF rules = {} THEN "attempt" ELSE "throttle")
         /\ \A v \in Workers \ {w} : pc'[v] = pc[v] /\ job'[v] = job[v]
         /\ job'[w].msg = job[w].msg /\ job'[w].pool = job[w].pool
         /\ job'[w].rules = rules
         /\ job'[w].now = (IF rules = {} THEN 0 ELSE job[w].now)
<1> DEFINE now == IF rules = {} THEN 0 ELSE job[w].now
           next == [job[w] EXCEPT !.rules = rules, !.check = << >>, !.now = now]
<1>1. job[w] \in Jobs /\ now \in Minutes
  BY CapacityAssumption DEF TypeInv, TypeOK, Jobs, Minutes
<1>2. /\ next \in Jobs /\ next.msg = job[w].msg /\ next.pool = job[w].pool
      /\ next.rules = rules /\ next.now = now
  <2> HIDE DEF now
  <2> QED BY <1>1 DEF Jobs
<1>3. job' = [job EXCEPT ![w] = next]
  BY DEF GoOn, TypeInv, TypeOK, Jobs
<1>4. pc' = [pc EXCEPT ![w] = IF rules = {} THEN "attempt" ELSE "throttle"]
  BY DEF GoOn, Goto
<1> HIDE DEF next
<1> QED BY <1>2, <1>3, <1>4 DEF TypeInv, TypeOK, PCs

LEMMA InitType == Init => TypeInv
<1> SUFFICES ASSUME Init PROVE TypeInv
  OBVIOUS
<1>1. NoJob \in Jobs
  BY CapacityAssumption DEF NoJob, Jobs, Minutes
<1>2. TypeOK
  BY <1>1, CapacityAssumption, SettingsType DEF Init, TypeOK, Minutes, PCs
<1>3. KeysInHand
  BY DEF Init, KeysInHand
<1> QED BY <1>2, <1>3 DEF TypeInv

-----------------------------------------------------------------------------
LEMMA SelectRouteType == ASSUME TypeInv, NEW w \in Workers, SelectRoute(w) PROVE TypeInv'
<1>0. PICK m \in Classes :
        /\ queued[m] > 0 /\ queued' = [queued EXCEPT ![m] = @ - 1]
        /\ \E p \in Choices(m) : job' = [job EXCEPT ![w] =
             [msg |-> m, now |-> clock, pool |-> p, rules |-> {}, check |-> << >>]]
  BY DEF SelectRoute
<1>1. PICK p \in Choices(m) :
        job' = [job EXCEPT ![w] =
          [msg |-> m, now |-> clock, pool |-> p, rules |-> {}, check |-> << >>]]
  BY <1>0
<1>2. [msg |-> m, now |-> clock, pool |-> p, rules |-> {}, check |-> << >>] \in Jobs
  BY ChoicesArePools DEF TypeInv, TypeOK, Jobs
<1>3. pc' = [pc EXCEPT ![w] = "daily_cap"] /\ queued' \in [Classes -> Nat]
  BY <1>0 DEF SelectRoute, Goto, TypeInv, TypeOK
<1>4. p \in Pools
  BY ChoicesArePools
<1>5. KeysInHand'
  BY <1>1, <1>3 DEF TypeInv, TypeOK, KeysInHand
<1>6. TypeOK'
  BY <1>1, <1>2, <1>3, <1>4 DEF TypeInv, TypeOK, SelectRoute, PCs, attemptVars, redisVars
<1> QED BY <1>5, <1>6 DEF TypeInv

LEMMA CheckDailyCapType == ASSUME TypeInv, NEW w \in Workers, CheckDailyCap(w) PROVE TypeInv'
<1>1. CASE Hold(w)
  BY <1>1, HoldType
     DEF TypeInv, TypeOK, KeysInHand, CheckDailyCap, PCs, attemptVars, redisVars
<1>2. CASE Goto(w, "pool_cap") /\ UNCHANGED <<held, job>>
  BY <1>2 DEF Goto, TypeInv, TypeOK, KeysInHand, CheckDailyCap, PCs, attemptVars, redisVars
<1> QED BY <1>1, <1>2 DEF CheckDailyCap

LEMMA CheckPoolCapType == ASSUME TypeInv, NEW w \in Workers, CheckPoolCap(w) PROVE TypeInv'
<1>1. CASE Hold(w)
  BY <1>1, HoldType
     DEF TypeInv, TypeOK, KeysInHand, CheckPoolCap, PCs, attemptVars, redisVars
<1>2. CASE GoOn(w, Matching(job[w].msg, job[w].pool)) /\ UNCHANGED held
  <2>1. Matching(job[w].msg, job[w].pool) \in SUBSET Rules
    BY MatchingRules DEF TypeInv, TypeOK
  <2> QED BY <1>2, <2>1, GoOnType
          DEF TypeInv, TypeOK, KeysInHand, CheckPoolCap, PCs, attemptVars, redisVars
<1> QED BY <1>1, <1>2 DEF CheckPoolCap

LEMMA NameKeyCases ==
  ASSUME TypeInv, NEW w \in Workers, NameKey(w)
  PROVE  /\ pc[w] = "throttle" /\ pc'[w] = "incr"
         /\ pc' \in [Workers -> PCs] /\ job' \in [Workers -> Jobs]
         /\ \A v \in Workers \ {w} : pc'[v] = pc[v] /\ job'[v] = job[v]
         /\ job'[w].msg = job[w].msg /\ job'[w].pool = job[w].pool
         /\ job'[w].rules = job[w].rules /\ job'[w].now = job[w].now
         /\ \E r \in job[w].rules : job'[w].check = <<r, clock>>
<1>1. PICK r \in job[w].rules : job' = [job EXCEPT ![w].check = <<r, clock>>]
  BY DEF NameKey
<1>2. job[w] \in Jobs /\ clock \in Minutes /\ pc' = [pc EXCEPT ![w] = "incr"]
  BY DEF TypeInv, TypeOK, NameKey, Goto
<1>3. <<r, clock>> \in Checks
  BY <1>1, <1>2 DEF Checks, Jobs
<1> DEFINE next == [job[w] EXCEPT !.check = <<r, clock>>]
<1>4. /\ next \in Jobs /\ next.msg = job[w].msg /\ next.pool = job[w].pool
      /\ next.rules = job[w].rules /\ next.now = job[w].now /\ next.check = <<r, clock>>
  BY <1>2, <1>3 DEF Jobs
<1>5. job' = [job EXCEPT ![w] = next]
  BY <1>1
<1> HIDE DEF next
<1> QED BY <1>1, <1>2, <1>4, <1>5 DEF TypeInv, TypeOK, PCs, NameKey

LEMMA NameKeyType == ASSUME TypeInv, NEW w \in Workers, NameKey(w) PROVE TypeInv'
<1>1. PICK r \in job[w].rules : job'[w].check = <<r, clock>>
  BY NameKeyCases
<1>2. job'[w].check \in Checks /\ job'[w].check[1] \in job'[w].rules
  BY <1>1, NameKeyCases DEF TypeInv, TypeOK, Checks, Jobs
<1>3. pc'[w] # "idle" => job'[w].msg \in Classes /\ job'[w].pool \in Pools
  BY NameKeyCases DEF TypeInv, TypeOK
<1> QED BY <1>2, <1>3, NameKeyCases
        DEF TypeInv, TypeOK, KeysInHand, NameKey, attemptVars, redisVars

\* Judging a rule, whatever was counted.
LEMMA JudgeType ==
  ASSUME TypeInv, NEW w \in Workers, NEW r \in job[w].rules, NEW count,
         pc[w] \in {"incr", "expire"}, Judge(w, r, count)
  PROVE  /\ held' \in [Classes -> Nat]
         /\ pc' \in [Workers -> PCs] /\ job' \in [Workers -> Jobs]
         /\ pc'[w] \in {"idle", "throttle", "attempt"}
         /\ \A v \in Workers \ {w} : pc'[v] = pc[v] /\ job'[v] = job[v]
         /\ pc'[w] # "idle" => job'[w].msg = job[w].msg /\ job'[w].pool = job[w].pool
<1>1. CASE Hold(w)
  BY <1>1, HoldType DEF TypeInv, TypeOK
<1>2. CASE GoOn(w, job[w].rules \ {r}) /\ UNCHANGED held
  <2>1. job[w].rules \ {r} \in SUBSET Rules
    BY DEF TypeInv, TypeOK, Jobs
  <2> QED BY <1>2, <2>1, GoOnType DEF TypeInv, TypeOK
<1> QED BY <1>1, <1>2 DEF Judge

LEMMA IncrType == ASSUME TypeInv, NEW w \in Workers, Incr(w) PROVE TypeInv'
<1> DEFINE r == job[w].check[1]
           count == counters[KeyInHand(w)] + 1
<1>1. /\ r \in job[w].rules /\ KeyInHand(w) \in Keys /\ pc[w] = "incr"
      /\ job[w].check \in Checks
  BY KeyType DEF Incr, TypeInv, KeysInHand
<1>2. counters' \in [Keys -> Nat]
  BY <1>1 DEF TypeInv, TypeOK, Incr
<1>3. CASE Judge(w, r, count)
  BY <1>1, <1>2, <1>3, JudgeType DEF TypeInv, TypeOK, KeysInHand, Incr, attemptVars
<1>4. CASE Goto(w, "expire") /\ UNCHANGED <<held, job>>
  BY <1>1, <1>2, <1>4 DEF Goto, TypeInv, TypeOK, PCs, KeysInHand, Incr, attemptVars
<1> QED BY <1>3, <1>4 DEF Incr

LEMMA ExpireType == ASSUME TypeInv, NEW w \in Workers, Expire(w) PROVE TypeInv'
<1>1. KeyInHand(w) \in Keys /\ job[w].check[1] \in job[w].rules
  BY KeyType DEF Expire
<1>2. ttl' \in [Keys -> Nat]
  BY <1>1, CapacityAssumption DEF TypeInv, TypeOK, Expire, Minutes
<1>3. Judge(w, job[w].check[1], 1)
  BY DEF Expire
<1> QED BY <1>1, <1>2, <1>3, JudgeType DEF TypeInv, TypeOK, KeysInHand, Expire, attemptVars

LEMMA AttemptType == ASSUME TypeInv, NEW w \in Workers, Attempt(w) PROVE TypeInv'
<1>1. NoJob \in Jobs
  BY CapacityAssumption DEF NoJob, Jobs, Minutes
<1>2. job[w].msg \in Classes /\ CustomerOf[job[w].msg] \in Customers /\ job[w].pool \in Pools
  BY CapacityAssumption DEF TypeInv, TypeOK, Attempt
<1>3. sent_today' \in [Customers -> Nat] /\ pool_sent_today' \in [Pools -> Nat]
      /\ warmup_sent' \in [Pools -> Nat]
  BY <1>2 DEF TypeInv, TypeOK, Attempt
<1>4. minute_sent' \in [Rules -> Nat]
  BY DEF TypeInv, TypeOK, Attempt
<1>5. pc' = [pc EXCEPT ![w] = "idle"] /\ job' = [job EXCEPT ![w] = NoJob]
  BY DEF Attempt, Goto
<1> QED BY <1>1, <1>3, <1>4, <1>5
        DEF TypeInv, TypeOK, KeysInHand, Attempt, PCs, redisVars

LEMMA FailType == ASSUME TypeInv, NEW w \in Workers, Fail(w) PROVE TypeInv'
<1>1. NoJob \in Jobs
  BY CapacityAssumption DEF NoJob, Jobs, Minutes
<1>2. queued' \in [Classes -> Nat] /\ leaked' \subseteq Keys /\ faults' \in 0..MaxFaults
  <2>1. job[w].msg \in Classes /\ (pc[w] = "expire" => KeyInHand(w) \in Keys)
    BY KeyType DEF TypeInv, TypeOK, Fail
  <2> QED BY <2>1, CapacityAssumption DEF TypeInv, TypeOK, Fail
<1>3. pc' = [pc EXCEPT ![w] = "idle"] /\ job' = [job EXCEPT ![w] = NoJob]
  BY DEF Fail, Goto
<1> QED BY <1>1, <1>2, <1>3 DEF TypeInv, TypeOK, KeysInHand, Fail, PCs, attemptVars

LEMMA TickType == ASSUME TypeInv, Tick PROVE TypeInv'
<1>1. clock' \in Minutes
  BY CapacityAssumption DEF TypeInv, TypeOK, Tick, Minutes
<1> QED BY <1>1 DEF TypeInv, TypeOK, KeysInHand, Tick

LEMMA TypeStep == TypeInv /\ [Next]_vars => TypeInv'
<1>1. CASE UNCHANGED vars
  BY <1>1 DEF vars, attemptVars, redisVars, TypeInv, TypeOK, KeysInHand
<1> QED BY <1>1, SelectRouteType, CheckDailyCapType, CheckPoolCapType, NameKeyType, IncrType,
           ExpireType, AttemptType, FailType, TickType DEF Next, Send

\* The type invariant of every behaviour.
THEOREM TypeInvariance == Spec => []TypeInv
BY InitType, TypeStep, PTL DEF Spec

\* Every variable keeps its type, and a worker that is not idle has a message and a pool.
THEOREM TypeCorrect == Spec => []TypeOK
<1>1. TypeInv => TypeOK
  BY DEF TypeInv
<1> QED BY TypeInvariance, <1>1, PTL

-----------------------------------------------------------------------------
(* The counters.  CountersSelfClean is inductive beside the types.         *)

\* A step of worker w that leaves Redis alone and is not the end of an EXPIRE.
LEMMA CleanElsewhere ==
  ASSUME TypeInv, CountersSelfClean, NEW w \in Workers, UNCHANGED redisVars, pc[w] # "expire",
         \A v \in Workers \ {w} : pc'[v] = pc[v] /\ job'[v] = job[v]
  PROVE  CountersSelfClean'
BY DEF CountersSelfClean, KeyInHand, redisVars

\* The steps that leave Redis alone move one worker, and none that is at its EXPIRE.
LEMMA OutsideRedis ==
  ASSUME TypeInv, NEW w \in Workers,
         SelectRoute(w) \/ CheckDailyCap(w) \/ CheckPoolCap(w) \/ NameKey(w) \/ Attempt(w)
  PROVE  /\ UNCHANGED redisVars /\ pc[w] # "expire"
         /\ \A v \in Workers \ {w} : pc'[v] = pc[v] /\ job'[v] = job[v]
<1>1. CASE SelectRoute(w)
  BY <1>1 DEF SelectRoute, Goto, TypeInv, TypeOK
<1>2. CASE CheckDailyCap(w)
  BY <1>2 DEF CheckDailyCap, Hold, Goto, TypeInv, TypeOK
<1>3. CASE CheckPoolCap(w)
  BY <1>3 DEF CheckPoolCap, Hold, GoOn, Goto, TypeInv, TypeOK
<1>4. CASE Attempt(w)
  BY <1>4 DEF Attempt, Goto, TypeInv, TypeOK
<1>5. CASE NameKey(w)
  BY <1>5, NameKeyCases DEF NameKey
<1> QED BY <1>1, <1>2, <1>3, <1>4, <1>5

\* A hit that is the first gives its worker the EXPIRE to do; for any other hit, somebody
\* has it to do already, or did it, or failed to.
LEMMA CleanIncr ==
  ASSUME TypeInv, CountersSelfClean, NEW w \in Workers, Incr(w) PROVE CountersSelfClean'
<1> DEFINE r == job[w].check[1]
           key == KeyInHand(w)
           count == counters[key] + 1
<1>1. /\ key \in Keys /\ r \in job[w].rules /\ pc[w] = "incr"
      /\ ttl' = ttl /\ leaked' = leaked
      /\ counters' = [counters EXCEPT ![key] = count]
      /\ IF count = 1 THEN Goto(w, "expire") /\ UNCHANGED <<held, job>> ELSE Judge(w, r, count)
  BY KeyType DEF Incr, FirstHit
<1>2. \A v \in Workers \ {w} : pc'[v] = pc[v] /\ job'[v] = job[v]
  <2>1. CASE Judge(w, r, count)
    BY <1>1, <2>1, JudgeType
  <2>2. CASE Goto(w, "expire") /\ UNCHANGED <<held, job>>
    BY <2>2 DEF Goto, TypeInv, TypeOK
  <2> QED BY <1>1, <2>1, <2>2
<1>3. \A v \in Workers \ {w} : KeyInHand(v)' = KeyInHand(v)
  BY <1>2 DEF KeyInHand, KeyOf
<1>4. count = 1 => pc'[w] = "expire" /\ KeyInHand(w)' = key
  BY <1>1 DEF Goto, KeyInHand, KeyOf, TypeInv, TypeOK
<1>5. counters \in [Keys -> Nat]
  BY DEF TypeInv, TypeOK
<1> SUFFICES ASSUME NEW k \in Keys, counters'[k] > 0, ttl'[k] = 0
             PROVE  k \in leaked' \/ \E v \in Workers : pc'[v] = "expire" /\ KeyInHand(v)' = k
  BY DEF CountersSelfClean
<1> HIDE DEF key
<1>6. CASE counters[k] > 0
  <2>1. k \in leaked \/ \E v \in Workers : pc[v] = "expire" /\ KeyInHand(v) = k
    BY <1>1, <1>6 DEF CountersSelfClean
  <2> QED BY <1>1, <1>2, <1>3, <2>1
<1>7. CASE ~(counters[k] > 0)
  <2>1. k = key /\ count = 1
    BY <1>1, <1>5, <1>7
  <2> QED BY <1>4, <2>1
<1> QED BY <1>6, <1>7

LEMMA CleanExpire ==
  ASSUME TypeInv, CountersSelfClean, NEW w \in Workers, Expire(w) PROVE CountersSelfClean'
<1>1. KeyInHand(w) \in Keys /\ job[w].check[1] \in job[w].rules /\ pc[w] = "expire"
  BY KeyType DEF Expire
<1>2. \A v \in Workers \ {w} : pc'[v] = pc[v] /\ job'[v] = job[v]
  BY <1>1, JudgeType DEF Expire
<1>3. \A v \in Workers \ {w} : KeyInHand(v)' = KeyInHand(v)
  BY <1>2 DEF KeyInHand, KeyOf
<1>4. /\ ttl' = [ttl EXCEPT ![KeyInHand(w)] = clock + 2] /\ counters' = counters
      /\ leaked' = leaked /\ clock + 2 # 0
  BY CapacityAssumption DEF Expire, TypeInv, TypeOK, Minutes
<1> QED BY <1>1, <1>2, <1>3, <1>4 DEF CountersSelfClean, TypeInv, TypeOK

LEMMA CleanFail ==
  ASSUME TypeInv, CountersSelfClean, NEW w \in Workers, Fail(w) PROVE CountersSelfClean'
<1>1. \A v \in Workers \ {w} : pc'[v] = pc[v] /\ KeyInHand(v)' = KeyInHand(v)
  BY DEF Fail, Goto, KeyInHand, KeyOf, TypeInv, TypeOK
<1> QED BY <1>1 DEF Fail, CountersSelfClean, TypeInv, TypeOK

LEMMA CleanTick == ASSUME TypeInv, CountersSelfClean, Tick PROVE CountersSelfClean'
BY DEF Tick, CountersSelfClean, KeyInHand, KeyOf, TypeInv, TypeOK

LEMMA CleanStep == TypeInv /\ CountersSelfClean /\ [Next]_vars => CountersSelfClean'
<1>1. ASSUME UNCHANGED vars PROVE CountersSelfClean => CountersSelfClean'
  BY <1>1 DEF vars, redisVars, CountersSelfClean, KeyInHand, KeyOf
<1> QED BY <1>1, OutsideRedis, CleanElsewhere, CleanIncr, CleanExpire, CleanFail, CleanTick
        DEF Next, Send

\* The only throttle counters Redis keeps for good are those whose EXPIRE failed.
THEOREM BucketsSelfClean == Spec => []CountersSelfClean
<1>1. Init => CountersSelfClean
  BY DEF Init, CountersSelfClean
<1> QED BY <1>1, InitType, TypeStep, CleanStep, PTL DEF Spec

-----------------------------------------------------------------------------
(* Dedicated pools.                                                        *)

\* The pool chosen for a message is shared, or its customer's own.
PoolSuits(w) == settings.pools[job[w].pool].owner \in {None, CustomerOf[job[w].msg]}

PoolsSuit == \A w \in Workers : pc[w] # "idle" => PoolSuits(w)

\* A step of worker w that keeps the message and the pool, or lets go of both.
KeepsPool(w) ==
  /\ \A v \in Workers \ {w} : pc'[v] = pc[v] /\ job'[v] = job[v]
  /\ pc'[w] # "idle" => pc[w] # "idle" /\ job'[w].msg = job[w].msg /\ job'[w].pool = job[w].pool

LEMMA StepsKeepPool ==
  ASSUME TypeInv, NEW w \in Workers,
         CheckDailyCap(w) \/ CheckPoolCap(w) \/ NameKey(w) \/ Incr(w) \/ Expire(w)
           \/ Attempt(w) \/ Fail(w)
  PROVE  KeepsPool(w) /\ settings' = settings
<1>1. CASE CheckDailyCap(w)
  BY <1>1 DEF CheckDailyCap, Hold, Goto, KeepsPool, TypeInv, TypeOK
<1>2. CASE CheckPoolCap(w)
  <2>1. CASE Hold(w)
    BY <1>2, <2>1, HoldType DEF CheckPoolCap, KeepsPool, TypeInv, TypeOK
  <2>2. CASE GoOn(w, Matching(job[w].msg, job[w].pool))
    BY <1>2, <2>2, MatchingRules, GoOnType DEF CheckPoolCap, KeepsPool, TypeInv, TypeOK
  <2> QED BY <1>2, <2>1, <2>2 DEF CheckPoolCap
<1>3. CASE Incr(w)
  <2>1. job[w].check[1] \in job[w].rules /\ pc[w] = "incr" /\ settings' = settings
    BY <1>3, KeyType DEF Incr
  <2>2. CASE Goto(w, "expire") /\ UNCHANGED <<held, job>>
    BY <2>1, <2>2 DEF Goto, KeepsPool, TypeInv, TypeOK
  <2>3. ASSUME NEW count, Judge(w, job[w].check[1], count) PROVE KeepsPool(w)
    BY <2>1, <2>3, JudgeType DEF KeepsPool
  <2> QED BY <1>3, <2>1, <2>2, <2>3 DEF Incr
<1>4. CASE Expire(w)
  BY <1>4, JudgeType, KeyType DEF Expire, KeepsPool
<1>5. CASE Attempt(w)
  BY <1>5 DEF Attempt, Goto, KeepsPool, TypeInv, TypeOK
<1>6. CASE Fail(w)
  BY <1>6 DEF Fail, Goto, KeepsPool, TypeInv, TypeOK
<1>7. CASE NameKey(w)
  BY <1>7, NameKeyCases DEF NameKey, KeepsPool
<1> QED BY <1>1, <1>2, <1>3, <1>4, <1>5, <1>6, <1>7

\* Select returns the customer's dedicated pool or a shared one.
LEMMA SelectSuits ==
  ASSUME TypeInv, PoolsSuit, NEW w \in Workers, SelectRoute(w) PROVE PoolsSuit'
<1>0. PICK m \in Classes :
        \E p \in Choices(m) : job' = [job EXCEPT ![w] =
          [msg |-> m, now |-> clock, pool |-> p, rules |-> {}, check |-> << >>]]
  BY DEF SelectRoute
<1>1. PICK p \in Choices(m) :
        job' = [job EXCEPT ![w] =
          [msg |-> m, now |-> clock, pool |-> p, rules |-> {}, check |-> << >>]]
  BY <1>0
<1>2. settings.pools[p].owner \in {None, CustomerOf[m]}
  BY DEF Choices, Dedicated, Shared
<1>3. job'[w].msg = m /\ job'[w].pool = p
  BY <1>1 DEF TypeInv, TypeOK
<1>4. settings' = settings /\ \A v \in Workers \ {w} : pc'[v] = pc[v] /\ job'[v] = job[v]
  BY <1>1 DEF SelectRoute, Goto, TypeInv, TypeOK
<1> QED BY <1>2, <1>3, <1>4 DEF PoolsSuit, PoolSuits

LEMMA SuitsStep == TypeInv /\ PoolsSuit /\ [Next]_vars => PoolsSuit'
<1> SUFFICES ASSUME TypeInv, PoolsSuit, [Next]_vars PROVE PoolsSuit'
  OBVIOUS
<1>1. ASSUME NEW w \in Workers, KeepsPool(w), settings' = settings PROVE PoolsSuit'
  BY <1>1 DEF KeepsPool, PoolsSuit, PoolSuits
<1>2. CASE Tick
  BY <1>2 DEF Tick, PoolsSuit, PoolSuits
<1>3. CASE UNCHANGED vars
  BY <1>3 DEF vars, PoolsSuit, PoolSuits
<1> QED BY <1>1, <1>2, <1>3, StepsKeepPool, SelectSuits DEF Next, Send

\* What a step may spend: an attempt from a dedicated pool is its owner's.
LEMMA SpentByOwner ==
  TypeInv /\ PoolsSuit /\ [Next]_vars =>
    \A p \in Pools :
      LET owner == settings.pools[p].owner
      IN  owner # None /\ pool_sent_today'[p] = pool_sent_today[p] + 1 =>
            sent_today'[owner] = sent_today[owner] + 1
<1> SUFFICES ASSUME TypeInv, PoolsSuit, [Next]_vars, NEW p \in Pools,
                    settings.pools[p].owner # None,
                    pool_sent_today'[p] = pool_sent_today[p] + 1
             PROVE  sent_today'[settings.pools[p].owner]
                      = sent_today[settings.pools[p].owner] + 1
  OBVIOUS
<1>1. pool_sent_today[p] \in Nat
  BY DEF TypeInv, TypeOK
<1>2. pool_sent_today'[p] # pool_sent_today[p] /\ pool_sent_today'[p] # 0
  BY <1>1
<1>3. PICK w \in Workers : Attempt(w)
  BY <1>2 DEF Next, Send, vars, attemptVars, SelectRoute, CheckDailyCap, CheckPoolCap,
              NameKey, Incr, Expire, Fail, Tick
<1>4. p = job[w].pool
  BY <1>2, <1>3 DEF Attempt, TypeInv, TypeOK
<1>5. settings.pools[p].owner = CustomerOf[job[w].msg]
  BY <1>3, <1>4 DEF PoolsSuit, PoolSuits, Attempt
<1>6. CustomerOf[job[w].msg] \in Customers
  BY <1>3, CapacityAssumption DEF Attempt, TypeInv, TypeOK
<1> QED BY <1>3, <1>5, <1>6 DEF Attempt, TypeInv, TypeOK

\* A dedicated pool's budget is spent on its owner's messages only.
THEOREM DedicatedPoolKept == Spec => DedicatedPoolIsPrivate
<1>1. Init => PoolsSuit
  BY DEF Init, PoolsSuit
<1> QED BY <1>1, InitType, TypeStep, SuitsStep, SpentByOwner, PTL
        DEF Spec, DedicatedPoolIsPrivate
=============================================================================
