-------------------------- MODULE CapacityQuotaProofs --------------------------
(***************************************************************************)
(* The limits on sending are kept, for any number of customers, pools,     *)
(* rules, messages, workers and faults: the customer's daily cap, a pool's *)
(* cap of the day and of the warmup day, each up to one send for each      *)
(* further worker that counted before the others had sent, and a throttle  *)
(* rule up to one for each worker.                                         *)
(***************************************************************************)
EXTENDS CapacityProofs, WellFoundedInduction

-----------------------------------------------------------------------------
(* Sets of workers.                                                        *)

LEMMA WorkerSets ==
  ASSUME NEW S \in SUBSET Workers
  PROVE  /\ IsFiniteSet(S) /\ Cardinality(S) \in Nat /\ Cardinality(Workers) \in Nat
         /\ Cardinality(S) <= Cardinality(Workers)
BY CapacityAssumption, FS_Subset, FS_CardinalityType

LEMMA SmallerSet ==
  ASSUME NEW S \in SUBSET Workers, NEW T \in SUBSET S
  PROVE  Cardinality(T) <= Cardinality(S)
BY WorkerSets, FS_Subset

LEMMA OneLess ==
  ASSUME NEW S \in SUBSET Workers, NEW w \in S, NEW T \in SUBSET (S \ {w})
  PROVE  Cardinality(T) <= Cardinality(S) - 1
<1>1. Cardinality(S \ {w}) = Cardinality(S) - 1
  BY WorkerSets, FS_RemoveElement
<1>2. Cardinality(T) <= Cardinality(S \ {w})
  BY SmallerSet
<1> QED BY <1>1, <1>2, WorkerSets

LEMMA OneMore ==
  ASSUME NEW S \in SUBSET Workers, NEW w \in Workers, NEW T \in SUBSET (S \cup {w})
  PROVE  Cardinality(T) <= Cardinality(S) + 1
<1>1. Cardinality(S \cup {w}) <= Cardinality(S) + 1
  BY WorkerSets, FS_AddElement
<1>2. Cardinality(T) <= Cardinality(S \cup {w})
  BY SmallerSet
<1> QED BY <1>1, <1>2, WorkerSets

\* The next tick is of the same day, or of the next one.
LEMMA NextDay ==
  ASSUME NEW t \in Nat
  PROVE  /\ DayOf(t) \in Int
         /\ DayOf(t + 1) = DayOf(t) \/ DayOf(t + 1) = DayOf(t) + 1
<1> DEFINE d == TicksPerDay
           q == t \div d
           n == (t + 1) \div d
<1>1. d \in Nat /\ d > 0
  BY CapacityAssumption
<1>2. q \in Int /\ n \in Int
  BY <1>1
<1>3. d * q <= t /\ t < d * q + d
  BY <1>1
<1>4. d * n <= t + 1 /\ t + 1 < d * n + d
  BY <1>1
<1> HIDE DEF q, n
<1>5. n >= q
  <2> SUFFICES ASSUME n <= q - 1 PROVE FALSE
    BY <1>2
  <2>1. d * n <= d * (q - 1)
    BY <1>1, <1>2
  <2> QED BY <1>1, <1>2, <1>3, <1>4, <2>1
<1>6. n <= q + 1
  <2> SUFFICES ASSUME n >= q + 2 PROVE FALSE
    BY <1>2
  <2>1. d * n >= d * (q + 2)
    BY <1>1, <1>2
  <2> QED BY <1>1, <1>2, <1>3, <1>4, <2>1
<1> QED BY <1>2, <1>5, <1>6 DEF DayOf, q, n

-----------------------------------------------------------------------------
(* The daily cap.                                                          *)

PastDailyGate == {"pool_cap", "throttle", "incr", "expire", "attempt"}

\* Workers that are past the daily cap with a message of customer c.
Cleared(c) == {w \in Workers : pc[w] \in PastDailyGate /\ CustomerOf[job[w].msg] = c}

\* What has been sent and what may still be sent without another look at the cap.
CustomerInv ==
  \A c \in Customers :
    settings.daily_send_cap[c] > 0 =>
      sent_today[c] + Cardinality(Cleared(c)) <= Overshoot(settings.daily_send_cap[c])

\* A step of worker w that does not take it through the gate.
NoEntry(w) ==
  /\ \A v \in Workers \ {w} : pc'[v] = pc[v] /\ job'[v] = job[v]
  /\ pc'[w] \in PastDailyGate => pc[w] \in PastDailyGate /\ job'[w].msg = job[w].msg

LEMMA ClearedShrinks ==
  ASSUME NEW w \in Workers, NoEntry(w), NEW c
  PROVE  Cleared(c)' \subseteq Cleared(c)
BY DEF NoEntry, Cleared

LEMMA HoldNoEntry == ASSUME TypeInv, NEW w \in Workers, Hold(w) PROVE NoEntry(w) /\ pc'[w] = "idle"
BY DEF TypeInv, TypeOK, Hold, Goto, NoEntry, PastDailyGate

LEMMA JudgeNoEntry ==
  ASSUME TypeInv, NEW w \in Workers, NEW r \in job[w].rules, NEW count,
         pc[w] \in {"incr", "expire"}, Judge(w, r, count)
  PROVE  NoEntry(w)
BY JudgeType DEF NoEntry, PastDailyGate

LEMMA StepsNoEntry ==
  ASSUME TypeInv, NEW w \in Workers,
         SelectRoute(w) \/ CheckPoolCap(w) \/ NameKey(w) \/ Incr(w) \/ Expire(w)
           \/ Attempt(w) \/ Fail(w)
  PROVE  NoEntry(w)
<1>1. CASE SelectRoute(w)
  BY <1>1 DEF SelectRoute, Goto, NoEntry, PastDailyGate, TypeInv, TypeOK
<1>2. CASE CheckPoolCap(w)
  <2>1. CASE Hold(w)
    BY <2>1, HoldNoEntry
  <2>2. CASE GoOn(w, Matching(job[w].msg, job[w].pool))
    BY <1>2, <2>2, MatchingRules, GoOnType DEF NoEntry, PastDailyGate, CheckPoolCap, TypeInv, TypeOK
  <2> QED BY <1>2, <2>1, <2>2 DEF CheckPoolCap
<1>3. CASE Incr(w)
  <2>1. job[w].check[1] \in job[w].rules /\ pc[w] = "incr"
    BY <1>3, KeyType DEF Incr
  <2>2. CASE Goto(w, "expire") /\ UNCHANGED <<held, job>>
    BY <2>1, <2>2 DEF Goto, NoEntry, PastDailyGate, TypeInv, TypeOK
  <2> QED BY <1>3, <2>1, <2>2, JudgeNoEntry DEF Incr
<1>4. CASE Expire(w)
  BY <1>4, JudgeNoEntry, KeyType DEF Expire
<1>5. CASE Attempt(w)
  BY <1>5 DEF Attempt, Goto, NoEntry, PastDailyGate, TypeInv, TypeOK
<1>6. CASE Fail(w)
  BY <1>6 DEF Fail, Goto, NoEntry, PastDailyGate, TypeInv, TypeOK
<1>7. CASE NameKey(w)
  BY <1>7, NameKeyCases DEF NoEntry, PastDailyGate
<1> QED BY <1>1, <1>2, <1>3, <1>4, <1>5, <1>6, <1>7

LEMMA CustomerInit == Init => CustomerInv
<1> SUFFICES ASSUME Init, NEW c \in Customers, settings.daily_send_cap[c] > 0
             PROVE  sent_today[c] + Cardinality(Cleared(c)) <= Overshoot(settings.daily_send_cap[c])
  BY DEF CustomerInv
<1>1. Cleared(c) = {}
  BY DEF Init, Cleared, PastDailyGate
<1>2. settings.daily_send_cap[c] \in Nat
  BY SettingsType DEF Init
<1>3. Cardinality(Workers) \in Nat
  BY CapacityAssumption, FS_CardinalityType
<1> QED BY <1>1, <1>2, <1>3, FS_EmptySet DEF Init, Overshoot

LEMMA CustomerStep == TypeInv /\ CustomerInv /\ [Next]_vars => CustomerInv'
<1> SUFFICES ASSUME TypeInv, CustomerInv, [Next]_vars, NEW c \in Customers,
                    settings'.daily_send_cap[c] > 0
             PROVE  sent_today'[c] + Cardinality(Cleared(c)')
                      <= Overshoot(settings'.daily_send_cap[c])
  BY DEF CustomerInv
<1> DEFINE cap == settings.daily_send_cap[c]
<1>1. settings' = settings
  BY DEF Next, Send, vars, SelectRoute, CheckDailyCap, CheckPoolCap, NameKey, Incr, Expire,
         Attempt, Fail, Tick
<1>2. cap \in Nat /\ cap > 0 /\ sent_today[c] \in Nat /\ Cardinality(Workers) \in Nat
  BY <1>1, SettingsType, CapacityAssumption, FS_CardinalityType DEF TypeInv, TypeOK
<1>3. sent_today[c] + Cardinality(Cleared(c)) <= cap + Cardinality(Workers) - 1
  BY <1>1, <1>2 DEF CustomerInv, Overshoot
<1>4. Cleared(c) \in SUBSET Workers /\ Cleared(c)' \in SUBSET Workers
  BY DEF Cleared
<1>5. Cardinality(Cleared(c)) \in Nat /\ Cardinality(Cleared(c)') \in Nat
      /\ Cardinality(Cleared(c)') <= Cardinality(Workers)
  BY <1>4, WorkerSets
<1> SUFFICES sent_today'[c] + Cardinality(Cleared(c)') <= cap + Cardinality(Workers) - 1
  BY <1>1, <1>2 DEF Overshoot
<1>6. ASSUME sent_today' = sent_today, Cleared(c)' \subseteq Cleared(c)
      PROVE  sent_today'[c] + Cardinality(Cleared(c)') <= cap + Cardinality(Workers) - 1
  BY <1>2, <1>3, <1>4, <1>5, <1>6, SmallerSet
<1>7. CASE UNCHANGED vars
  BY <1>6, <1>7 DEF vars, attemptVars, Cleared
<1>8. ASSUME NEW w \in Workers,
             SelectRoute(w) \/ CheckPoolCap(w) \/ NameKey(w) \/ Incr(w) \/ Expire(w)
               \/ Fail(w)
      PROVE  sent_today'[c] + Cardinality(Cleared(c)') <= cap + Cardinality(Workers) - 1
  <2>1. sent_today' = sent_today
    BY <1>8 DEF SelectRoute, CheckPoolCap, NameKey, Incr, Expire, Fail, attemptVars
  <2> QED BY <1>6, <1>8, <2>1, StepsNoEntry, ClearedShrinks
<1>9. ASSUME NEW w \in Workers, CheckDailyCap(w)
      PROVE  sent_today'[c] + Cardinality(Cleared(c)') <= cap + Cardinality(Workers) - 1
  <2>1. sent_today' = sent_today /\ pc[w] = "daily_cap"
    BY <1>9 DEF CheckDailyCap, attemptVars
  <2>2. CASE Hold(w)
    BY <1>6, <2>1, <2>2, HoldNoEntry, ClearedShrinks
  <2>3. CASE ~AtDailyCap(CustomerOf[job[w].msg]) /\ Goto(w, "pool_cap") /\ UNCHANGED job
    <3>1. CASE CustomerOf[job[w].msg] = c
      BY <1>2, <1>5, <2>1, <2>3, <3>1 DEF AtDailyCap
    <3>2. CASE CustomerOf[job[w].msg] # c
      BY <1>6, <2>1, <2>3, <3>2 DEF Goto, Cleared, TypeInv, TypeOK
    <3> QED BY <3>1, <3>2
  <2> QED BY <1>9, <2>2, <2>3 DEF CheckDailyCap
<1>10. ASSUME NEW w \in Workers, Attempt(w)
       PROVE  sent_today'[c] + Cardinality(Cleared(c)') <= cap + Cardinality(Workers) - 1
  <2>1. Cleared(c)' \subseteq Cleared(c) \ {w}
    BY <1>10, StepsNoEntry, ClearedShrinks DEF Attempt, Goto, Cleared, PastDailyGate, TypeInv, TypeOK
  <2>2. CASE CustomerOf[job[w].msg] = c
    <3>1. w \in Cleared(c)
      BY <1>10, <2>2 DEF Attempt, Cleared, PastDailyGate
    <3>2. sent_today'[c] = sent_today[c] + 1
      BY <1>10, <2>2 DEF Attempt, TypeInv, TypeOK
    <3> QED BY <1>2, <1>3, <1>4, <1>5, <2>1, <3>1, <3>2, OneLess
  <2>3. CASE CustomerOf[job[w].msg] # c
    <3>1. sent_today'[c] = sent_today[c]
      BY <1>10, <2>3 DEF Attempt, TypeInv, TypeOK
    <3> QED BY <1>2, <1>3, <1>4, <1>5, <2>1, <3>1, SmallerSet
  <2> QED BY <2>2, <2>3
<1>11. CASE Tick
  <2>1. Cleared(c)' = Cleared(c)
    BY <1>11 DEF Tick, Cleared
  <2>2. sent_today'[c] = 0 \/ sent_today'[c] = sent_today[c]
    BY <1>11 DEF Tick
  <2> QED BY <1>2, <1>3, <1>5, <2>1, <2>2
<1> QED BY <1>7, <1>8, <1>9, <1>10, <1>11 DEF Next, Send

LEMMA CustomerInvariance == Spec => [](TypeInv /\ CustomerInv)
<1>1. Init => TypeInv /\ CustomerInv
  BY InitType, CustomerInit
<1>2. TypeInv /\ CustomerInv /\ [Next]_vars => (TypeInv /\ CustomerInv)'
  BY TypeStep, CustomerStep
<1> QED BY <1>1, <1>2, PTL DEF Spec

\* Every step spends from the quota of one customer, turns the day, or leaves the
\* ledger alone.
LEMMA CustomerLedgerStep ==
  TypeInv /\ CustomerInv /\ [Next]_vars => [CustomerQuota!Next]_CustomerLedger
<1> SUFFICES ASSUME TypeInv, CustomerInv, [Next]_vars, NEW c \in Customers
             PROVE  \/ CustomerLedger'[c] = CustomerLedger[c]
                    \/ CustomerQuota!Spend(c) \/ CustomerQuota!Turn(c)
  BY DEF CustomerQuota!Next
<1>1. settings' = settings
  BY DEF Next, Send, vars, SelectRoute, CheckDailyCap, CheckPoolCap, NameKey, Incr, Expire,
         Attempt, Fail, Tick
<1>2. clock \in Nat /\ sent_today[c] \in Nat /\ settings.daily_send_cap[c] \in Nat
      /\ Cardinality(Workers) \in Nat
  BY SettingsType, CapacityAssumption, FS_CardinalityType DEF TypeInv, TypeOK, Minutes
<1>3. CustomerLedger[c].window = DayOf(clock) /\ CustomerLedger[c].used = sent_today[c]
      /\ CustomerLedger'[c].window = DayOf(clock') /\ CustomerLedger'[c].used = sent_today'[c]
  BY DEF CustomerLedger
<1>4. ASSUME sent_today'[c] = sent_today[c], DayOf(clock') = DayOf(clock)
      PROVE  CustomerLedger'[c] = CustomerLedger[c]
  BY <1>1, <1>4 DEF CustomerLedger
<1>5. ASSUME NEW w \in Workers, Attempt(w), CustomerOf[job[w].msg] = c
      PROVE  CustomerQuota!Spend(c)
  <2>1. sent_today'[c] = sent_today[c] + 1 /\ clock' = clock
    BY <1>5 DEF Attempt, TypeInv, TypeOK
  <2>2. CustomerLedger'[c] = [CustomerLedger[c] EXCEPT !.used = @ + 1]
    BY <1>1, <2>1 DEF CustomerLedger
  <2>3. CASE settings.daily_send_cap[c] = 0
    BY <2>2, <2>3 DEF CustomerQuota!Spend, CustomerLedger, Unlimited, CustomerQuota!Unlimited
  <2>4. CASE settings.daily_send_cap[c] > 0
    <3>1. w \in Cleared(c) /\ Cleared(c) \in SUBSET Workers
      BY <1>5 DEF Attempt, Cleared, PastDailyGate
    <3>2. Cardinality({}) <= Cardinality(Cleared(c)) - 1
      BY <3>1, OneLess
    <3>3. Cardinality({}) = 0 /\ Cardinality(Cleared(c)) \in Nat
      BY <3>1, FS_EmptySet, WorkerSets
    <3>4. sent_today[c] < Overshoot(settings.daily_send_cap[c])
      BY <1>2, <2>4, <3>2, <3>3 DEF CustomerInv, Overshoot
    <3>5. CustomerLedger[c].limit = Overshoot(settings.daily_send_cap[c])
      BY <2>4 DEF CustomerLedger
    <3> QED BY <1>3, <2>2, <3>4, <3>5 DEF CustomerQuota!Spend
  <2> QED BY <1>2, <2>3, <2>4
<1>6. ASSUME NEW w \in Workers, Attempt(w), CustomerOf[job[w].msg] # c
      PROVE  CustomerLedger'[c] = CustomerLedger[c]
  BY <1>4, <1>6 DEF Attempt, TypeInv, TypeOK
<1>7. ASSUME NEW w \in Workers,
             SelectRoute(w) \/ CheckDailyCap(w) \/ CheckPoolCap(w) \/ NameKey(w) \/ Incr(w)
               \/ Expire(w) \/ Fail(w)
      PROVE  CustomerLedger'[c] = CustomerLedger[c]
  BY <1>4, <1>7 DEF SelectRoute, CheckDailyCap, CheckPoolCap, NameKey, Incr, Expire, Fail,
         attemptVars
<1>8. CASE Tick
  <2>1. CASE NewDay
    BY <1>2, <1>3, <1>8, <2>1, NextDay DEF Tick, NewDay, CustomerQuota!Turn
  <2>2. CASE ~NewDay
    BY <1>4, <1>8, <2>2 DEF Tick, NewDay
  <2> QED BY <2>1, <2>2
<1>9. CASE UNCHANGED vars
  BY <1>4, <1>9 DEF vars, attemptVars
<1> QED BY <1>5, <1>6, <1>7, <1>8, <1>9 DEF Next, Send

\* In no calendar day does a customer make more attempts than its cap and one for each
\* further worker, however many workers count before any of them has sent.
THEOREM CustomerQuotaKept == Spec => ImplementsCustomerQuota
<1>1. Init => CustomerQuota!Init
  BY DEF Init, CustomerQuota!Init, CustomerLedger
<1> QED BY <1>1, CustomerInvariance, CustomerLedgerStep, PTL
        DEF Spec, ImplementsCustomerQuota, CustomerQuota!Spec

-----------------------------------------------------------------------------
(* The throttle rules.                                                     *)

\* The counters against the clock: those of later minutes do not exist, none expires
\* in its own minute, and the minute of a key in hand lies between the time its message
\* was taken up and now.
CounterInv ==
  /\ \A r \in Rules, t \in Minutes :
       /\ t > clock => counters[KeyOf(r, t)] = 0
       /\ ttl[KeyOf(r, t)] = 0 \/ ttl[KeyOf(r, t)] >= t + 2
  /\ \A w \in Workers :
       /\ job[w].now <= clock
       /\ pc[w] \in {"incr", "expire"} => job[w].check[2] \in job[w].now..clock

\* What a worker still has to pass are rules that match, and nothing before the attempt.
RulesInv ==
  \A w \in Workers :
    /\ pc[w] \in {"throttle", "incr", "expire"} =>
         job[w].rules \subseteq Matching(job[w].msg, job[w].pool)
    /\ pc[w] = "attempt" => job[w].rules = {}

\* The check in hand does not count in this minute any more, or has counted.
Settled(w) ==
  pc[w] = "expire" \/ (pc[w] = "incr" /\ job[w].check[2] < clock)

\* Workers with a message of rule r that this minute's count of r need not let pass.
Passed(r) ==
  {w \in Workers :
     \/ /\ pc[w] \in {"throttle", "incr", "expire", "attempt"}
        /\ r \in Matching(job[w].msg, job[w].pool) /\ r \notin job[w].rules
     \/ Settled(w) /\ job[w].check[1] = r /\ r.messages_per_minute > 0}

\* The count of rule r in this minute.
Count(r) == counters[KeyOf(r, clock)]

\* The attempts rule r may stand for in this minute, given its count so far.
Allotted(r) ==
  IF r.messages_per_minute = 0 THEN 0
  ELSE Cardinality(Workers)
         + IF Count(r) < r.messages_per_minute THEN Count(r) ELSE r.messages_per_minute

ScopeInv == \A r \in Rules : minute_sent[r] + Cardinality(Passed(r)) <= Allotted(r)

ThrottleInv == TypeInv /\ CounterInv /\ RulesInv /\ ScopeInv

LEMMA CountersType ==
  ASSUME TypeInv
  PROVE  /\ clock \in Nat /\ clock \in Minutes
         /\ \A r \in Rules, t \in Minutes :
              KeyOf(r, t) \in Keys /\ KeyOf(r, t)[3] = t /\ t \in Nat
         /\ \A r \in Rules : Count(r) \in Nat
<1>1. clock \in Nat /\ clock \in Minutes
  BY CapacityAssumption DEF TypeInv, TypeOK, Minutes
<1>2. \A r \in Rules, t \in Minutes : KeyOf(r, t) \in Keys /\ KeyOf(r, t)[3] = t /\ t \in Nat
  BY CapacityAssumption DEF KeyOf, Keys, Minutes
<1> QED BY <1>1, <1>2 DEF Count, TypeInv, TypeOK

\* A step of worker w that leaves the counters alone, and names no key or this minute's.
LEMMA CounterElsewhere ==
  ASSUME TypeInv, CounterInv, NEW w \in Workers,
         clock' = clock, counters' = counters, ttl' = ttl,
         \A v \in Workers \ {w} : pc'[v] = pc[v] /\ job'[v] = job[v],
         job'[w].now <= clock,
         pc'[w] \in {"incr", "expire"} => job'[w].check[2] \in job'[w].now..clock
  PROVE  CounterInv'
BY DEF CounterInv, KeyOf

\* What judging a rule leaves of the time and the check.
LEMMA JudgeTimes ==
  ASSUME TypeInv, CounterInv, NEW w \in Workers, NEW r \in job[w].rules, NEW count,
         pc[w] \in {"incr", "expire"}, Judge(w, r, count)
  PROVE  job'[w].now <= clock /\ pc'[w] \notin {"incr", "expire"}
<1>1. clock \in Nat /\ job[w].now <= clock
  BY CountersType DEF CounterInv
<1>2. CASE Hold(w)
  <2>1. pc'[w] = "idle" /\ job'[w].now = 0
    BY <1>2 DEF Hold, Goto, NoJob, TypeInv, TypeOK
  <2> QED BY <1>1, <2>1
<1>3. CASE GoOn(w, job[w].rules \ {r})
  <2>1. job[w].rules \ {r} \in SUBSET Rules
    BY DEF TypeInv, TypeOK, Jobs
  <2> QED BY <1>1, <1>3, <2>1, GoOnType
<1> QED BY <1>2, <1>3 DEF Judge

LEMMA CounterStep == TypeInv /\ CounterInv /\ [Next]_vars => CounterInv'
<1> SUFFICES ASSUME TypeInv, CounterInv, [Next]_vars PROVE CounterInv'
  OBVIOUS
<1>1. clock \in Nat /\ clock \in Minutes
  BY CountersType
<1>2. ASSUME NEW w \in Workers, Incr(w) PROVE CounterInv'
  <2> DEFINE key == KeyInHand(w)
  <2>1. /\ job[w].check[1] \in job[w].rules /\ key \in Keys /\ pc[w] = "incr"
        /\ job[w].check[2] \in job[w].now..clock /\ job[w].now \in Nat
        /\ key[3] = job[w].check[2]
    BY <1>2, KeyType, CapacityAssumption
       DEF Incr, CounterInv, TypeInv, TypeOK, Jobs, Minutes, KeyInHand, KeyOf
  <2>2. clock' = clock /\ ttl' = ttl /\ counters' = [counters EXCEPT ![key] = counters[key] + 1]
    BY <1>2 DEF Incr
  <2>3. \A q \in Rules, t \in Minutes : t > clock => counters'[KeyOf(q, t)] = 0
    <3> HIDE DEF key
    <3> SUFFICES ASSUME NEW q \in Rules, NEW t \in Minutes, t > clock
                 PROVE  counters'[KeyOf(q, t)] = 0
      OBVIOUS
    <3>1. KeyOf(q, t) \in Keys /\ KeyOf(q, t)[3] = t /\ t \in Nat
      BY CountersType
    <3>2. KeyOf(q, t) # key
      BY <1>1, <2>1, <3>1
    <3> QED BY <2>2, <3>1, <3>2 DEF CounterInv, TypeInv, TypeOK
  <2>4. \A v \in Workers :
          /\ job'[v].now <= clock
          /\ pc'[v] \in {"incr", "expire"} => job'[v].check[2] \in job'[v].now..clock
    <3>1. CASE Goto(w, "expire") /\ UNCHANGED <<held, job>>
      BY <2>1, <3>1 DEF Goto, CounterInv, TypeInv, TypeOK
    <3>2. ASSUME NEW count, Judge(w, job[w].check[1], count)
          PROVE  \A v \in Workers :
                   /\ job'[v].now <= clock
                   /\ pc'[v] \in {"incr", "expire"} => job'[v].check[2] \in job'[v].now..clock
      BY <2>1, <3>2, JudgeType, JudgeTimes DEF CounterInv
    <3> QED BY <1>2, <3>1, <3>2 DEF Incr
  <2> HIDE DEF key
  <2>5. \A q, t : KeyOf(q, t)' = KeyOf(q, t)
    BY DEF KeyOf
  <2> QED BY <2>2, <2>3, <2>4, <2>5 DEF CounterInv
<1>3. ASSUME NEW w \in Workers, Expire(w) PROVE CounterInv'
  <2> DEFINE key == KeyInHand(w)
  <2>1. /\ job[w].check[1] \in job[w].rules /\ key \in Keys /\ pc[w] = "expire"
        /\ job[w].check[2] <= clock /\ key[3] = job[w].check[2]
    BY <1>3, KeyType, CapacityAssumption
       DEF Expire, CounterInv, TypeInv, TypeOK, Jobs, Minutes, KeyInHand, KeyOf
  <2>2. ttl' = [ttl EXCEPT ![key] = clock + 2] /\ counters' = counters /\ clock' = clock
    BY <1>3 DEF Expire
  <2>3. \A q \in Rules, t \in Minutes : ttl'[KeyOf(q, t)] = 0 \/ ttl'[KeyOf(q, t)] >= t + 2
    <3> HIDE DEF key
    <3> SUFFICES ASSUME NEW q \in Rules, NEW t \in Minutes
                 PROVE  ttl'[KeyOf(q, t)] = 0 \/ ttl'[KeyOf(q, t)] >= t + 2
      OBVIOUS
    <3>1. KeyOf(q, t) \in Keys /\ KeyOf(q, t)[3] = t /\ t \in Nat /\ ttl \in [Keys -> Nat]
      BY CountersType DEF TypeInv, TypeOK
    <3>2. CASE key = KeyOf(q, t)
      <4>1. ttl'[KeyOf(q, t)] = clock + 2 /\ t <= clock
        BY <2>1, <2>2, <3>1, <3>2
      <4> QED BY <1>1, <3>1, <4>1
    <3>3. CASE key # KeyOf(q, t)
      BY <2>2, <3>1, <3>3 DEF CounterInv
    <3> QED BY <3>2, <3>3
  <2>4. \A v \in Workers :
          /\ job'[v].now <= clock
          /\ pc'[v] \in {"incr", "expire"} => job'[v].check[2] \in job'[v].now..clock
    BY <1>3, <2>1, JudgeType, JudgeTimes DEF Expire, CounterInv
  <2> HIDE DEF key
  <2>5. \A q, t : KeyOf(q, t)' = KeyOf(q, t)
    BY DEF KeyOf
  <2> QED BY <2>2, <2>3, <2>4, <2>5 DEF CounterInv
<1>4. CASE Tick
  <2>1. clock' = clock + 1
        /\ counters' = [k \in Keys |-> IF Expires(k) THEN 0 ELSE counters[k]]
        /\ ttl' = [k \in Keys |-> IF Expires(k) THEN 0 ELSE ttl[k]]
        /\ pc' = pc /\ job' = job
    BY <1>4 DEF Tick
  <2>2. \A q \in Rules, t \in Minutes : t > clock + 1 => counters'[KeyOf(q, t)] = 0
    BY <1>1, <2>1, CountersType DEF CounterInv
  <2>3. \A q \in Rules, t \in Minutes : ttl'[KeyOf(q, t)] = 0 \/ ttl'[KeyOf(q, t)] >= t + 2
    BY <2>1, CountersType DEF CounterInv
  <2>4. ASSUME NEW v \in Workers
        PROVE  /\ job'[v].now <= clock + 1
               /\ pc'[v] \in {"incr", "expire"} => job'[v].check[2] \in job'[v].now..(clock + 1)
    <3>1. job[v].now \in Nat /\ job[v].now <= clock
      BY CapacityAssumption DEF CounterInv, TypeInv, TypeOK, Jobs, Minutes
    <3>2. pc[v] \in {"incr", "expire"} => job[v].check[2] \in job[v].now..clock
      BY DEF CounterInv
    <3> QED BY <1>1, <2>1, <3>1, <3>2
  <2>5. \A q, t : KeyOf(q, t)' = KeyOf(q, t)
    BY DEF KeyOf
  <2> QED BY <2>1, <2>2, <2>3, <2>4, <2>5 DEF CounterInv
<1>5. ASSUME NEW w \in Workers, SelectRoute(w) \/ CheckDailyCap(w) \/ CheckPoolCap(w)
                                  \/ NameKey(w) \/ Attempt(w) \/ Fail(w)
      PROVE CounterInv'
  <2>1. clock' = clock /\ counters' = counters /\ ttl' = ttl
    BY <1>5 DEF SelectRoute, CheckDailyCap, CheckPoolCap, NameKey, Attempt, Fail, redisVars
  <2>2. job[w].now \in Nat /\ job[w].now <= clock
    BY CapacityAssumption DEF CounterInv, TypeInv, TypeOK, Jobs, Minutes
  <2>3. CASE Hold(w)
    <3>1. pc'[w] = "idle" /\ job'[w].now = 0
          /\ \A v \in Workers \ {w} : pc'[v] = pc[v] /\ job'[v] = job[v]
      BY <2>3, HoldNoEntry DEF NoEntry, Hold, NoJob, TypeInv, TypeOK
    <3> QED BY <1>1, <2>1, <3>1, CounterElsewhere
  <2>4. CASE GoOn(w, Matching(job[w].msg, job[w].pool))
    <3>1. Matching(job[w].msg, job[w].pool) \in SUBSET Rules
      BY MatchingRules DEF TypeInv, TypeOK
    <3>2. pc'[w] \notin {"incr", "expire"} /\ job'[w].now <= clock
          /\ \A v \in Workers \ {w} : pc'[v] = pc[v] /\ job'[v] = job[v]
      BY <1>1, <2>2, <2>4, <3>1, GoOnType
    <3> QED BY <2>1, <3>2, CounterElsewhere
  <2>5. CASE Goto(w, "pool_cap") /\ UNCHANGED job
    <3>1. pc'[w] = "pool_cap" /\ job'[w] = job[w]
          /\ \A v \in Workers \ {w} : pc'[v] = pc[v] /\ job'[v] = job[v]
      BY <2>5 DEF Goto, TypeInv, TypeOK
    <3> QED BY <2>1, <2>2, <3>1, CounterElsewhere
  <2>6. CASE NameKey(w)
    <3>1. PICK r \in job[w].rules : job'[w].check = <<r, clock>>
      BY <2>6, NameKeyCases
    <3>2. job'[w].now = job[w].now /\ job'[w].check[2] \in job[w].now..clock
      BY <1>1, <2>2, <2>6, <3>1, NameKeyCases
    <3> QED BY <2>1, <2>2, <2>6, <3>2, NameKeyCases, CounterElsewhere
  <2>7. CASE SelectRoute(w)
    <3>1. pc'[w] = "daily_cap" /\ job'[w].now = clock
          /\ \A v \in Workers \ {w} : pc'[v] = pc[v] /\ job'[v] = job[v]
      BY <2>7 DEF SelectRoute, Goto, TypeInv, TypeOK
    <3> QED BY <1>1, <2>1, <3>1, CounterElsewhere
  <2>8. CASE Attempt(w) \/ Fail(w)
    <3>1. pc'[w] = "idle" /\ job'[w].now = 0
          /\ \A v \in Workers \ {w} : pc'[v] = pc[v] /\ job'[v] = job[v]
      BY <2>8 DEF Attempt, Fail, Goto, NoJob, TypeInv, TypeOK
    <3> QED BY <1>1, <2>1, <3>1, CounterElsewhere
  <2> QED BY <1>5, <2>3, <2>4, <2>5, <2>6, <2>7, <2>8 DEF CheckDailyCap, CheckPoolCap
<1>6. CASE UNCHANGED vars
  BY <1>6 DEF vars, redisVars, CounterInv, KeyOf
<1> QED BY <1>2, <1>3, <1>4, <1>5, <1>6 DEF Next, Send

LEMMA RulesStep == TypeInv /\ RulesInv /\ [Next]_vars => RulesInv'
<1> SUFFICES ASSUME TypeInv, RulesInv, [Next]_vars PROVE RulesInv'
  OBVIOUS
<1>1. settings' = settings
  BY DEF Next, Send, vars, SelectRoute, CheckDailyCap, CheckPoolCap, NameKey, Incr, Expire,
         Attempt, Fail, Tick
<1>2. \A m, p : Matching(m, p)' = Matching(m, p)
  BY <1>1 DEF Matching
\* A step of one worker that leaves it with fewer rules, or none in view.
<1>3. ASSUME NEW w \in Workers,
             \A v \in Workers \ {w} : pc'[v] = pc[v] /\ job'[v] = job[v],
             pc'[w] \in {"throttle", "incr", "expire"} =>
               job'[w].rules \subseteq Matching(job'[w].msg, job'[w].pool),
             pc'[w] = "attempt" => job'[w].rules = {}
      PROVE  RulesInv'
  BY <1>2, <1>3 DEF RulesInv
<1>4. ASSUME NEW w \in Workers, Hold(w) PROVE RulesInv'
  BY <1>3, <1>4, HoldNoEntry DEF NoEntry
<1>5. ASSUME NEW w \in Workers, NEW rules \in SUBSET Matching(job[w].msg, job[w].pool),
             GoOn(w, rules)
      PROVE  RulesInv'
  <2>1. rules \in SUBSET Rules
    BY MatchingRules DEF TypeInv, TypeOK
  <2> QED BY <1>3, <1>5, <2>1, GoOnType
<1>6. ASSUME NEW w \in Workers, NEW r \in job[w].rules, NEW count,
             pc[w] \in {"incr", "expire"}, Judge(w, r, count)
      PROVE  RulesInv'
  <2>1. job[w].rules \ {r} \in SUBSET Matching(job[w].msg, job[w].pool)
    BY <1>6 DEF RulesInv
  <2> QED BY <1>4, <1>5, <1>6, <2>1 DEF Judge
<1>7. ASSUME NEW w \in Workers, SelectRoute(w) \/ Attempt(w) \/ Fail(w) PROVE RulesInv'
  BY <1>3, <1>7 DEF SelectRoute, Attempt, Fail, Goto, TypeInv, TypeOK
<1>8. ASSUME NEW w \in Workers, CheckDailyCap(w) PROVE RulesInv'
  <2>1. CASE Goto(w, "pool_cap") /\ UNCHANGED job
    BY <1>3, <2>1 DEF Goto, TypeInv, TypeOK
  <2> QED BY <1>4, <1>8, <2>1 DEF CheckDailyCap
<1>9. ASSUME NEW w \in Workers, CheckPoolCap(w) PROVE RulesInv'
  BY <1>4, <1>5, <1>9 DEF CheckPoolCap
<1>10. ASSUME NEW w \in Workers, Incr(w) PROVE RulesInv'
  <2>1. job[w].check[1] \in job[w].rules /\ pc[w] = "incr"
    BY <1>10, KeyType DEF Incr
  <2>2. CASE Goto(w, "expire") /\ UNCHANGED <<held, job>>
    <3>1. pc'[w] = "expire" /\ job'[w] = job[w]
          /\ \A v \in Workers \ {w} : pc'[v] = pc[v] /\ job'[v] = job[v]
      BY <2>2 DEF Goto, TypeInv, TypeOK
    <3> QED BY <1>3, <2>1, <3>1 DEF RulesInv
  <2> QED BY <1>6, <1>10, <2>1, <2>2 DEF Incr
<1>11. ASSUME NEW w \in Workers, Expire(w) PROVE RulesInv'
  BY <1>6, <1>11, KeyType DEF Expire
<1>13. ASSUME NEW w \in Workers, NameKey(w) PROVE RulesInv'
  BY <1>3, <1>13, NameKeyCases DEF RulesInv
<1>12. CASE Tick \/ UNCHANGED vars
  BY <1>2, <1>12 DEF Tick, vars, RulesInv
<1> QED BY <1>7, <1>8, <1>9, <1>10, <1>11, <1>12, <1>13 DEF Next, Send

\* The messages of a rule that allows nothing pass it never, and those of any other rule
\* one hit at a time, but for what was in hand when the minute turned.
LEMMA PassedStep ==
  ASSUME TypeInv, CounterInv, RulesInv, NEW r \in Rules, NEW w \in Workers,
         SelectRoute(w) \/ CheckDailyCap(w) \/ CheckPoolCap(w) \/ NameKey(w) \/ Incr(w)
           \/ Expire(w) \/ Fail(w)
  PROVE  \/ Passed(r)' \subseteq Passed(r) /\ Count(r)' \in {Count(r), Count(r) + 1}
         \/ /\ Passed(r)' \subseteq Passed(r) \cup {w}
            /\ Count(r)' = Count(r) + 1 /\ Count(r)' <= r.messages_per_minute
<1>1. settings' = settings /\ clock' = clock
  BY DEF SelectRoute, CheckDailyCap, CheckPoolCap, NameKey, Incr, Expire, Fail
<1>2. \A m, p : Matching(m, p)' = Matching(m, p)
  BY <1>1 DEF Matching
\* It is enough to look at the worker that moves.
<1>3. ASSUME \A v \in Workers \ {w} : pc'[v] = pc[v] /\ job'[v] = job[v],
             w \in Passed(r)' => w \in Passed(r)
      PROVE  Passed(r)' \subseteq Passed(r)
  BY <1>1, <1>2, <1>3 DEF Passed, Settled
<1>4. ASSUME Hold(w) PROVE Passed(r)' \subseteq Passed(r)
  <2>1. w \notin Passed(r)'
    BY <1>4, HoldNoEntry DEF Passed, Settled
  <2> QED BY <1>3, <1>4, <2>1, HoldNoEntry DEF NoEntry
<1>5. counters' = counters => Count(r)' = Count(r)
  BY <1>1 DEF Count, KeyOf
<1>6. CASE SelectRoute(w) \/ Fail(w)
  <2>1. w \notin Passed(r)' /\ counters' = counters
    BY <1>6 DEF SelectRoute, Fail, Goto, Passed, Settled, TypeInv, TypeOK, redisVars
  <2>2. \A v \in Workers \ {w} : pc'[v] = pc[v] /\ job'[v] = job[v]
    BY <1>6 DEF SelectRoute, Fail, Goto, TypeInv, TypeOK
  <2> QED BY <1>3, <1>5, <2>1, <2>2
<1>7. CASE CheckDailyCap(w)
  <2>1. counters' = counters
    BY <1>7 DEF CheckDailyCap, redisVars
  <2>2. CASE Goto(w, "pool_cap") /\ UNCHANGED job
    <3>1. w \notin Passed(r)' /\ \A v \in Workers \ {w} : pc'[v] = pc[v] /\ job'[v] = job[v]
      BY <2>2 DEF Goto, Passed, Settled, TypeInv, TypeOK
    <3> QED BY <1>3, <1>5, <2>1, <3>1
  <2> QED BY <1>4, <1>5, <1>7, <2>1, <2>2 DEF CheckDailyCap
<1>8. CASE CheckPoolCap(w)
  <2>1. counters' = counters
    BY <1>8 DEF CheckPoolCap, redisVars
  <2>2. CASE GoOn(w, Matching(job[w].msg, job[w].pool))
    <3>1. Matching(job[w].msg, job[w].pool) \in SUBSET Rules
      BY MatchingRules DEF TypeInv, TypeOK
    <3>2. w \notin Passed(r)'
      BY <1>2, <2>2, <3>1, GoOnType DEF Passed, Settled
    <3> QED BY <1>3, <1>5, <2>1, <2>2, <3>1, <3>2, GoOnType
  <2> QED BY <1>4, <1>5, <1>8, <2>1, <2>2 DEF CheckPoolCap
\* Naming the key of this minute settles nothing.
<1>9. CASE NameKey(w)
  <2>1. counters' = counters /\ clock \in Nat
    BY <1>9, CountersType DEF NameKey, redisVars
  <2>2. PICK q \in job[w].rules : job'[w].check = <<q, clock>>
    BY <1>9, NameKeyCases
  <2>3. ~(job'[w].check[2] < clock)
    BY <2>1, <2>2
  <2>4. ~Settled(w)'
    BY <1>1, <1>9, <2>3, NameKeyCases DEF Settled
  <2>5. w \in Passed(r)' => w \in Passed(r)
    BY <1>2, <1>9, <2>4, NameKeyCases DEF Passed
  <2> QED BY <1>3, <1>5, <1>9, <2>1, <2>5, NameKeyCases
\* A rule is passed with a count within its limit: this minute's, or one of before.
<1>10. CASE Incr(w)
  <2> DEFINE q == job[w].check[1]
             key == KeyInHand(w)
             count == counters[key] + 1
  <2>1. /\ q \in job[w].rules /\ q \in Rules /\ key \in Keys /\ pc[w] = "incr"
        /\ q.messages_per_minute \in Nat /\ key = KeyOf(q, job[w].check[2])
    BY <1>10, KeyType, RuleLimits DEF Incr, KeyInHand
  <2>2. /\ counters' = [counters EXCEPT ![key] = count] /\ count \in Nat /\ count >= 1
        /\ IF count = 1 THEN Goto(w, "expire") /\ UNCHANGED <<held, job>> ELSE Judge(w, q, count)
    BY <1>10, <2>1 DEF Incr, FirstHit, TypeInv, TypeOK
  <2>3. KeyOf(r, clock) \in Keys /\ Count(r) \in Nat /\ clock \in Nat
    BY CountersType
  <2>4. /\ key = KeyOf(r, clock) => Count(r)' = Count(r) + 1 /\ Count(r)' = count
        /\ key # KeyOf(r, clock) => Count(r)' = Count(r)
    BY <1>1, <2>1, <2>2, <2>3 DEF Count, KeyOf, TypeInv, TypeOK
  <2>5. job[w].check[2] \in Nat /\ job[w].check[2] <= clock
    BY <1>10, <2>1, KeyType, CapacityAssumption DEF CounterInv, TypeInv, TypeOK, Jobs, Minutes
  <2> HIDE DEF key, count
  <2>6. CASE Hold(w)
    BY <1>4, <2>4, <2>6
  <2>7. CASE /\ r # q
             /\ \/ GoOn(w, job[w].rules \ {q})
                \/ Goto(w, "expire") /\ UNCHANGED job
    <3>1. job[w].rules \ {q} \in SUBSET Rules
      BY DEF TypeInv, TypeOK, Jobs
    <3>2. /\ \A v \in Workers \ {w} : pc'[v] = pc[v] /\ job'[v] = job[v]
          /\ w \in Passed(r)' => w \in Passed(r)
      <4>1. CASE GoOn(w, job[w].rules \ {q})
        BY <1>2, <2>1, <2>7, <3>1, <4>1, GoOnType DEF Passed, Settled
      <4>2. CASE Goto(w, "expire") /\ UNCHANGED job
        BY <1>2, <2>1, <2>7, <4>2 DEF Goto, Passed, Settled, TypeInv, TypeOK
      <4> QED BY <2>7, <4>1, <4>2
    <3> QED BY <1>3, <2>4, <3>2
  <2>8. CASE /\ r = q /\ count <= q.messages_per_minute
             /\ \/ GoOn(w, job[w].rules \ {q})
                \/ Goto(w, "expire") /\ UNCHANGED job
    <3>1. job[w].rules \ {q} \in SUBSET Rules
      BY DEF TypeInv, TypeOK, Jobs
    <3>2. \A v \in Workers \ {w} : pc'[v] = pc[v] /\ job'[v] = job[v]
      <4>1. CASE GoOn(w, job[w].rules \ {q})
        BY <3>1, <4>1, GoOnType
      <4> QED BY <2>8, <4>1 DEF Goto, TypeInv, TypeOK
    <3>3. Passed(r)' \subseteq Passed(r) \cup {w}
      BY <1>1, <1>2, <3>2 DEF Passed, Settled
    <3>4. CASE job[w].check[2] = clock
      <4>1. key = KeyOf(r, clock)
        BY <2>1, <2>8, <3>4
      <4> QED BY <2>4, <2>8, <3>3, <4>1
    <3>5. CASE job[w].check[2] < clock
      <4>1. r.messages_per_minute > 0
        BY <2>1, <2>2, <2>8
      <4>2. w \in Passed(r)
        BY <2>1, <2>8, <3>5, <4>1 DEF Passed, Settled
      <4>3. Count(r)' \in {Count(r), Count(r) + 1}
        BY <2>4
      <4> QED BY <3>3, <4>2, <4>3
    <3> QED BY <2>3, <2>5, <3>4, <3>5
  <2>9. CASE /\ r = q /\ q.messages_per_minute = 0
             /\ Goto(w, "expire") /\ UNCHANGED job
    <3>1. pc'[w] = "expire" /\ job'[w] = job[w]
          /\ \A v \in Workers \ {w} : pc'[v] = pc[v] /\ job'[v] = job[v]
      BY <2>9 DEF Goto, TypeInv, TypeOK
    <3>2. w \in Passed(r)' => w \in Passed(r)
      BY <1>2, <2>1, <2>9, <3>1 DEF Passed
    <3> QED BY <1>3, <2>4, <3>1, <3>2
  <2>10. \/ Hold(w)
         \/ GoOn(w, job[w].rules \ {q}) /\ count <= q.messages_per_minute
         \/ count = 1 /\ Goto(w, "expire") /\ UNCHANGED job
    BY <2>2 DEF Judge, Allowed
  <2>11. count = 1 /\ q.messages_per_minute # 0 => count <= q.messages_per_minute
    BY <2>1
  <2> QED BY <2>6, <2>7, <2>8, <2>9, <2>10, <2>11
<1>11. CASE Expire(w)
  <2>1. counters' = counters /\ pc[w] = "expire" /\ job[w].check[1] \in Rules
    BY <1>11, KeyType DEF Expire
  <2>2. CASE GoOn(w, job[w].rules \ {job[w].check[1]}) /\ Allowed(job[w].check[1], 1)
    <3>1. job[w].rules \ {job[w].check[1]} \in SUBSET Rules
      BY DEF TypeInv, TypeOK, Jobs
    <3>2. job[w].check[1] = r => r.messages_per_minute > 0
      BY <2>2, RuleLimits DEF Allowed
    <3>3. w \in Passed(r)' => w \in Passed(r)
      BY <1>2, <2>1, <2>2, <3>1, <3>2, GoOnType DEF Passed, Settled
    <3> QED BY <1>3, <1>5, <2>1, <2>2, <3>1, <3>3, GoOnType
  <2> QED BY <1>4, <1>5, <1>11, <2>1, <2>2 DEF Expire, Judge
<1> QED BY <1>6, <1>7, <1>8, <1>9, <1>10, <1>11

LEMMA AttemptPassed ==
  ASSUME TypeInv, RulesInv, NEW r \in Rules, NEW w \in Workers, Attempt(w)
  PROVE  /\ Passed(r)' \subseteq Passed(r) \ {w}
         /\ r \in Matching(job[w].msg, job[w].pool) =>
              w \in Passed(r) /\ minute_sent'[r] = minute_sent[r] + 1
         /\ r \notin Matching(job[w].msg, job[w].pool) => minute_sent'[r] = minute_sent[r]
<1>1. \A m, p : Matching(m, p)' = Matching(m, p)
  BY DEF Matching, Attempt
<1>2. pc[w] = "attempt" /\ pc'[w] = "idle" /\ job[w].rules = {} /\ clock' = clock
      /\ \A v \in Workers \ {w} : pc'[v] = pc[v] /\ job'[v] = job[v]
  BY DEF Attempt, Goto, TypeInv, TypeOK, RulesInv
<1>3. Passed(r)' \subseteq Passed(r) \ {w}
  BY <1>1, <1>2 DEF Passed, Settled
<1>4. r \in Matching(job[w].msg, job[w].pool) => w \in Passed(r)
  BY <1>2 DEF Passed
<1>5. minute_sent'[r] = IF r \in Matching(job[w].msg, job[w].pool)
                          THEN minute_sent[r] + 1 ELSE minute_sent[r]
  BY DEF Attempt
<1> QED BY <1>3, <1>4, <1>5

LEMMA ScopeStep ==
  TypeInv /\ CounterInv /\ RulesInv /\ ScopeInv /\ [Next]_vars => ScopeInv'
<1> SUFFICES ASSUME TypeInv, CounterInv, RulesInv, ScopeInv, [Next]_vars, NEW r \in Rules
             PROVE  minute_sent'[r] + Cardinality(Passed(r)') <= Allotted(r)'
  BY DEF ScopeInv
<1>1. minute_sent[r] \in Nat /\ Count(r) \in Nat /\ r.messages_per_minute \in Nat
      /\ Cardinality(Workers) \in Nat
  BY RuleLimits, CountersType, CapacityAssumption, FS_CardinalityType DEF TypeInv, TypeOK
<1>2. Passed(r) \in SUBSET Workers /\ Passed(r)' \in SUBSET Workers
  BY DEF Passed
<1>3. Cardinality(Passed(r)) \in Nat /\ Cardinality(Passed(r)') \in Nat
      /\ Cardinality(Passed(r)') <= Cardinality(Workers)
  BY <1>2, WorkerSets
<1>4. minute_sent[r] + Cardinality(Passed(r)) <= Allotted(r)
  BY DEF ScopeInv
<1>5. ASSUME NEW w \in Workers,
             SelectRoute(w) \/ CheckDailyCap(w) \/ CheckPoolCap(w) \/ NameKey(w) \/ Incr(w)
               \/ Expire(w) \/ Fail(w)
      PROVE  minute_sent'[r] + Cardinality(Passed(r)') <= Allotted(r)'
  <2>1. minute_sent' = minute_sent
    BY <1>5 DEF SelectRoute, CheckDailyCap, CheckPoolCap, NameKey, Incr, Expire, Fail,
         attemptVars
  <2>2. CASE Passed(r)' \subseteq Passed(r) /\ Count(r)' \in {Count(r), Count(r) + 1}
    <3>1. Cardinality(Passed(r)') <= Cardinality(Passed(r))
      BY <1>2, <2>2, SmallerSet
    <3> QED BY <1>1, <1>3, <1>4, <2>1, <2>2, <3>1 DEF Allotted
  <2>3. CASE /\ Passed(r)' \subseteq Passed(r) \cup {w}
             /\ Count(r)' = Count(r) + 1 /\ Count(r)' <= r.messages_per_minute
    <3>1. Cardinality(Passed(r)') <= Cardinality(Passed(r)) + 1
      BY <1>2, <2>3, OneMore
    <3> QED BY <1>1, <1>3, <1>4, <2>1, <2>3, <3>1 DEF Allotted
  <2> QED BY <1>5, <2>2, <2>3, PassedStep
<1>6. ASSUME NEW w \in Workers, Attempt(w)
      PROVE  minute_sent'[r] + Cardinality(Passed(r)') <= Allotted(r)'
  <2>1. Count(r)' = Count(r) /\ Passed(r)' \subseteq Passed(r) \ {w}
    BY <1>6, AttemptPassed DEF Attempt, redisVars, Count, KeyOf
  <2>2. CASE r \in Matching(job[w].msg, job[w].pool)
    <3>1. Cardinality(Passed(r)') <= Cardinality(Passed(r)) - 1
      BY <1>2, <1>6, <2>1, <2>2, AttemptPassed, OneLess
    <3>2. minute_sent'[r] = minute_sent[r] + 1
      BY <1>6, <2>2, AttemptPassed
    <3> QED BY <1>1, <1>3, <1>4, <2>1, <3>1, <3>2 DEF Allotted
  <2>3. CASE r \notin Matching(job[w].msg, job[w].pool)
    <3>1. Cardinality(Passed(r)') <= Cardinality(Passed(r))
      BY <1>2, <2>1, SmallerSet
    <3>2. minute_sent'[r] = minute_sent[r]
      BY <1>6, <2>3, AttemptPassed
    <3> QED BY <1>1, <1>3, <1>4, <2>1, <3>1, <3>2 DEF Allotted
  <2> QED BY <2>2, <2>3
<1>7. CASE Tick
  <2>1. minute_sent'[r] = 0 /\ Count(r)' = 0
    <3>1. clock' = clock + 1 /\ clock + 1 \in Minutes /\ clock \in Nat
          /\ minute_sent'[r] = 0
      BY <1>7, CountersType, CapacityAssumption DEF Tick, Minutes
    <3>2. KeyOf(r, clock + 1) \in Keys /\ counters[KeyOf(r, clock + 1)] = 0
      BY <3>1, CountersType DEF CounterInv
    <3>3. counters'[KeyOf(r, clock + 1)] = 0
      BY <1>7, <3>2 DEF Tick
    <3> QED BY <3>1, <3>3 DEF Count, KeyOf
  <2>2. CASE r.messages_per_minute = 0
    <3>1. Passed(r)' \subseteq Passed(r)
      BY <1>7, <2>2 DEF Tick, Passed, Matching
    <3>2. Cardinality(Passed(r)') <= Cardinality(Passed(r))
      BY <1>2, <3>1, SmallerSet
    <3> QED BY <1>1, <1>3, <1>4, <2>1, <2>2, <3>2 DEF Allotted
  <2>3. CASE r.messages_per_minute > 0
    BY <1>1, <1>3, <2>1, <2>3 DEF Allotted
  <2> QED BY <1>1, <2>2, <2>3
<1>8. CASE UNCHANGED vars
  BY <1>4, <1>8 DEF vars, attemptVars, redisVars, Passed, Settled, Matching, Allotted, Count, KeyOf
<1> QED BY <1>5, <1>6, <1>7, <1>8 DEF Next, Send

LEMMA ThrottleInit == Init => ThrottleInv
<1> SUFFICES ASSUME Init PROVE ThrottleInv
  OBVIOUS
<1>1. CounterInv
  <2>1. \A r \in Rules, t \in Minutes : KeyOf(r, t) \in Keys
    BY DEF KeyOf, Keys
  <2> QED BY <2>1 DEF Init, CounterInv, NoJob
<1>2. RulesInv
  BY DEF Init, RulesInv
<1>3. ScopeInv
  <2> SUFFICES ASSUME NEW r \in Rules
               PROVE  minute_sent[r] + Cardinality(Passed(r)) <= Allotted(r)
    BY DEF ScopeInv
  <2>1. Passed(r) = {}
    BY DEF Init, Passed, Settled
  <2>2. Cardinality(Workers) \in Nat /\ r.messages_per_minute \in Nat /\ Cardinality({}) = 0
    BY RuleLimits, CapacityAssumption, FS_CardinalityType, FS_EmptySet
  <2>3. minute_sent[r] = 0 /\ Count(r) = 0
    BY CapacityAssumption DEF Init, Count, KeyOf, Keys, Minutes
  <2> QED BY <2>1, <2>2, <2>3 DEF Allotted
<1> QED BY <1>1, <1>2, <1>3, InitType DEF ThrottleInv

LEMMA ThrottleInvariance == Spec => []ThrottleInv
<1>1. ThrottleInv /\ [Next]_vars => ThrottleInv'
  BY TypeStep, CounterStep, RulesStep, ScopeStep DEF ThrottleInv
<1> QED BY ThrottleInit, <1>1, PTL DEF Spec

\* Every step spends from the quotas of the rules a message matches, turns the minute of
\* all of them, or leaves the ledger alone.
LEMMA ScopeLedgerStep == ThrottleInv /\ [Next]_vars => [ScopeQuota!Next]_ScopeLedger
<1> SUFFICES ASSUME ThrottleInv, [Next]_vars, NEW r \in Rules
             PROVE  \/ ScopeLedger'[r] = ScopeLedger[r]
                    \/ ScopeQuota!Spend(r) \/ ScopeQuota!Turn(r)
  BY DEF ScopeQuota!Next
<1>1. minute_sent[r] \in Nat /\ Count(r) \in Nat /\ r.messages_per_minute \in Nat
      /\ Cardinality(Workers) \in Nat
  BY RuleLimits, CountersType, CapacityAssumption, FS_CardinalityType DEF ThrottleInv, TypeInv, TypeOK
<1>2. ASSUME minute_sent'[r] = minute_sent[r], clock' = clock
      PROVE  ScopeLedger'[r] = ScopeLedger[r]
  BY <1>2 DEF ScopeLedger
<1>3. ASSUME NEW w \in Workers, Attempt(w), r \in Matching(job[w].msg, job[w].pool)
      PROVE  ScopeQuota!Spend(r)
  <2>1. w \in Passed(r) /\ minute_sent'[r] = minute_sent[r] + 1 /\ clock' = clock
    BY <1>3, AttemptPassed DEF ThrottleInv, Attempt
  <2>2. Passed(r) \in SUBSET Workers
    BY DEF Passed
  <2>3. Cardinality({}) <= Cardinality(Passed(r)) - 1
    BY <2>1, <2>2, OneLess
  <2>4. Cardinality({}) = 0 /\ Cardinality(Passed(r)) \in Nat
    BY <2>2, FS_EmptySet, WorkerSets
  <2>5. minute_sent[r] + Cardinality(Passed(r)) <= Allotted(r)
    BY DEF ThrottleInv, ScopeInv
  <2>6. minute_sent[r] < ScopeLedger[r].limit /\ ScopeLedger[r].used = minute_sent[r]
    BY <1>1, <2>3, <2>4, <2>5 DEF Allotted, ScopeLedger
  <2>7. ScopeLedger'[r] = [ScopeLedger[r] EXCEPT !.used = @ + 1]
    BY <2>1 DEF ScopeLedger
  <2> QED BY <2>6, <2>7 DEF ScopeQuota!Spend
<1>4. ASSUME NEW w \in Workers, Attempt(w), r \notin Matching(job[w].msg, job[w].pool)
      PROVE  ScopeLedger'[r] = ScopeLedger[r]
  BY <1>2, <1>4, AttemptPassed DEF ThrottleInv, Attempt
<1>5. ASSUME NEW w \in Workers,
             SelectRoute(w) \/ CheckDailyCap(w) \/ CheckPoolCap(w) \/ NameKey(w) \/ Incr(w)
               \/ Expire(w) \/ Fail(w)
      PROVE  ScopeLedger'[r] = ScopeLedger[r]
  BY <1>2, <1>5 DEF SelectRoute, CheckDailyCap, CheckPoolCap, NameKey, Incr, Expire, Fail,
         attemptVars
<1>6. CASE Tick
  BY <1>6 DEF Tick, ScopeLedger, ScopeQuota!Turn
<1>7. CASE UNCHANGED vars
  BY <1>2, <1>7 DEF vars, attemptVars
<1> QED BY <1>3, <1>4, <1>5, <1>6, <1>7 DEF Next, Send

\* In no minute do the messages of a throttle rule make more attempts than the rule
\* allows and one for each worker, and none at all if it allows none.
THEOREM ScopeQuotaKept == Spec => ImplementsScopeQuota
<1>1. Init => ScopeQuota!Init
  BY DEF Init, ScopeQuota!Init, ScopeLedger
<1> QED BY <1>1, ThrottleInvariance, ScopeLedgerStep, PTL
        DEF Spec, ImplementsScopeQuota, ScopeQuota!Spec

-----------------------------------------------------------------------------
\* A message is held by a rule that allows nothing, or by one whose scope and key were
\* counted past its limit in one minute, no earlier than the minute it was taken up in:
\* for rules that share a counter, for counters that never got their expiry, and however
\* the minute turns between the look at the clock and the INCR.
THEOREM HeldByFullMinute == Spec => HeldByAFullMinute
<1> DEFINE Full(w, r) ==
             \/ r.messages_per_minute = 0
             \/ \E t \in job[w].now..clock :
                  counters'[<<r.scope, r.scope_key, t>>] > r.messages_per_minute
           Held(w) ==
             /\ pc[w] \in {"throttle", "incr", "expire"} /\ pc'[w] = "idle"
             /\ held'[job[w].msg] > held[job[w].msg]
             => \E r \in job[w].rules : Full(w, r)
<1>1. ASSUME ThrottleInv, [Next]_vars, NEW w \in Workers PROVE Held(w)
  <2> SUFFICES ASSUME pc[w] \in {"throttle", "incr", "expire"}, pc'[w] = "idle",
                      held'[job[w].msg] > held[job[w].msg]
               PROVE  \E r \in job[w].rules : Full(w, r)
    OBVIOUS
  <2> USE <1>1
  <2> HIDE DEF Full
  <2>1. TypeInv /\ CounterInv /\ job[w].msg \in Classes
    BY DEF ThrottleInv, TypeInv, TypeOK
  <2>2. held[job[w].msg] \in Nat
    BY <2>1 DEF TypeInv, TypeOK
  <2>3. CASE Incr(w)
    <3> DEFINE r == job[w].check[1]
               t == job[w].check[2]
               count == counters[KeyInHand(w)] + 1
    <3>1. /\ r \in job[w].rules /\ t \in job[w].now..clock /\ r.messages_per_minute \in Nat
      BY <2>1, <2>3, KeyType, RuleLimits DEF Incr, CounterInv
    <3>2. KeyInHand(w) \in Keys /\ KeyInHand(w) = <<r.scope, r.scope_key, t>>
      BY <2>1, <2>3, KeyType DEF Incr, KeyInHand, KeyOf
    <3>3. counters'[KeyInHand(w)] = count /\ count \in Nat
      BY <2>1, <2>3, <3>2 DEF Incr, TypeInv, TypeOK
    <3>4. ~Goto(w, "expire")
      BY <2>1 DEF Goto, TypeInv, TypeOK
    <3>5. ~Allowed(r, count)
      BY <2>2, <2>3, <3>4 DEF Incr, Judge
    <3>6. count > r.messages_per_minute
      BY <3>1, <3>3, <3>5 DEF Allowed
    <3> HIDE DEF count
    <3>7. counters'[<<r.scope, r.scope_key, t>>] > r.messages_per_minute
      BY <3>2, <3>3, <3>6
    <3> QED BY <3>1, <3>7 DEF Full
  <2>4. CASE Expire(w)
    <3>1. job[w].check[1] \in job[w].rules /\ job[w].check[1] \in Rules
      BY <2>1, <2>4, KeyType DEF Expire
    <3>2. ~Allowed(job[w].check[1], 1)
      BY <2>2, <2>4 DEF Expire, Judge
    <3> QED BY <3>1, <3>2, RuleLimits DEF Allowed, Full
  <2>5. CASE Fail(w) \/ Tick \/ UNCHANGED vars
    BY <2>2, <2>5 DEF Fail, Tick, vars
  <2>6. CASE SelectRoute(w) \/ CheckDailyCap(w) \/ CheckPoolCap(w) \/ NameKey(w) \/ Attempt(w)
    <3>1. CASE NameKey(w)
      BY <2>1, <3>1, NameKeyCases
    <3> QED BY <2>6, <3>1 DEF SelectRoute, CheckDailyCap, CheckPoolCap, Attempt
  <2>7. ASSUME NEW v \in Workers \ {w}, Send(v) \/ Fail(v) PROVE FALSE
    <3>1. CASE CheckDailyCap(v)
      BY <2>1, <2>7, <3>1, HoldNoEntry DEF CheckDailyCap, Goto, NoEntry, TypeInv, TypeOK
    <3>2. CASE SelectRoute(v) \/ CheckPoolCap(v) \/ NameKey(v) \/ Incr(v) \/ Expire(v)
                 \/ Attempt(v) \/ Fail(v)
      BY <2>1, <2>7, <3>2, StepsNoEntry DEF NoEntry
    <3> QED BY <2>7, <3>1, <3>2 DEF Send
  <2> QED BY <2>3, <2>4, <2>5, <2>6, <2>7 DEF Next, Send
<1>2. ThrottleInv /\ [Next]_vars => [\A w \in Workers : Held(w)]_vars
  BY <1>1
<1>3. Spec => [][\A w \in Workers : Held(w)]_vars
  BY <1>2, ThrottleInvariance, PTL DEF Spec
<1> QED BY <1>3 DEF HeldByAFullMinute

-----------------------------------------------------------------------------
(* The pool's caps.                                                         *)

Smaller == {ss \in Nat \X Nat : ss[1] < ss[2]}

\* A set of numbers that is not empty has a least one.
LEMMA LeastOf ==
  ASSUME NEW T \in SUBSET Nat, T # {}
  PROVE  \E n \in T : \A m \in T : n <= m
<1>1. Smaller = OpToRel(<, Nat)
  BY DEF Smaller, OpToRel
<1>2. IsWellFoundedOn(Smaller, Nat)
  BY <1>1, NatLessThanWellFounded
<1>3. \E n \in T : \A m \in T : ~(<<m, n>> \in Smaller)
  BY <1>2, WFMin, Zenon
<1>4. PICK n \in T : \A m \in T : ~(<<m, n>> \in Smaller)
  BY <1>3
<1>5. ASSUME NEW m \in T PROVE n <= m
  <2>1. m \in Nat /\ n \in Nat /\ <<m, n>> \notin Smaller
    BY <1>4
  <2>2. ~(m < n)
    BY <2>1 DEF Smaller
  <2> QED BY <2>1, <2>2
<1> QED BY <1>5

\* A finite one also has a greatest.
LEMMA GreatestOf ==
  ASSUME NEW T \in SUBSET Nat, IsFiniteSet(T), T # {}
  PROVE  \E n \in T : \A m \in T : m <= n
<1> DEFINE Wrong(U) == U # {} /\ ~ \E n \in U : \A m \in U : m <= n
           Bad == {n \in Nat : \E U \in SUBSET T : Cardinality(U) = n /\ Wrong(U)}
<1>1. ASSUME Bad # {} PROVE FALSE
  <2>1. PICK n \in Bad : \A m \in Bad : n <= m
    BY <1>1, LeastOf
  <2>2. PICK U \in SUBSET T : Cardinality(U) = n /\ Wrong(U)
    BY <2>1
  <2>3. PICK x \in U : TRUE
    BY <2>2
  <2> DEFINE V == U \ {x}
  <2>4. IsFiniteSet(U) /\ IsFiniteSet(V) /\ V \in SUBSET T
    BY FS_Subset
  <2>5. Cardinality(V) \in Nat /\ Cardinality(V) < n
    <3>1. Cardinality(V) = Cardinality(U) - 1 /\ Cardinality(U) \in Nat
      BY <2>3, <2>4, FS_RemoveElement, FS_CardinalityType
    <3> QED BY <2>2, <2>4, <3>1, FS_CardinalityType
  <2>6. Cardinality(V) \notin Bad
    <3> HIDE DEF Bad, V
    <3>1. n \in Nat
      BY <2>1 DEF Bad
    <3> QED BY <2>1, <2>5, <3>1
  <2>7. ~Wrong(V)
    <3> HIDE DEF V, Wrong
    <3> QED BY <2>4, <2>5, <2>6
  <2>8. CASE V = {}
    <3>1. \A m \in U : m <= x
      BY <2>3, <2>8
    <3> QED BY <2>2, <2>3, <3>1
  <2>9. CASE V # {}
    <3>1. PICK y \in V : \A m \in V : m <= y
      BY <2>7, <2>9
    <3> DEFINE z == IF x <= y THEN y ELSE x
    <3>2. z \in U /\ \A m \in U : m <= z
      BY <2>3, <3>1
    <3> QED BY <2>2, <3>2
  <2> QED BY <2>8, <2>9
<1>2. T \in SUBSET T /\ Cardinality(T) \in Nat
  BY FS_CardinalityType
<1> QED BY <1>1, <1>2

\* The pool's explicit limit is 0.
Shut(p) == settings.pools[p].limited /\ settings.pools[p].daily_limit = 0

LEMMA WarmupCaps ==
  ASSUME settings \in Settings, NEW p \in Pools, NEW t \in Int
  PROVE  /\ WarmupDay(settings.pools[p], t) \in Int
         /\ WarmupCap(settings.pools[p], t) \in Nat \cup {Unlimited}
         /\ WarmupCap(settings.pools[p], t) = 0 <=> Shut(p)
         /\ Scheduled(settings.pools[p], t) => WarmupCap(settings.pools[p], t) # Unlimited
<1> DEFINE pool == settings.pools[p]
           day == WarmupDay(pool, t)
<1>1. /\ pool.warming \in BOOLEAN /\ pool.limited \in BOOLEAN
      /\ pool.warmup_started_at \in Int /\ pool.daily_limit \in Nat
  BY SettingsType DEF PoolRows
<1>2. Schedule \in Seq(Nat \ {0}) /\ TicksPerDay \in Nat \ {0} /\ Len(Schedule) \in Nat
  BY CapacityAssumption
<1>3. day \in Int
  <2>1. \A a \in Nat : a \div TicksPerDay \in Int
    BY <1>2
  <2> HIDE DEF pool
  <2>2. t - pool.warmup_started_at \in Int
    BY <1>1
  <2> QED BY <2>1, <2>2 DEF WarmupDay
<1>4. Scheduled(pool, t) => Schedule[day] \in Nat /\ Schedule[day] > 0
  BY <1>2, <1>3 DEF Scheduled
<1>5. WarmupCap(pool, t) =
        IF Scheduled(pool, t) /\ (pool.limited => Schedule[day] <= pool.daily_limit)
          THEN Schedule[day]
        ELSE IF pool.limited THEN pool.daily_limit ELSE Unlimited
  BY DEF WarmupCap
<1> HIDE DEF pool, day
<1>6. /\ WarmupCap(pool, t) \in Nat \cup {Unlimited}
      /\ WarmupCap(pool, t) = 0 <=> pool.limited /\ pool.daily_limit = 0
      /\ Scheduled(pool, t) => WarmupCap(pool, t) # Unlimited
  BY <1>1, <1>4, <1>5 DEF Unlimited
<1> QED BY <1>3, <1>6 DEF pool, day, Shut

\* The cap of a day is at least the cap of each of its ticks.
LEMMA DayCaps ==
  ASSUME settings \in Settings, NEW p \in Pools, NEW t \in Minutes
  PROVE  /\ DayCap(p, DayOf(t)) \in Nat \cup {Unlimited}
         /\ DayCap(p, DayOf(t)) = 0 => Shut(p)
         /\ DayCap(p, DayOf(t)) # Unlimited =>
              /\ WarmupCap(settings.pools[p], t) \in Nat
              /\ WarmupCap(settings.pools[p], t) <= DayCap(p, DayOf(t))
<1> DEFINE cap(u) == WarmupCap(settings.pools[p], u)
           ticks == TicksOf(DayOf(t))
           caps == {cap(u) : u \in ticks}
<1>1. t \in ticks /\ ticks \subseteq Int /\ IsFiniteSet(ticks)
  <2>1. Horizon \in Nat /\ TicksPerDay \in Nat
    BY CapacityAssumption
  <2>2. IsFiniteSet(0..(Horizon + TicksPerDay))
    BY <2>1, FS_Interval
  <2>3. ticks \subseteq 0..(Horizon + TicksPerDay)
    BY DEF TicksOf
  <2>4. t \in 0..(Horizon + TicksPerDay)
    BY <2>1 DEF Minutes
  <2> QED BY <2>1, <2>2, <2>3, <2>4, FS_Subset DEF TicksOf
<1>2. DayCap(p, DayOf(t)) = IF Unlimited \in caps THEN Unlimited
                            ELSE CHOOSE c \in caps : \A other \in caps : other <= c
  BY DEF DayCap
<1> HIDE DEF ticks
<1>3. \A u \in ticks : cap(u) \in Nat \cup {Unlimited} /\ (cap(u) = 0 => Shut(p))
  BY <1>1, WarmupCaps
<1>4. cap(t) \in caps
  BY <1>1
<1>5. IsFiniteSet(caps)
  <2> DEFINE f == [u \in ticks |-> cap(u)]
  <2>1. f \in Surjection(ticks, caps)
    BY DEF Surjection
  <2> HIDE DEF f, caps
  <2> QED BY <1>1, <2>1, FS_Surjection DEF ExistsSurjection
<1>6. CASE Unlimited \in caps
  BY <1>2, <1>6 DEF Unlimited
<1>7. CASE Unlimited \notin caps
  <2>1. caps \in SUBSET Nat /\ caps # {}
    BY <1>3, <1>4, <1>7
  <2> HIDE DEF caps
  <2>2. \E c \in caps : \A other \in caps : other <= c
    BY <1>5, <2>1, GreatestOf
  <2>3. DayCap(p, DayOf(t)) \in caps /\ \A other \in caps : other <= DayCap(p, DayOf(t))
    BY <1>2, <1>7, <2>2
  <2>5. cap(t) \in Nat /\ cap(t) <= DayCap(p, DayOf(t)) /\ DayCap(p, DayOf(t)) \in Nat
    BY <1>4, <2>1, <2>3
  <2>4. DayCap(p, DayOf(t)) = 0 => cap(t) = 0
    <3> HIDE DEF cap
    <3> QED BY <2>5
  <2> QED BY <1>1, <1>3, <2>5, <2>4
<1> QED BY <1>6, <1>7

BeforePoolGate == {"daily_cap", "pool_cap"}
PastPoolGate == {"throttle", "incr", "expire", "attempt"}

\* Workers that are past the cap with a message for pool p.
Through(p) == {w \in Workers : pc[w] \in PastPoolGate /\ job[w].pool = p}

\* Workers that will compare the cap of another calendar day, or of another warmup day.
OfAnotherDay(p) ==
  {w \in Workers : /\ pc[w] \in BeforePoolGate /\ job[w].pool = p
                   /\ DayOf(job[w].now) # DayOf(clock)}

OfAnotherWarmupDay(p) ==
  {w \in Workers :
     /\ pc[w] \in BeforePoolGate /\ job[w].pool = p
     /\ \/ DayOf(job[w].now) # DayOf(clock)
        \/ WarmupDay(settings.pools[p], job[w].now) # WarmupDay(settings.pools[p], clock)}

\* Those who may still send whatever the count is against the cap of now.
Committed(p) == Through(p) \cup OfAnotherDay(p)
WarmupCommitted(p) == Through(p) \cup OfAnotherWarmupDay(p)

\* The calendar days this warmup day has touched so far.
DaysSoFar(p) ==
  {DayOf(t) : t \in {u \in WarmupTicks(p, WarmupDay(settings.pools[p], clock)) : u <= clock}}

\* A pool that is shut sends nothing.
ShutInv ==
  \A p \in Pools : Shut(p) => pool_sent_today[p] = 0 /\ Through(p) = {}

\* What was sent today and what may still be sent, against the largest cap of the day.
PoolInv ==
  \A p \in Pools :
    LET cap == DayCap(p, DayOf(clock))
    IN  cap # Unlimited /\ cap # 0 =>
          pool_sent_today[p] + Cardinality(Committed(p)) <= Overshoot(cap)

\* The same for a warmup day: what it sent today, which is part of all that was sent
\* today, and the cap with its overshoot for each calendar day before.
WarmupInv ==
  \A p \in Pools :
    LET cap == WarmupCap(settings.pools[p], clock)
    IN  Scheduled(settings.pools[p], clock) /\ cap # 0 =>
          \E part \in Nat :
            /\ part <= pool_sent_today[p]
            /\ part + Cardinality(WarmupCommitted(p)) <= Overshoot(cap)
            /\ warmup_sent[p] <= part + (Cardinality(DaysSoFar(p)) - 1) * Overshoot(cap)

PoolInvs == TypeInv /\ ShutInv /\ PoolInv /\ WarmupInv

-----------------------------------------------------------------------------
\* A step of worker w at one time that does not take it through the gate.
NoPass(w) ==
  /\ clock' = clock /\ settings' = settings
  /\ \A v \in Workers \ {w} : pc'[v] = pc[v] /\ job'[v] = job[v]
  /\ pc'[w] \in PastPoolGate => pc[w] \in PastPoolGate /\ job'[w].pool = job[w].pool
  /\ pc'[w] \in BeforePoolGate =>
       \/ job'[w].now = clock
       \/ pc[w] \in BeforePoolGate /\ job'[w].pool = job[w].pool /\ job'[w].now = job[w].now

LEMMA NoPassShrinks ==
  ASSUME NEW w \in Workers, NoPass(w), NEW p
  PROVE  /\ Through(p)' \subseteq Through(p)
         /\ Committed(p)' \subseteq Committed(p)
         /\ WarmupCommitted(p)' \subseteq WarmupCommitted(p)
<1>1. Through(p)' \subseteq Through(p)
  BY DEF NoPass, Through
<1>2. OfAnotherDay(p)' \subseteq OfAnotherDay(p)
  BY DEF NoPass, OfAnotherDay
<1>3. OfAnotherWarmupDay(p)' \subseteq OfAnotherWarmupDay(p)
  <2>1. \A t : WarmupDay(settings.pools[p], t)' = WarmupDay(settings'.pools[p], t')
    BY DEF WarmupDay
  <2> QED BY DEF NoPass, OfAnotherWarmupDay, WarmupDay
<1> QED BY <1>1, <1>2, <1>3 DEF Committed, WarmupCommitted

LEMMA StepsNoPass ==
  ASSUME TypeInv, NEW w \in Workers,
         \/ SelectRoute(w) \/ CheckDailyCap(w) \/ NameKey(w) \/ Incr(w) \/ Expire(w)
         \/ Attempt(w) \/ Fail(w)
         \/ CheckPoolCap(w) /\ Hold(w)
  PROVE  NoPass(w)
<1> USE DEF BeforePoolGate, PastPoolGate
<1>1. CASE SelectRoute(w)
  <2>1. clock' = clock /\ settings' = settings /\ pc' = [pc EXCEPT ![w] = "daily_cap"]
    BY <1>1 DEF SelectRoute, Goto
  <2>2. job'[w].now = clock /\ \A v \in Workers \ {w} : job'[v] = job[v]
    BY <1>1 DEF SelectRoute, TypeInv, TypeOK
  <2> QED BY <2>1, <2>2 DEF NoPass, TypeInv, TypeOK
<1>2. CASE (CheckDailyCap(w) /\ Hold(w)) \/ (CheckPoolCap(w) /\ Hold(w))
  <2>1. NoEntry(w) /\ pc'[w] = "idle"
    BY <1>2, HoldNoEntry
  <2>2. clock' = clock /\ settings' = settings
    BY <1>2 DEF CheckDailyCap, CheckPoolCap
  <2> QED BY <2>1, <2>2 DEF NoPass, NoEntry
<1>3. CASE CheckDailyCap(w) /\ Goto(w, "pool_cap") /\ UNCHANGED job
  BY <1>3 DEF CheckDailyCap, Goto, NoPass, TypeInv, TypeOK
<1>4. CASE Incr(w)
  <2>1. /\ job[w].check[1] \in job[w].rules /\ pc[w] = "incr"
        /\ clock' = clock /\ settings' = settings
    BY <1>4, KeyType DEF Incr
  <2>2. CASE Goto(w, "expire") /\ UNCHANGED <<held, job>>
    BY <2>1, <2>2 DEF Goto, NoPass, TypeInv, TypeOK
  <2>3. ASSUME NEW count, Judge(w, job[w].check[1], count) PROVE NoPass(w)
    BY <2>1, <2>3, JudgeType DEF NoPass
  <2> QED BY <1>4, <2>2, <2>3 DEF Incr
<1>5. CASE Expire(w)
  BY <1>5, JudgeType, KeyType DEF Expire, NoPass
<1>7. CASE NameKey(w)
  BY <1>7, NameKeyCases DEF NameKey, NoPass
<1>6. CASE Attempt(w) \/ Fail(w)
  BY <1>6 DEF Attempt, Fail, Goto, NoPass, TypeInv, TypeOK
<1> QED BY <1>1, <1>2, <1>3, <1>4, <1>5, <1>6, <1>7 DEF CheckDailyCap

\* A worker that the count lets through: the cap it compared allows one more, and it was
\* the cap of today, or the worker was one of another day already.
LEMMA PassesGate ==
  ASSUME TypeInv, NEW w \in Workers, CheckPoolCap(w), ~Hold(w)
  PROVE  /\ UNCHANGED <<clock, settings, attemptVars>> /\ ~Shut(job[w].pool)
         /\ \A p \in Pools :
              /\ p # job[w].pool => /\ Through(p)' \subseteq Through(p)
                                    /\ Committed(p)' \subseteq Committed(p)
                                    /\ WarmupCommitted(p)' \subseteq WarmupCommitted(p)
              /\ p = job[w].pool =>
                   LET cap == WarmupCap(settings.pools[p], job[w].now)
                   IN  /\ cap = Unlimited \/ pool_sent_today[p] < cap
                       /\ \/ Committed(p)' \subseteq Committed(p)
                          \/ DayOf(job[w].now) = DayOf(clock)
                       /\ \/ WarmupCommitted(p)' \subseteq WarmupCommitted(p)
                          \/ /\ DayOf(job[w].now) = DayOf(clock)
                             /\ WarmupDay(settings.pools[p], job[w].now)
                                  = WarmupDay(settings.pools[p], clock)
<1> DEFINE q == job[w].pool
<1>1. /\ pc[w] = "pool_cap" /\ ~AtWarmupCap(q, job[w].now)
      /\ GoOn(w, Matching(job[w].msg, q))
      /\ UNCHANGED <<clock, settings, attemptVars>>
  BY DEF CheckPoolCap
<1>2. q \in Pools /\ job[w].now \in Int /\ pool_sent_today \in [Pools -> Nat]
  BY <1>1, CapacityAssumption DEF TypeInv, TypeOK, Jobs, Minutes
<1>3. /\ pc'[w] \in PastPoolGate /\ job'[w].pool = q
      /\ \A v \in Workers \ {w} : pc'[v] = pc[v] /\ job'[v] = job[v]
  BY <1>1, MatchingRules, GoOnType DEF PastPoolGate, TypeInv, TypeOK
<1>4. /\ WarmupCap(settings.pools[q], job[w].now) \in Nat \cup {Unlimited}
      /\ WarmupCap(settings.pools[q], job[w].now) = 0 <=> Shut(q)
  BY <1>2, WarmupCaps DEF TypeInv, TypeOK
<1>5. /\ ~Shut(q)
      /\ \/ WarmupCap(settings.pools[q], job[w].now) = Unlimited
         \/ pool_sent_today[q] < WarmupCap(settings.pools[q], job[w].now)
  BY <1>1, <1>2, <1>4 DEF AtWarmupCap, Unlimited
<1>6. \A p \in Pools : WarmupDay(settings.pools[p], clock)' = WarmupDay(settings.pools[p], clock)
  BY <1>1
<1>7. ASSUME NEW p \in Pools
      PROVE  /\ Through(p)' \subseteq Through(p) \cup (IF p = q THEN {w} ELSE {})
             /\ OfAnotherDay(p)' \subseteq OfAnotherDay(p)
             /\ OfAnotherWarmupDay(p)' \subseteq OfAnotherWarmupDay(p)
  <2>1. Through(p)' \subseteq Through(p) \cup (IF p = q THEN {w} ELSE {})
    BY <1>3 DEF Through
  <2>2. OfAnotherDay(p)' \subseteq OfAnotherDay(p)
    BY <1>1, <1>3 DEF OfAnotherDay, BeforePoolGate, PastPoolGate
  <2>3. OfAnotherWarmupDay(p)' \subseteq OfAnotherWarmupDay(p)
    BY <1>1, <1>3 DEF OfAnotherWarmupDay, BeforePoolGate, PastPoolGate, WarmupDay
  <2> QED BY <2>1, <2>2, <2>3
<1>8. DayOf(job[w].now) # DayOf(clock) => w \in OfAnotherDay(q) /\ w \in OfAnotherWarmupDay(q)
  BY <1>1 DEF OfAnotherDay, OfAnotherWarmupDay, BeforePoolGate
<1>9. WarmupDay(settings.pools[q], job[w].now) # WarmupDay(settings.pools[q], clock) =>
        w \in OfAnotherWarmupDay(q)
  BY <1>1 DEF OfAnotherWarmupDay, BeforePoolGate
<1> HIDE DEF q
<1>10. ASSUME NEW p \in Pools
       PROVE  /\ p # q => /\ Through(p)' \subseteq Through(p)
                          /\ Committed(p)' \subseteq Committed(p)
                          /\ WarmupCommitted(p)' \subseteq WarmupCommitted(p)
              /\ p = q => /\ \/ Committed(p)' \subseteq Committed(p)
                             \/ DayOf(job[w].now) = DayOf(clock)
                          /\ \/ WarmupCommitted(p)' \subseteq WarmupCommitted(p)
                             \/ /\ DayOf(job[w].now) = DayOf(clock)
                                /\ WarmupDay(settings.pools[p], job[w].now)
                                     = WarmupDay(settings.pools[p], clock)
  BY <1>7, <1>8, <1>9 DEF Committed, WarmupCommitted
<1> QED BY <1>1, <1>5, <1>10 DEF q

\* What the steps do to the rows a pool's caps count.
LEMMA PoolRowsStep ==
  ASSUME TypeInv, NEW p \in Pools
  PROVE  /\ \A w \in Workers :
              SelectRoute(w) \/ CheckDailyCap(w) \/ CheckPoolCap(w) \/ NameKey(w) \/ Incr(w)
                \/ Expire(w) \/ Fail(w)
              => UNCHANGED attemptVars
         /\ \A w \in Workers : Attempt(w) =>
              /\ clock' = clock /\ settings' = settings
              /\ p # job[w].pool =>
                   pool_sent_today'[p] = pool_sent_today[p] /\ warmup_sent'[p] = warmup_sent[p]
              /\ p = job[w].pool =>
                   /\ pool_sent_today'[p] = pool_sent_today[p] + 1
                   /\ warmup_sent'[p] = warmup_sent[p] + 1
                   /\ w \in Through(p)
                   /\ Committed(p)' \subseteq Committed(p) \ {w}
                   /\ WarmupCommitted(p)' \subseteq WarmupCommitted(p) \ {w}
<1>1. ASSUME NEW w \in Workers, Attempt(w)
      PROVE  /\ clock' = clock /\ settings' = settings
             /\ p # job[w].pool =>
                  pool_sent_today'[p] = pool_sent_today[p] /\ warmup_sent'[p] = warmup_sent[p]
             /\ p = job[w].pool =>
                  /\ pool_sent_today'[p] = pool_sent_today[p] + 1
                  /\ warmup_sent'[p] = warmup_sent[p] + 1
                  /\ w \in Through(p)
  BY <1>1 DEF Attempt, TypeInv, TypeOK, Through, PastPoolGate
<1>2. ASSUME NEW w \in Workers, Attempt(w)
      PROVE  /\ Committed(p)' \subseteq Committed(p) \ {w}
             /\ WarmupCommitted(p)' \subseteq WarmupCommitted(p) \ {w}
  <2>1. pc'[w] = "idle"
    BY <1>2 DEF Attempt, Goto, TypeInv, TypeOK
  <2>2. w \notin Committed(p)' /\ w \notin WarmupCommitted(p)'
    BY <2>1 DEF Committed, WarmupCommitted, Through, OfAnotherDay, OfAnotherWarmupDay,
                BeforePoolGate, PastPoolGate
  <2> QED BY <1>2, <2>2, StepsNoPass, NoPassShrinks
<1>3. ASSUME NEW w \in Workers,
             SelectRoute(w) \/ CheckDailyCap(w) \/ CheckPoolCap(w) \/ NameKey(w) \/ Incr(w)
               \/ Expire(w) \/ Fail(w)
      PROVE  UNCHANGED attemptVars
  BY <1>3 DEF SelectRoute, CheckDailyCap, CheckPoolCap, NameKey, Incr, Expire, Fail
<1> QED BY <1>1, <1>2, <1>3

LEMMA CommittedSets ==
  ASSUME NEW p \in Pools
  PROVE  /\ Through(p) \in SUBSET Workers
         /\ Committed(p) \in SUBSET Workers /\ WarmupCommitted(p) \in SUBSET Workers
         /\ Through(p) \subseteq Committed(p) /\ Through(p) \subseteq WarmupCommitted(p)
BY DEF Through, Committed, WarmupCommitted, OfAnotherDay, OfAnotherWarmupDay

LEMMA SettingsFixed == [Next]_vars => settings' = settings
BY DEF Next, Send, vars, SelectRoute, CheckDailyCap, CheckPoolCap, NameKey, Incr, Expire, Attempt,
       Fail, Tick

\* Time passes: nobody moves.
LEMMA TickStill ==
  ASSUME TypeInv, Tick, NEW p \in Pools
  PROVE  /\ Through(p)' = Through(p)
         /\ clock' = clock + 1 /\ clock \in Nat /\ clock' \in Minutes
         /\ DayOf(clock') = DayOf(clock) =>
              Committed(p)' = Committed(p) /\ pool_sent_today'[p] = pool_sent_today[p]
         /\ DayOf(clock') # DayOf(clock) => pool_sent_today'[p] = 0
         /\ WarmupDay(settings.pools[p], clock') # WarmupDay(settings.pools[p], clock) =>
              warmup_sent'[p] = 0
         /\ WarmupDay(settings.pools[p], clock') = WarmupDay(settings.pools[p], clock) =>
              /\ warmup_sent'[p] = warmup_sent[p]
              /\ DayOf(clock') = DayOf(clock) => WarmupCommitted(p)' = WarmupCommitted(p)
<1>1. clock' = clock + 1 /\ clock' \in Minutes /\ clock \in Nat
  BY TickType DEF Tick, TypeInv, TypeOK, Minutes
<1>2. UNCHANGED <<pc, job, settings>>
  BY DEF Tick
<1>3. Through(p)' = Through(p)
  BY <1>2 DEF Through
<1>4. ASSUME DayOf(clock') = DayOf(clock) PROVE OfAnotherDay(p)' = OfAnotherDay(p)
  BY <1>2, <1>4 DEF OfAnotherDay
<1>5. ASSUME DayOf(clock') = DayOf(clock),
             WarmupDay(settings.pools[p], clock') = WarmupDay(settings.pools[p], clock)
      PROVE  OfAnotherWarmupDay(p)' = OfAnotherWarmupDay(p)
  <2>1. \A v \in Workers : /\ DayOf(job[v].now)' = DayOf(job[v].now)
                           /\ WarmupDay(settings.pools[p], job[v].now)'
                                = WarmupDay(settings.pools[p], job[v].now)
    BY <1>2
  <2>2. /\ DayOf(clock)' = DayOf(clock)
        /\ WarmupDay(settings.pools[p], clock)' = WarmupDay(settings.pools[p], clock)
    BY <1>2, <1>5
  <2> HIDE DEF TypeInv
  <2> QED BY <1>2, <2>1, <2>2 DEF OfAnotherWarmupDay
<1>6. /\ pool_sent_today'[p] = IF DayOf(clock') # DayOf(clock) THEN 0 ELSE pool_sent_today[p]
      /\ warmup_sent'[p] =
           IF WarmupDay(settings.pools[p], clock') # WarmupDay(settings.pools[p], clock) THEN 0
           ELSE warmup_sent[p]
  BY <1>1 DEF Tick, NewDay, NewWarmupDay
<1> QED BY <1>1, <1>3, <1>4, <1>5, <1>6 DEF Committed, WarmupCommitted

LEMMA ShutStep ==
  ASSUME TypeInv, ShutInv, [Next]_vars
  PROVE  ShutInv'
<1> SUFFICES ASSUME NEW p \in Pools, Shut(p)'
             PROVE  pool_sent_today'[p] = 0 /\ Through(p)' = {}
  BY DEF ShutInv
<1>1. Shut(p) /\ pool_sent_today[p] = 0 /\ Through(p) = {}
  BY SettingsFixed DEF Shut, ShutInv
<1>2. ASSUME NEW w \in Workers, NoPass(w), UNCHANGED attemptVars
      PROVE  pool_sent_today'[p] = 0 /\ Through(p)' = {}
  BY <1>1, <1>2, NoPassShrinks DEF attemptVars
<1>3. ASSUME NEW w \in Workers, CheckPoolCap(w), ~Hold(w)
      PROVE  pool_sent_today'[p] = 0 /\ Through(p)' = {}
  BY <1>1, <1>3, PassesGate DEF attemptVars
<1>4. ASSUME NEW w \in Workers, Attempt(w)
      PROVE  pool_sent_today'[p] = 0 /\ Through(p)' = {}
  BY <1>1, <1>4, PoolRowsStep, StepsNoPass, NoPassShrinks
<1>5. CASE Tick
  BY <1>1, <1>5, TickStill
<1>6. CASE UNCHANGED vars
  BY <1>1, <1>6 DEF vars, attemptVars, Through
<1>7. ASSUME NEW w \in Workers, Send(w) \/ Fail(w), ~Attempt(w)
      PROVE  \/ NoPass(w) /\ UNCHANGED attemptVars
             \/ CheckPoolCap(w) /\ ~Hold(w)
  BY <1>7, StepsNoPass, PoolRowsStep DEF Send
<1> QED BY <1>2, <1>3, <1>4, <1>5, <1>6, <1>7 DEF Next

LEMMA OvershootType ==
  ASSUME NEW cap \in Nat, cap # 0
  PROVE  /\ Overshoot(cap) = cap + Cardinality(Workers) - 1
         /\ Cardinality(Workers) \in Nat /\ Cardinality(Workers) >= 1
         /\ Overshoot(cap) \in Nat /\ Overshoot(cap) >= Cardinality(Workers)
<1>1. Cardinality(Workers) \in Nat /\ Cardinality(Workers) # 0
  BY CapacityAssumption, FS_CardinalityType, FS_EmptySet
<1> QED BY <1>1 DEF Overshoot

LEMMA PoolStep ==
  ASSUME TypeInv, ShutInv, PoolInv, [Next]_vars
  PROVE  PoolInv'
<1> SUFFICES ASSUME NEW p \in Pools,
                    DayCap(p, DayOf(clock))' # Unlimited, DayCap(p, DayOf(clock))' # 0
             PROVE  pool_sent_today'[p] + Cardinality(Committed(p)')
                      <= Overshoot(DayCap(p, DayOf(clock))')
  BY DEF PoolInv, Overshoot
<1> DEFINE cap == DayCap(p, DayOf(clock))
           next == DayCap(p, DayOf(clock'))
           goal == pool_sent_today'[p] + Cardinality(Committed(p)') <= Overshoot(next)
<1>1. settings' = settings /\ settings \in Settings /\ clock \in Minutes /\ clock' \in Minutes
      /\ pool_sent_today[p] \in Nat
  BY SettingsFixed, TypeStep DEF TypeInv, TypeOK
<1>2. DayCap(p, DayOf(clock))' = next
  BY <1>1 DEF DayCap, TicksOf
<1>3. /\ next \in Nat /\ next # 0 /\ Overshoot(next) \in Nat
      /\ Overshoot(next) >= Cardinality(Workers)
      /\ Overshoot(next) = next + Cardinality(Workers) - 1 /\ Cardinality(Workers) \in Nat
  BY <1>1, <1>2, DayCaps, OvershootType
<1>4. clock' = clock => pool_sent_today[p] + Cardinality(Committed(p)) <= Overshoot(next)
  BY <1>2 DEF PoolInv
<1>5. Committed(p) \in SUBSET Workers /\ Committed(p)' \in SUBSET Workers
  BY CommittedSets DEF Committed, Through, OfAnotherDay
<1>6. /\ Cardinality(Committed(p)) \in Nat /\ Cardinality(Committed(p)') \in Nat
      /\ Cardinality(Committed(p)') <= Cardinality(Workers)
  BY <1>5, WorkerSets
<1> SUFFICES goal
  BY <1>2
<1> HIDE DEF next
<1>7. ASSUME clock' = clock, pool_sent_today'[p] = pool_sent_today[p],
             Committed(p)' \subseteq Committed(p)
      PROVE  goal
  BY <1>1, <1>3, <1>4, <1>5, <1>6, <1>7, SmallerSet
<1>8. ASSUME NEW w \in Workers, NoPass(w), UNCHANGED attemptVars PROVE goal
  BY <1>7, <1>8, NoPassShrinks DEF attemptVars, NoPass
<1>9. ASSUME NEW w \in Workers, CheckPoolCap(w), ~Hold(w) PROVE goal
  <2>1. UNCHANGED <<clock, attemptVars>>
    BY <1>9, PassesGate
  <2>2. CASE Committed(p)' \subseteq Committed(p)
    BY <1>7, <2>1, <2>2 DEF attemptVars
  <2>3. CASE ~(Committed(p)' \subseteq Committed(p))
    <3> DEFINE now == job[w].now
    <3>1. /\ p = job[w].pool /\ DayOf(now) = DayOf(clock)
          /\ \/ WarmupCap(settings.pools[p], now) = Unlimited
             \/ pool_sent_today[p] < WarmupCap(settings.pools[p], now)
      BY <1>9, <2>3, PassesGate
    <3>2. now \in Minutes
      BY DEF TypeInv, TypeOK, Jobs
    <3>3. DayCap(p, DayOf(now)) = next
      BY <2>1, <3>1 DEF next
    <3>4. WarmupCap(settings.pools[p], now) \in Nat /\ WarmupCap(settings.pools[p], now) <= next
      BY <1>1, <1>2, <3>2, <3>3, DayCaps
    <3>5. pool_sent_today[p] < next
      BY <1>1, <1>3, <3>1, <3>4 DEF Unlimited
    <3> QED BY <1>1, <1>3, <1>6, <2>1, <3>5 DEF attemptVars
  <2> QED BY <2>2, <2>3
<1>10. ASSUME NEW w \in Workers, Attempt(w) PROVE goal
  <2>1. CASE p = job[w].pool
    <3>1. /\ clock' = clock /\ pool_sent_today'[p] = pool_sent_today[p] + 1 /\ w \in Committed(p)
          /\ Committed(p)' \in SUBSET (Committed(p) \ {w})
      BY <1>10, <2>1, PoolRowsStep, CommittedSets
    <3>2. Cardinality(Committed(p)') <= Cardinality(Committed(p)) - 1
      BY <1>5, <3>1, OneLess
    <3> QED BY <1>1, <1>3, <1>4, <1>6, <3>1, <3>2
  <2>2. CASE p # job[w].pool
    BY <1>7, <1>10, <2>2, PoolRowsStep, StepsNoPass, NoPassShrinks
  <2> QED BY <2>1, <2>2
<1>11. CASE Tick
  <2>1. CASE DayOf(clock') = DayOf(clock)
    <3>1. pool_sent_today[p] + Cardinality(Committed(p)) <= Overshoot(next)
      BY <1>2, <2>1 DEF PoolInv, next
    <3> QED BY <1>11, <2>1, <3>1, TickStill
  <2>2. CASE DayOf(clock') # DayOf(clock)
    BY <1>3, <1>6, <1>11, <2>2, TickStill
  <2> QED BY <2>1, <2>2
<1>12. CASE UNCHANGED vars
  BY <1>7, <1>12 DEF vars, attemptVars, Committed, Through, OfAnotherDay
<1>13. ASSUME NEW w \in Workers, Send(w) \/ Fail(w), ~Attempt(w)
       PROVE  \/ NoPass(w) /\ UNCHANGED attemptVars
              \/ CheckPoolCap(w) /\ ~Hold(w)
  BY <1>13, StepsNoPass, PoolRowsStep DEF Send
<1> QED BY <1>8, <1>9, <1>10, <1>11, <1>12, <1>13 DEF Next

LEMMA TimesGrows ==
  ASSUME NEW m \in Nat, NEW n \in Nat, m <= n, NEW o \in Nat
  PROVE  m * o \in Nat /\ n * o \in Nat /\ m * o <= n * o
<1>1. (n - m) * o >= 0 /\ (n - m) * o = n * o - m * o
  OBVIOUS
<1> QED BY <1>1

\* The next tick is of the same warmup day, or of the next one, also before the start.
LEMMA NextWarmupDay ==
  ASSUME settings \in Settings, NEW p \in Pools, NEW t \in Int
  PROVE  /\ WarmupDay(settings.pools[p], t) \in Int
         /\ \/ WarmupDay(settings.pools[p], t + 1) = WarmupDay(settings.pools[p], t)
            \/ WarmupDay(settings.pools[p], t + 1) = WarmupDay(settings.pools[p], t) + 1
<1> DEFINE pool == settings.pools[p]
           age == t - pool.warmup_started_at
           next == (t + 1) - pool.warmup_started_at
<1>1. age \in Int /\ next = age + 1
  BY SettingsType DEF PoolRows
<1>2. \A n \in Nat : /\ DayOf(n) \in Int
                     /\ DayOf(n + 1) = DayOf(n) \/ DayOf(n + 1) = DayOf(n) + 1
  BY NextDay
<1>3. DayOf(0) = 0
  BY CapacityAssumption DEF DayOf
<1>4. WarmupDay(pool, t) = 1 + IF age >= 0 THEN DayOf(age) ELSE -DayOf(-age)
  BY DEF WarmupDay, DayOf
<1>5. WarmupDay(pool, t + 1) = 1 + IF next >= 0 THEN DayOf(next) ELSE -DayOf(-next)
  BY DEF WarmupDay, DayOf
<1> HIDE DEF pool, age, next
<1>6. CASE age >= 0
  <2>1. age \in Nat /\ next >= 0 /\ next = age + 1
    BY <1>1, <1>6
  <2> QED BY <1>2, <1>4, <1>5, <2>1 DEF pool
<1>7. CASE age < 0
  <2> DEFINE before == -next
  <2>1. before \in Int /\ -age = before + 1 /\ before >= 0 /\ (next >= 0 <=> before = 0)
    BY <1>1, <1>7
  <2>2. before \in Nat
    BY <2>1
  <2>3. next >= 0 => next = 0 /\ before = 0
    BY <1>1, <1>7, <2>1
  <2>4. DayOf(before) \in Int
        /\ (DayOf(-age) = DayOf(before) \/ DayOf(-age) = DayOf(before) + 1)
    BY <1>2, <2>1, <2>2
  <2>5. WarmupDay(pool, t) = 1 - DayOf(-age)
    BY <1>1, <1>4, <1>7, <2>4
  <2>6. WarmupDay(pool, t + 1) = 1 - DayOf(before)
    BY <1>3, <1>5, <2>3, <2>4
  <2> QED BY <2>4, <2>5, <2>6 DEF pool
<1> QED BY <1>1, <1>6, <1>7

\* Days do not run backwards.
LEMMA DaysGrow ==
  ASSUME NEW t \in Nat, NEW u \in Nat, t <= u
  PROVE  DayOf(t) \in Nat /\ DayOf(t) <= t /\ DayOf(t) <= DayOf(u)
<1> DEFINE d == TicksPerDay
           a == t \div d
           b == u \div d
<1>1. d \in Nat /\ d > 0
  BY CapacityAssumption
<1>2. /\ a \in Int /\ d * a <= t /\ t < d * a + d
      /\ b \in Int /\ d * b <= u /\ u < d * b + d
  BY <1>1
<1> HIDE DEF a, b, d
<1>3. a >= 0
  <2> SUFFICES ASSUME a <= -1 PROVE FALSE
    BY <1>2
  <2>1. d * a <= d * (-1)
    BY <1>1, <1>2
  <2> QED BY <1>1, <1>2, <2>1
<1>4. a <= t
  <2>1. 1 * a <= d * a /\ 1 * a = a
    BY <1>1, <1>2, <1>3, TimesGrows
  <2> QED BY <1>1, <1>2, <2>1
<1>5. a <= b
  <2> SUFFICES ASSUME a >= b + 1 PROVE FALSE
    BY <1>2
  <2>1. d * a >= d * (b + 1)
    BY <1>1, <1>2
  <2> QED BY <1>1, <1>2, <2>1
<1> QED BY <1>2, <1>3, <1>4, <1>5 DEF DayOf, a, b, d

\* The calendar days of a warmup day, all of them and those so far.
LEMMA WarmupDays ==
  ASSUME TypeInv, NEW p \in Pools
  PROVE  LET all == {DayOf(t) : t \in WarmupTicks(p, WarmupDay(settings.pools[p], clock))}
         IN  /\ IsFiniteSet(DaysSoFar(p)) /\ Cardinality(DaysSoFar(p)) \in Nat
             /\ Cardinality(DaysSoFar(p)) >= 1
             /\ Cardinality(all) \in Nat /\ Cardinality(DaysSoFar(p)) <= Cardinality(all)
             /\ \A d \in DaysSoFar(p) : d \in Nat /\ d <= DayOf(clock)
<1> DEFINE all == {DayOf(t) : t \in WarmupTicks(p, WarmupDay(settings.pools[p], clock))}
           some == DaysSoFar(p)
<1>1. clock \in Minutes /\ Horizon \in Nat /\ Minutes \subseteq Nat
      /\ \A t \in Minutes : t <= Horizon
  BY CapacityAssumption DEF TypeInv, TypeOK, Minutes
<1>2. WarmupTicks(p, WarmupDay(settings.pools[p], clock)) \subseteq Minutes
      /\ clock \in WarmupTicks(p, WarmupDay(settings.pools[p], clock))
  BY <1>1 DEF WarmupTicks
<1>3. \A d \in all : d \in 0..Horizon
  <2>1. \A t \in Minutes : DayOf(t) \in Nat /\ DayOf(t) <= t
    BY <1>1, DaysGrow
  <2>2. \A t \in Minutes : DayOf(t) \in 0..Horizon
    BY <1>1, <2>1
  <2> QED BY <1>2, <2>2
<1>4. \A d \in some : d \in Nat /\ d <= DayOf(clock)
  BY <1>1, <1>2, DaysGrow DEF DaysSoFar
<1>5. DayOf(clock) \in some /\ some \subseteq all
  BY <1>1, <1>2 DEF DaysSoFar
<1> HIDE DEF all, some
<1>6. IsFiniteSet(all)
  <2>1. IsFiniteSet(0..Horizon)
    BY <1>1, FS_Interval
  <2> QED BY <1>3, <2>1, FS_Subset
<1>7. IsFiniteSet(some) /\ Cardinality(some) <= Cardinality(all)
  BY <1>5, <1>6, FS_Subset
<1>8. Cardinality(some) \in Nat /\ Cardinality(all) \in Nat /\ Cardinality(some) # 0
  BY <1>5, <1>6, <1>7, FS_CardinalityType, FS_EmptySet
<1> QED BY <1>4, <1>7, <1>8 DEF all, some

\* At midnight a warmup day that goes on has touched one day more.
LEMMA AnotherDay ==
  ASSUME TypeInv, Tick, NEW p \in Pools, DayOf(clock') # DayOf(clock),
         WarmupDay(settings.pools[p], clock') = WarmupDay(settings.pools[p], clock)
  PROVE  Cardinality(DaysSoFar(p)') >= Cardinality(DaysSoFar(p)) + 1
<1>1. clock \in Nat /\ clock' = clock + 1 /\ clock' \in Minutes /\ settings' = settings
      /\ Minutes \subseteq Nat /\ Horizon \in Nat
  BY TickStill, CapacityAssumption DEF Tick, Minutes
<1>2. DayOf(clock') = DayOf(clock) + 1 /\ DayOf(clock) \in Int
  BY <1>1, NextDay
<1> DEFINE some == DaysSoFar(p)
           new == DayOf(clock')
           more == DaysSoFar(p)'
<1>3. IsFiniteSet(some) /\ Cardinality(some) \in Nat /\ new \notin some
  <2>1. IsFiniteSet(some) /\ Cardinality(some) \in Nat
    BY WarmupDays
  <2>2. \A d \in some : d \in Nat /\ d <= DayOf(clock)
    BY WarmupDays
  <2> HIDE DEF some
  <2> QED BY <1>2, <2>1, <2>2
<1>4. TypeInv'
  BY TickType
<1>5. IsFiniteSet(more)
  <2>1. more = {DayOf(t) : t \in {u \in WarmupTicks(p, WarmupDay(settings.pools[p], clock)) :
                                     u <= clock'}}
    BY <1>1 DEF DaysSoFar, WarmupTicks, WarmupDay, DayOf
  <2>2. \A d \in more : d \in 0..Horizon
    BY <1>1, <2>1, DaysGrow DEF WarmupTicks, Minutes
  <2> HIDE DEF more
  <2>3. IsFiniteSet(0..Horizon)
    BY <1>1, FS_Interval
  <2> QED BY <2>2, <2>3, FS_Subset
<1>6. some \cup {new} \subseteq more
  <2> DEFINE ticks == WarmupTicks(p, WarmupDay(settings.pools[p], clock))
  <2>1. more = {DayOf(t) : t \in {u \in ticks : u <= clock'}}
    BY <1>1 DEF DaysSoFar, WarmupTicks, WarmupDay, DayOf
  <2>2. some = {DayOf(t) : t \in {u \in ticks : u <= clock}}
    BY DEF DaysSoFar
  <2>3. clock' \in ticks
    BY <1>1 DEF WarmupTicks
  <2>4. \A u \in ticks : u \in Nat
    BY <1>1 DEF WarmupTicks
  <2> HIDE DEF some, more, ticks
  <2> QED BY <1>1, <2>1, <2>2, <2>3, <2>4
<1> HIDE DEF some, new, more
<1>7. Cardinality(some \cup {new}) = Cardinality(some) + 1 /\ IsFiniteSet(some \cup {new})
  BY <1>3, FS_AddElement
<1>8. Cardinality(some \cup {new}) <= Cardinality(more)
  BY <1>5, <1>6, FS_Subset
<1> QED BY <1>3, <1>7, <1>8 DEF some, more

\* The cap of a warmup day is the same at each of its ticks.
LEMMA SameWarmupDay ==
  ASSUME NEW pool, NEW t, NEW u, WarmupDay(pool, t) = WarmupDay(pool, u)
  PROVE  Scheduled(pool, t) = Scheduled(pool, u) /\ WarmupCap(pool, t) = WarmupCap(pool, u)
<1>1. Scheduled(pool, t) = Scheduled(pool, u)
  BY DEF Scheduled
<1> QED BY <1>1 DEF WarmupCap

\* Within a warmup day the days so far are never fewer than before.
LEMMA DaysKept ==
  ASSUME TypeInv, Tick, NEW p \in Pools,
         WarmupDay(settings.pools[p], clock') = WarmupDay(settings.pools[p], clock)
  PROVE  Cardinality(DaysSoFar(p)) <= Cardinality(DaysSoFar(p)')
<1> DEFINE ticks == WarmupTicks(p, WarmupDay(settings.pools[p], clock))
           some == DaysSoFar(p)
           more == DaysSoFar(p)'
<1>1. settings' = settings /\ clock' = clock + 1 /\ clock \in Nat /\ clock' \in Minutes
      /\ Horizon \in Nat /\ \A t \in Minutes : t \in Nat /\ t <= Horizon
  BY TickStill, CapacityAssumption DEF Tick, Minutes
<1>2. more = {DayOf(t) : t \in {u \in ticks : u <= clock'}}
  BY <1>1 DEF DaysSoFar, WarmupTicks, WarmupDay, DayOf
<1>3. some = {DayOf(t) : t \in {u \in ticks : u <= clock}}
  BY DEF DaysSoFar
<1>4. \A u \in ticks : u \in Nat
  BY <1>1 DEF WarmupTicks
<1>5. \A d \in more : d \in 0..Horizon
  BY <1>1, <1>2, DaysGrow DEF WarmupTicks, Minutes
<1> HIDE DEF some, more, ticks
<1>6. some \subseteq more
  BY <1>1, <1>2, <1>3, <1>4
<1>7. IsFiniteSet(more)
  <2>1. IsFiniteSet(0..Horizon)
    BY <1>1, FS_Interval
  <2> QED BY <1>5, <2>1, FS_Subset
<1>8. Cardinality(some) <= Cardinality(more)
  BY <1>6, <1>7, FS_Subset
<1> QED BY <1>8 DEF some, more

\* Each tick is of some calendar day.
LEMMA DaysNext ==
  ASSUME TypeInv, [Next]_vars, NEW p \in Pools
  PROVE  Cardinality(DaysSoFar(p)') \in Nat /\ Cardinality(DaysSoFar(p)') >= 1
<1> DEFINE ticks == WarmupTicks(p, WarmupDay(settings.pools[p], clock'))
           more == DaysSoFar(p)'
<1>1. settings' = settings /\ clock' \in Minutes
      /\ Horizon \in Nat /\ \A t \in Minutes : t \in Nat /\ t <= Horizon
  BY SettingsFixed, TypeStep, CapacityAssumption DEF TypeInv, TypeOK, Minutes
<1>2. more = {DayOf(t) : t \in {u \in ticks : u <= clock'}}
  BY <1>1 DEF DaysSoFar, WarmupTicks, WarmupDay, DayOf
<1>3. clock' \in ticks /\ clock' <= clock'
  BY <1>1 DEF WarmupTicks
<1>4. \A d \in more : d \in 0..Horizon
  BY <1>1, <1>2, DaysGrow DEF WarmupTicks, Minutes
<1> HIDE DEF more, ticks
<1>5. DayOf(clock') \in more
  BY <1>2, <1>3
<1>6. IsFiniteSet(more)
  <2>1. IsFiniteSet(0..Horizon)
    BY <1>1, FS_Interval
  <2> QED BY <1>4, <2>1, FS_Subset
<1>7. Cardinality(more) \in Nat /\ Cardinality(more) # 0
  BY <1>5, <1>6, FS_CardinalityType, FS_EmptySet
<1> QED BY <1>7 DEF more

\* What the invariant says of one pool, with its cap.
Accounted(p, cap) ==
  \E part \in Nat :
    /\ part <= pool_sent_today[p]
    /\ part + Cardinality(WarmupCommitted(p)) <= Overshoot(cap)
    /\ warmup_sent[p] <= part + (Cardinality(DaysSoFar(p)) - 1) * Overshoot(cap)

LEMMA WarmupStep ==
  ASSUME TypeInv, ShutInv, WarmupInv, [Next]_vars
  PROVE  WarmupInv'
<1> SUFFICES ASSUME NEW p \in Pools, Scheduled(settings.pools[p], clock)',
                    WarmupCap(settings.pools[p], clock)' # 0
             PROVE  Accounted(p, WarmupCap(settings.pools[p], clock))'
  BY DEF WarmupInv, Accounted
<1> DEFINE pool == settings.pools[p]
           cap == WarmupCap(pool, clock')
           o == Overshoot(cap)
           k == Cardinality(DaysSoFar(p))
           more == Cardinality(DaysSoFar(p)')
           done == Cardinality(WarmupCommitted(p))
           left == Cardinality(WarmupCommitted(p)')
           sent == pool_sent_today[p]
           next == pool_sent_today'[p]
           all == warmup_sent[p]
           more_all == warmup_sent'[p]
           goal == \E part \in Nat :
                     part <= next /\ part + left <= o /\ more_all <= part + (more - 1) * o
<1>1. /\ settings' = settings /\ settings \in Settings /\ clock \in Minutes /\ clock' \in Minutes
      /\ TypeInv'
  BY SettingsFixed, TypeStep DEF TypeInv, TypeOK
<1>2. /\ Scheduled(pool, clock)' = Scheduled(pool, clock')
      /\ WarmupCap(settings.pools[p], clock)' = cap
  BY <1>1 DEF WarmupCap, Scheduled, WarmupDay
<1>3. /\ sent \in Nat /\ next \in Nat /\ all \in Nat /\ more_all \in Nat
  BY <1>1 DEF TypeInv, TypeOK
<1>4. clock \in Int /\ clock' \in Int
  BY <1>1, CapacityAssumption DEF Minutes
<1>5. cap \in Nat /\ cap # 0
  BY <1>1, <1>2, <1>4, WarmupCaps
<1>6. /\ o \in Nat /\ o >= Cardinality(Workers)
      /\ o = cap + Cardinality(Workers) - 1 /\ Cardinality(Workers) \in Nat
  BY <1>5, OvershootType
<1>7. k \in Nat /\ k >= 1 /\ more \in Nat /\ more >= 1
  <2>1. k \in Nat /\ k >= 1
    BY WarmupDays
  <2> QED BY <2>1, DaysNext
<1>8. WarmupCommitted(p) \in SUBSET Workers /\ WarmupCommitted(p)' \in SUBSET Workers
  BY CommittedSets DEF WarmupCommitted, Through, OfAnotherWarmupDay
<1>9. done \in Nat /\ left \in Nat /\ left <= Cardinality(Workers)
  BY <1>8, WorkerSets
<1>10. ASSUME WarmupDay(pool, clock') = WarmupDay(pool, clock)
       PROVE  \E part \in Nat :
                /\ part <= sent /\ part + done <= o /\ all <= part + (k - 1) * o
  <2>1. Scheduled(pool, clock) /\ WarmupCap(pool, clock) = cap
    BY <1>2, <1>10, SameWarmupDay
  <2> QED BY <1>5, <2>1 DEF WarmupInv
<1> SUFFICES goal
  BY <1>2 DEF Accounted
<1>11. ASSUME clock' = clock PROVE more = k
  BY <1>1, <1>11 DEF DaysSoFar, WarmupTicks, WarmupDay, DayOf
<1> HIDE DEF cap, o, k, more, done, left, sent, next, all, more_all
<1>12. ASSUME clock' = clock, next = sent, more_all = all, WarmupCommitted(p)' \subseteq WarmupCommitted(p)
       PROVE  goal
  <2>1. left <= done
    BY <1>8, <1>12, SmallerSet DEF left, done
  <2>2. PICK part \in Nat : part <= sent /\ part + done <= o /\ all <= part + (k - 1) * o
    BY <1>10, <1>12
  <2>3. part + left <= o
    BY <1>6, <1>9, <2>1, <2>2
  <2> QED BY <1>11, <1>12, <2>2, <2>3
<1>13. ASSUME UNCHANGED attemptVars PROVE next = sent /\ more_all = all
  BY <1>13 DEF attemptVars, next, sent, more_all, all
<1>14. ASSUME NEW w \in Workers, NoPass(w), UNCHANGED attemptVars PROVE goal
  BY <1>12, <1>13, <1>14, NoPassShrinks DEF NoPass
<1>15. ASSUME NEW w \in Workers, CheckPoolCap(w), ~Hold(w) PROVE goal
  <2>1. clock' = clock /\ next = sent /\ more_all = all
    BY <1>13, <1>15, PassesGate
  <2>2. CASE WarmupCommitted(p)' \subseteq WarmupCommitted(p)
    BY <1>12, <2>1, <2>2
  <2>3. CASE ~(WarmupCommitted(p)' \subseteq WarmupCommitted(p))
    <3>1. /\ WarmupDay(pool, job[w].now) = WarmupDay(pool, clock)
          /\ \/ WarmupCap(pool, job[w].now) = Unlimited
             \/ pool_sent_today[p] < WarmupCap(pool, job[w].now)
      BY <1>15, <2>3, PassesGate
    <3>2. WarmupCap(pool, job[w].now) = cap
      BY <2>1, <3>1, SameWarmupDay DEF cap
    <3>3. sent < cap
      BY <1>5, <3>1, <3>2 DEF Unlimited, sent
    <3>4. PICK part \in Nat : part <= sent /\ part + done <= o /\ all <= part + (k - 1) * o
      BY <1>10, <2>1
    <3>5. part + left <= o
      BY <1>3, <1>5, <1>6, <1>9, <3>3, <3>4
    <3> QED BY <1>11, <2>1, <3>4, <3>5
  <2> QED BY <2>2, <2>3
<1>16. ASSUME NEW w \in Workers, Attempt(w) PROVE goal
  <2>1. CASE p = job[w].pool
    <3>1. /\ clock' = clock /\ next = sent + 1 /\ more_all = all + 1
          /\ w \in WarmupCommitted(p)
          /\ WarmupCommitted(p)' \in SUBSET (WarmupCommitted(p) \ {w})
      BY <1>16, <2>1, PoolRowsStep, CommittedSets DEF next, sent, more_all, all
    <3>2. left <= done - 1
      BY <1>8, <3>1, OneLess DEF left, done
    <3>3. PICK part \in Nat : part <= sent /\ part + done <= o /\ all <= part + (k - 1) * o
      BY <1>10, <3>1
    <3> DEFINE owed == (k - 1) * o
    <3>4. owed \in Int /\ more = k /\ all <= part + owed
      BY <1>6, <1>7, <1>11, <3>1, <3>3
    <3>5. (more - 1) * o = owed
      BY <3>4
    <3> HIDE DEF owed
    <3>6. /\ part + 1 \in Nat /\ part + 1 <= next /\ (part + 1) + left <= o
          /\ more_all <= (part + 1) + owed
      BY <1>3, <1>6, <1>9, <3>1, <3>2, <3>3, <3>4
    <3> QED BY <3>5, <3>6
  <2>2. CASE p # job[w].pool
    <3>1. clock' = clock /\ next = sent /\ more_all = all
      BY <1>16, <2>2, PoolRowsStep DEF next, sent, more_all, all
    <3> QED BY <1>12, <1>16, <3>1, StepsNoPass, NoPassShrinks
  <2> QED BY <2>1, <2>2
<1>17. CASE Tick
  <2>1. CASE WarmupDay(pool, clock') # WarmupDay(pool, clock)
    <3>1. more_all = 0
      BY <1>17, <2>1, TickStill DEF more_all
    <3>2. (more - 1) * o >= 0 /\ (more - 1) * o \in Int
      <4>1. 0 * o <= (more - 1) * o /\ (more - 1) * o \in Nat
        BY <1>6, <1>7, TimesGrows
      <4> QED BY <1>6, <4>1
    <3>3. 0 \in Nat /\ 0 <= next /\ 0 + left <= o /\ more_all <= 0 + (more - 1) * o
      BY <1>3, <1>6, <1>9, <3>1, <3>2
    <3> QED BY <3>3
  <2>2. CASE /\ WarmupDay(pool, clock') = WarmupDay(pool, clock)
             /\ DayOf(clock') = DayOf(clock)
    <3>1. next = sent /\ more_all = all /\ left = done
      BY <1>17, <2>2, TickStill DEF next, sent, more_all, all, left, done
    <3>2. PICK part \in Nat : part <= sent /\ part + done <= o /\ all <= part + (k - 1) * o
      BY <1>10, <2>2
    <3>3. k <= more
      BY <1>17, <2>2, DaysKept DEF k, more
    <3>4. /\ (k - 1) * o <= (more - 1) * o /\ (k - 1) * o \in Nat /\ (more - 1) * o \in Nat
      <4>1. k - 1 \in Nat /\ more - 1 \in Nat /\ k - 1 <= more - 1
        BY <1>7, <3>3
      <4> QED BY <1>6, <4>1, TimesGrows
    <3>5. more_all <= part + (more - 1) * o
      BY <1>3, <3>1, <3>2, <3>4
    <3> QED BY <3>1, <3>2, <3>5
  <2>3. CASE /\ WarmupDay(pool, clock') = WarmupDay(pool, clock)
             /\ DayOf(clock') # DayOf(clock)
    <3>1. more_all = all
      BY <1>17, <2>3, TickStill DEF more_all, all
    <3>2. PICK part \in Nat : part <= sent /\ part + done <= o /\ all <= part + (k - 1) * o
      BY <1>10, <2>3
    <3>3. more >= k + 1
      BY <1>7, <1>17, <2>3, AnotherDay DEF k, more
    <3>4. k * o <= (more - 1) * o /\ k * o \in Nat /\ (more - 1) * o \in Nat
      <4>1. more - 1 \in Nat /\ k <= more - 1
        BY <1>7, <3>3
      <4> QED BY <1>6, <1>7, <4>1, TimesGrows
    <3>5. (k - 1) * o = k * o - o
      BY <1>6, <1>7
    <3>6. more_all <= 0 + (more - 1) * o
      BY <1>3, <1>6, <1>9, <3>1, <3>2, <3>4, <3>5
    <3> QED BY <1>3, <1>6, <1>9, <3>6
  <2> QED BY <2>1, <2>2, <2>3
<1>18. CASE UNCHANGED vars
  <2>1. UNCHANGED attemptVars /\ clock' = clock
    BY <1>18 DEF vars
  <2>2. WarmupCommitted(p)' = WarmupCommitted(p)
    BY <1>18 DEF vars, WarmupCommitted, Through, OfAnotherWarmupDay, WarmupDay
  <2> QED BY <1>12, <1>13, <2>1, <2>2
<1>19. ASSUME NEW w \in Workers, Send(w) \/ Fail(w), ~Attempt(w)
       PROVE  \/ NoPass(w) /\ UNCHANGED attemptVars
              \/ CheckPoolCap(w) /\ ~Hold(w)
  BY <1>19, StepsNoPass, PoolRowsStep DEF Send
<1> QED BY <1>14, <1>15, <1>16, <1>17, <1>18, <1>19 DEF Next

LEMMA PoolInit == ASSUME Init PROVE PoolInvs
<1>1. TypeInv
  BY InitType
<1>2. /\ settings \in Settings /\ clock = 0 /\ clock \in Minutes
      /\ \A p \in Pools : pool_sent_today[p] = 0 /\ warmup_sent[p] = 0
  BY <1>1 DEF Init, TypeInv, TypeOK
<1>3. \A p \in Pools : /\ Through(p) = {} /\ Committed(p) = {} /\ WarmupCommitted(p) = {}
  BY DEF Init, Committed, WarmupCommitted, Through, OfAnotherDay, OfAnotherWarmupDay,
         BeforePoolGate, PastPoolGate
<1>4. Cardinality({}) = 0
  BY FS_EmptySet
<1>5. ShutInv
  BY <1>2, <1>3 DEF ShutInv
<1>6. PoolInv
  <2> SUFFICES ASSUME NEW p \in Pools, DayCap(p, DayOf(clock)) # Unlimited,
                      DayCap(p, DayOf(clock)) # 0
               PROVE  pool_sent_today[p] + Cardinality(Committed(p))
                        <= Overshoot(DayCap(p, DayOf(clock)))
    BY DEF PoolInv
  <2>1. Overshoot(DayCap(p, DayOf(clock))) \in Nat
    BY <1>2, DayCaps, OvershootType
  <2> QED BY <1>2, <1>3, <1>4, <2>1
<1>7. WarmupInv
  <2> SUFFICES ASSUME NEW p \in Pools, Scheduled(settings.pools[p], clock),
                      WarmupCap(settings.pools[p], clock) # 0
               PROVE  Accounted(p, WarmupCap(settings.pools[p], clock))
    BY DEF WarmupInv, Accounted
  <2> DEFINE o == Overshoot(WarmupCap(settings.pools[p], clock))
             k == Cardinality(DaysSoFar(p))
  <2>1. clock \in Int
    BY <1>2
  <2>2. o \in Nat
    BY <1>2, <2>1, WarmupCaps, OvershootType
  <2>3. k \in Nat /\ k >= 1
    BY <1>1, WarmupDays
  <2> HIDE DEF o, k
  <2>4. 0 * o <= (k - 1) * o /\ (k - 1) * o \in Nat
    BY <2>2, <2>3, TimesGrows
  <2>5. 0 \in Nat /\ 0 + 0 <= o /\ 0 <= 0 + (k - 1) * o
    BY <2>2, <2>4
  <2>6. Cardinality(WarmupCommitted(p)) = 0
    BY <1>3, <1>4
  <2>7. /\ 0 <= pool_sent_today[p]
        /\ 0 + Cardinality(WarmupCommitted(p)) <= o
        /\ warmup_sent[p] <= 0 + (k - 1) * o
    BY <1>2, <2>5, <2>6
  <2> QED BY <2>5, <2>7 DEF Accounted, o, k
<1> QED BY <1>1, <1>5, <1>6, <1>7 DEF PoolInvs

LEMMA PoolInvariance == Spec => []PoolInvs
<1>1. Init => PoolInvs
  BY PoolInit
<1>2. PoolInvs /\ [Next]_vars => PoolInvs'
  BY TypeStep, ShutStep, PoolStep, WarmupStep DEF PoolInvs
<1> QED BY <1>1, <1>2, PTL DEF Spec

\* What a step does to the two ledgers of a pool: an attempt for the pool, a tick, or nothing.
LEMMA PoolCases ==
  ASSUME PoolInvs, [Next]_vars, NEW p \in Pools
  PROVE  \/ /\ UNCHANGED <<clock, settings>>
            /\ pool_sent_today'[p] = pool_sent_today[p] /\ warmup_sent'[p] = warmup_sent[p]
         \/ /\ UNCHANGED <<clock, settings>>
            /\ pool_sent_today'[p] = pool_sent_today[p] + 1
            /\ warmup_sent'[p] = warmup_sent[p] + 1
            /\ \E w \in Workers : w \in Through(p)
         \/ Tick
<1>1. TypeInv /\ settings' = settings
  BY SettingsFixed DEF PoolInvs
<1>2. ASSUME NEW w \in Workers, Attempt(w), p = job[w].pool
      PROVE  /\ UNCHANGED <<clock, settings>>
             /\ pool_sent_today'[p] = pool_sent_today[p] + 1
             /\ warmup_sent'[p] = warmup_sent[p] + 1
             /\ w \in Through(p)
  BY <1>1, <1>2, PoolRowsStep
<1>3. ASSUME NEW w \in Workers, Attempt(w), p # job[w].pool
      PROVE  /\ UNCHANGED <<clock, settings>>
             /\ pool_sent_today'[p] = pool_sent_today[p] /\ warmup_sent'[p] = warmup_sent[p]
  BY <1>1, <1>3, PoolRowsStep
<1>4. ASSUME NEW w \in Workers,
             SelectRoute(w) \/ CheckDailyCap(w) \/ CheckPoolCap(w) \/ NameKey(w) \/ Incr(w)
               \/ Expire(w) \/ Fail(w)
      PROVE  UNCHANGED <<clock, settings, attemptVars>>
  BY <1>4 DEF SelectRoute, CheckDailyCap, CheckPoolCap, NameKey, Incr, Expire, Fail
<1>5. CASE UNCHANGED vars
  BY <1>5 DEF vars, attemptVars
<1> QED BY <1>2, <1>3, <1>4, <1>5 DEF Next, Send, attemptVars

\* Every step spends from the day of one pool, turns the day, or leaves the ledger alone.
LEMMA PoolLedgerStep ==
  ASSUME PoolInvs, [Next]_vars
  PROVE  [PoolQuota!Next]_PoolLedger
<1> SUFFICES ASSUME NEW p \in Pools
             PROVE  \/ PoolLedger'[p] = PoolLedger[p]
                    \/ PoolQuota!Spend(p) \/ PoolQuota!Turn(p)
  BY DEF PoolQuota!Next
<1> DEFINE cap == DayCap(p, DayOf(clock))
<1>1. /\ TypeInv /\ settings' = settings /\ settings \in Settings
      /\ clock \in Minutes /\ clock \in Nat /\ pool_sent_today[p] \in Nat
  BY SettingsFixed, CapacityAssumption DEF PoolInvs, TypeInv, TypeOK, Minutes
<1>2. /\ PoolLedger[p] = [window |-> DayOf(clock), used |-> pool_sent_today[p],
                          limit |-> IF cap = Unlimited THEN Unlimited ELSE Overshoot(cap)]
      /\ PoolLedger'[p].window = DayOf(clock') /\ PoolLedger'[p].used = pool_sent_today'[p]
  BY DEF PoolLedger
<1>3. ASSUME DayOf(clock') = DayOf(clock)
      PROVE  PoolLedger'[p] = [PoolLedger[p] EXCEPT !.used = pool_sent_today'[p]]
  <2>1. DayCap(p, DayOf(clock))' = cap
    BY <1>1, <1>3 DEF DayCap, TicksOf
  <2> HIDE DEF cap
  <2>2. PoolLedger'[p] = [window |-> DayOf(clock'), used |-> pool_sent_today'[p],
                          limit |-> IF cap = Unlimited THEN Unlimited ELSE Overshoot(cap)]
    BY <2>1 DEF PoolLedger, Overshoot
  <2> QED BY <1>2, <1>3, <2>2
<1> HIDE DEF cap
<1>4. CASE clock' = clock /\ pool_sent_today'[p] = pool_sent_today[p]
  BY <1>2, <1>3, <1>4
<1>5. ASSUME clock' = clock, pool_sent_today'[p] = pool_sent_today[p] + 1,
             NEW w \in Workers, w \in Through(p)
      PROVE  PoolQuota!Spend(p)
  <2>1. PoolLedger'[p] = [PoolLedger[p] EXCEPT !.used = @ + 1]
    BY <1>2, <1>3, <1>5
  <2>2. cap \in Nat \cup {Unlimited} /\ cap # 0
    BY <1>1, <1>5, DayCaps DEF PoolInvs, ShutInv, cap
  <2>3. CASE cap = Unlimited
    BY <1>2, <2>1, <2>3 DEF PoolQuota!Spend, PoolQuota!Unlimited, Unlimited
  <2>4. CASE cap # Unlimited
    <3>1. pool_sent_today[p] + Cardinality(Committed(p)) <= Overshoot(cap)
      BY <2>2, <2>4 DEF PoolInvs, PoolInv, cap
    <3>2. w \in Committed(p) /\ Committed(p) \in SUBSET Workers
      BY <1>5, CommittedSets
    <3>3. Cardinality({}) <= Cardinality(Committed(p)) - 1
      BY <3>2, OneLess
    <3>4. Cardinality({}) = 0 /\ Cardinality(Committed(p)) \in Nat
      BY <3>2, FS_EmptySet, WorkerSets
    <3>5. Overshoot(cap) \in Nat
      BY <2>2, <2>4, OvershootType
    <3>6. pool_sent_today[p] < Overshoot(cap)
      BY <1>1, <3>1, <3>3, <3>4, <3>5
    <3> QED BY <1>2, <2>1, <2>4, <3>6 DEF PoolQuota!Spend
  <2> QED BY <2>3, <2>4
<1>6. CASE Tick
  <2>1. CASE DayOf(clock') = DayOf(clock)
    BY <1>1, <1>2, <1>3, <1>6, <2>1, TickStill
  <2>2. CASE DayOf(clock') # DayOf(clock)
    <3>1. DayOf(clock') = DayOf(clock) + 1 /\ pool_sent_today'[p] = 0
      BY <1>1, <1>6, <2>2, TickStill, NextDay
    <3> QED BY <1>2, <3>1 DEF PoolQuota!Turn
  <2> QED BY <2>1, <2>2
<1> QED BY <1>4, <1>5, <1>6, PoolCases

\* In no calendar day does a pool make more attempts than the largest cap in force on that
\* day and one for each further worker, for any pools, schedule, workers and faults.
THEOREM PoolQuotaKept == Spec => ImplementsPoolQuota
<1>1. Init => PoolQuota!Init
  BY DEF Init, PoolQuota!Init, PoolLedger
<1>2. PoolInvs /\ [Next]_vars => [PoolQuota!Next]_PoolLedger
  BY PoolLedgerStep
<1> QED BY <1>1, <1>2, PoolInvariance, PTL
        DEF Spec, ImplementsPoolQuota, PoolQuota!Spec

\* The same for the warmup day of a pool.
LEMMA WarmupLedgerStep ==
  ASSUME PoolInvs, [Next]_vars
  PROVE  [WarmupQuota!Next]_WarmupLedger
<1> SUFFICES ASSUME NEW p \in Pools
             PROVE  \/ WarmupLedger'[p] = WarmupLedger[p]
                    \/ WarmupQuota!Spend(p) \/ WarmupQuota!Turn(p)
  BY DEF WarmupQuota!Next
<1> DEFINE pool == settings.pools[p]
           today == WarmupDay(pool, clock)
           cap == WarmupCap(pool, clock)
           days == Cardinality({DayOf(t) : t \in WarmupTicks(p, today)})
<1>1. /\ TypeInv /\ settings' = settings /\ settings \in Settings
      /\ clock \in Minutes /\ clock \in Int /\ warmup_sent[p] \in Nat
      /\ pool_sent_today[p] \in Nat
  BY SettingsFixed, CapacityAssumption DEF PoolInvs, TypeInv, TypeOK, Minutes
<1>2. /\ WarmupLedger[p] = [window |-> today, used |-> warmup_sent[p],
                            limit |-> IF ~Scheduled(pool, clock) THEN Unlimited
                                      ELSE days * Overshoot(cap)]
      /\ WarmupLedger'[p].window = WarmupDay(pool, clock')
      /\ WarmupLedger'[p].used = warmup_sent'[p]
  BY <1>1 DEF WarmupLedger, WarmupDay
<1>3. ASSUME WarmupDay(pool, clock') = today
      PROVE  WarmupLedger'[p] = [WarmupLedger[p] EXCEPT !.used = warmup_sent'[p]]
  <2>1. /\ Scheduled(pool, clock') = Scheduled(pool, clock)
        /\ WarmupCap(pool, clock') = cap
    BY <1>3, SameWarmupDay
  <2>2. WarmupLedger'[p] = [window |-> WarmupDay(pool, clock'), used |-> warmup_sent'[p],
                            limit |-> IF ~Scheduled(pool, clock') THEN Unlimited
                                      ELSE Cardinality({DayOf(t) : t \in
                                             WarmupTicks(p, WarmupDay(pool, clock'))})
                                           * Overshoot(WarmupCap(pool, clock'))]
    BY <1>1 DEF WarmupLedger, WarmupDay, WarmupCap, Scheduled, WarmupTicks, DayOf, Overshoot
  <2> HIDE DEF cap
  <2> QED BY <1>2, <1>3, <2>1, <2>2
<1> HIDE DEF cap, days
<1>4. CASE clock' = clock /\ warmup_sent'[p] = warmup_sent[p]
  BY <1>2, <1>3, <1>4
<1>5. ASSUME clock' = clock, warmup_sent'[p] = warmup_sent[p] + 1,
             NEW w \in Workers, w \in Through(p)
      PROVE  WarmupQuota!Spend(p)
  <2>1. WarmupLedger'[p] = [WarmupLedger[p] EXCEPT !.used = @ + 1]
    BY <1>2, <1>3, <1>5
  <2>2. CASE ~Scheduled(pool, clock)
    BY <1>2, <2>1, <2>2 DEF WarmupQuota!Spend, WarmupQuota!Unlimited, Unlimited
  <2>3. CASE Scheduled(pool, clock)
    <3> DEFINE o == Overshoot(cap)
               k == Cardinality(DaysSoFar(p))
    <3>1. cap \in Nat /\ cap # 0
      BY <1>1, <1>5, <2>3, WarmupCaps DEF PoolInvs, ShutInv, cap
    <3>2. o \in Nat
      BY <3>1, OvershootType
    <3>3. k \in Nat /\ k >= 1 /\ days \in Nat /\ k <= days
      BY <1>1, WarmupDays DEF days
    <3>4. PICK part \in Nat :
            /\ part + Cardinality(WarmupCommitted(p)) <= o
            /\ warmup_sent[p] <= part + (k - 1) * o
      BY <2>3, <3>1 DEF PoolInvs, WarmupInv, cap
    <3>5. w \in WarmupCommitted(p) /\ WarmupCommitted(p) \in SUBSET Workers
      BY <1>5, CommittedSets
    <3>6. Cardinality({}) <= Cardinality(WarmupCommitted(p)) - 1
      BY <3>5, OneLess
    <3>7. Cardinality({}) = 0 /\ Cardinality(WarmupCommitted(p)) \in Nat
      BY <3>5, FS_EmptySet, WorkerSets
    <3> HIDE DEF o, k
    <3>8. k * o <= days * o /\ k * o \in Nat /\ days * o \in Nat
      BY <3>2, <3>3, TimesGrows
    <3>9. (k - 1) * o = k * o - o
      BY <3>2, <3>3
    <3>10. warmup_sent[p] < days * o
      BY <1>1, <3>2, <3>4, <3>6, <3>7, <3>8, <3>9
    <3> QED BY <1>2, <2>1, <2>3, <3>10 DEF WarmupQuota!Spend, o
  <2> QED BY <2>2, <2>3
<1>6. CASE Tick
  <2>1. CASE WarmupDay(pool, clock') = today
    <3>1. warmup_sent'[p] = warmup_sent[p]
      BY <1>1, <1>6, <2>1, TickStill
    <3> QED BY <1>2, <1>3, <2>1, <3>1
  <2>2. CASE WarmupDay(pool, clock') # today
    <3>1. clock' = clock + 1 /\ warmup_sent'[p] = 0
      BY <1>1, <1>6, <2>2, TickStill
    <3>2. WarmupDay(pool, clock') = today + 1
      BY <1>1, <2>2, <3>1, NextWarmupDay
    <3> QED BY <1>2, <3>1, <3>2 DEF WarmupQuota!Turn
  <2> QED BY <2>1, <2>2
<1> QED BY <1>4, <1>5, <1>6, PoolCases

\* A pool in warmup never makes more attempts in a warmup day than its cap, with one for
\* each further worker, for every calendar day the warmup day touches.
THEOREM WarmupQuotaKept == Spec => ImplementsWarmupQuota
<1>1. Init => WarmupQuota!Init
  BY DEF Init, WarmupQuota!Init, WarmupLedger
<1>2. PoolInvs /\ [Next]_vars => [WarmupQuota!Next]_WarmupLedger
  BY WarmupLedgerStep
<1> QED BY <1>1, <1>2, PoolInvariance, PTL
        DEF Spec, ImplementsWarmupQuota, WarmupQuota!Spec
=============================================================================
