------------------------------- MODULE Capacity -------------------------------
(***************************************************************************)
(* Sending capacity: what stands between a message a worker has in hand    *)
(* and its delivery attempt.  route.Select, the customer's daily send cap, *)
(* the warmup and daily cap of the pool, and the throttle rules with their *)
(* fixed-window counters in Redis, on several workers at once.  A count of *)
(* rows, a look at the clock, an INCR and an EXPIRE are steps of their     *)
(* own, so other workers' attempts, the turn of a minute or of the day, or *)
(* a failure can fall between any two of them.                             *)
(*                                                                         *)
(* Messages of one class agree in all that the gates look at, so a class   *)
(* is a number of them, each of which stands for one attempt: the caps do  *)
(* not tell a retry from a message of its own.  The rows of                *)
(* delivery_attempts are kept as the counts that are taken of them.        *)
(*                                                                         *)
(* The clock counts minutes; a day has TicksPerDay of them.  How long a    *)
(* hold lasts (a minute or an hour) is abstracted: a held message is taken *)
(* up again once the clock has moved.                                      *)
(***************************************************************************)
EXTENDS Integers, Sequences, FiniteSets

CONSTANTS
  Classes,        \* messages that differ neither in customer, provider nor domain
  Customers, Pools,
  CustomerOf, ProviderOf, DomainOf,   \* columns of messages, by class
  Schedule,       \* warmupSchedule
  Settings,       \* the rows an operator may have configured the engine with
  Workers,
  None,
  TicksPerDay,    \* the length of a day
  Horizon,        \* bound: the last minute
  MaxFaults       \* bound: failed calls and crashes

Minutes == 0..Horizon

Unlimited == -1

\* A row of ip_pools; warming and limited are the Valid bits of its two
\* nullable columns, owner is customer_id of a dedicated pool.
PoolRows == [owner : Customers \cup {None}, warming : BOOLEAN, warmup_started_at : Int,
             limited : BOOLEAN, daily_limit : Nat]

\* All throttle rules of all settings.
Rules == UNION {s.throttle_rules : s \in Settings}

ASSUME CapacityAssumption ==
  /\ CustomerOf \in [Classes -> Customers]
  /\ None \notin Classes \cup Customers \cup Pools
  /\ IsFiniteSet(Workers) /\ Workers # {}
  /\ Schedule \in Seq(Nat \ {0})   \* no day of warmupSchedule is without sends
  /\ TicksPerDay \in Nat \ {0} /\ Horizon \in Nat /\ MaxFaults \in Nat
  /\ \A s \in Settings :
       /\ s.queued \in [Classes -> Nat]
       /\ s.daily_send_cap \in [Customers -> Nat]
       /\ s.pools \in [Pools -> PoolRows]
       /\ \A r \in s.throttle_rules : r.messages_per_minute \in Nat

VARIABLES
  settings,        \* rows of customers, ip_pools, routes and throttle_rules
  clock,
  queued, held,    \* messages of a class to be sent; those deferred by a hold
  sent_today, pool_sent_today,   \* rows of delivery_attempts since midnight
  counters,        \* throttle:<scope>:<scope_key>:<minute> in Redis, 0 when absent
  ttl,             \* when Redis drops the key, 0 when it has no expiry
  pc, job,         \* per worker: next step; the message in hand
  warmup_sent,     \* history: attempts by each pool in the current warmup day
  minute_sent,     \* history: attempts under each rule in the current minute
  leaked,          \* history: keys whose EXPIRE never happened
  faults

attemptVars == <<sent_today, pool_sent_today, warmup_sent, minute_sent>>
redisVars == <<counters, ttl, leaked>>
vars == <<settings, clock, queued, held, attemptVars, redisVars, pc, job, faults>>

-----------------------------------------------------------------------------
(* Route and pool: route.Select.                                           *)

Routed(m) == {p \in Pools : <<ProviderOf[m], p>> \in settings.routes}

Dedicated(c) == {p \in Pools : settings.pools[p].owner = c}

Shared == {p \in Pools : settings.pools[p].owner = None}

\* Mutant: the first route of the provider, whoever its pool belongs to.
AnyRoute(m) == Routed(m)

\* The pools Select may return.  No query has an ORDER BY: "the" dedicated pool
\* and "the first" shared route are any of those that qualify.
Choices(m) ==
  LET own == Dedicated(CustomerOf[m])
  IN  (own \cap Routed(m))
      \cup (IF own \subseteq Routed(m) /\ own # {} THEN {} ELSE Shared \cap Routed(m))

-----------------------------------------------------------------------------
(* Counts and caps.                                                        *)

DayOf(t) == t \div TicksPerDay

\* Mutant: one send too many.
PastDailyCap(c) ==
  settings.daily_send_cap[c] > 0 /\ sent_today[c] > settings.daily_send_cap[c]

\* CountCustomerSendsToday against the cap.  A cap of 0 is no cap.
AtDailyCap(c) ==
  settings.daily_send_cap[c] > 0 /\ sent_today[c] >= settings.daily_send_cap[c]

\* int(hours/24) truncates towards zero, also for a start in the future.
WarmupDay(p, t) ==
  LET age == t - p.warmup_started_at
  IN  1 + IF age >= 0 THEN age \div TicksPerDay ELSE -((-age) \div TicksPerDay)

Scheduled(p, t) == p.warming /\ WarmupDay(p, t) \in 1..Len(Schedule)

\* Mutant: the schedule is read one day ahead.
DayAheadCap(p, t) ==
  IF Scheduled(p, t) /\ WarmupDay(p, t) < Len(Schedule)
    THEN Schedule[WarmupDay(p, t) + 1] ELSE Unlimited

\* The stricter of the schedule and the explicit limit.
WarmupCap(p, t) ==
  LET scheduled == Schedule[WarmupDay(p, t)]
  IN  IF Scheduled(p, t) /\ (p.limited => scheduled <= p.daily_limit) THEN scheduled
      ELSE IF p.limited THEN p.daily_limit
      ELSE Unlimited

\* Mutant: one send too many.
PastWarmupCap(p, t) ==
  WarmupCap(settings.pools[p], t) >= 0 /\ pool_sent_today[p] > WarmupCap(settings.pools[p], t)

\* CountSendsToday against the cap.  A cap of 0 lets nothing through.
AtWarmupCap(p, t) ==
  WarmupCap(settings.pools[p], t) >= 0 /\ pool_sent_today[p] >= WarmupCap(settings.pools[p], t)

-----------------------------------------------------------------------------
(* Throttle rules and their counters.                                      *)

\* scopeKeyFor, for a message and the pool chosen for it.
ScopeKey(scope, m, p) ==
  [customer |-> CustomerOf[m], provider |-> ProviderOf[m], domain |-> DomainOf[m],
   ip_pool |-> p][scope]

Matching(m, p) == {r \in settings.throttle_rules : ScopeKey(r.scope, m, p) = r.scope_key}

\* Mutant: the key lacks the minute.
OneKey(r, t) == <<r.scope, r.scope_key, 0>>

\* The key of minute t's counter.  Nothing makes scope and scope_key unique among
\* the rules: two rules of one scope and key count in one counter.
KeyOf(r, t) == <<r.scope, r.scope_key, t>>

Keys == {<<r.scope, r.scope_key, t>> : r \in Rules, t \in Minutes}

\* Mutant: no hit is ever taken for the first.
NeverFirst(count) == FALSE

FirstHit(count) == count = 1

\* Mutant: one hit too many.
AllowedLate(r, count) == count <= r.messages_per_minute + 1

Allowed(r, count) == count <= r.messages_per_minute

-----------------------------------------------------------------------------
\* check is the rule being checked and the minute that was read for it.
NoJob == [msg |-> None, now |-> 0, pool |-> None, rules |-> {}, check |-> << >>]

\* The key that Allow has composed for worker w.
KeyInHand(w) == KeyOf(job[w].check[1], job[w].check[2])

Init ==
  /\ settings \in Settings
  /\ clock = 0
  /\ queued = settings.queued /\ held = [m \in Classes |-> 0]
  /\ sent_today = [c \in Customers |-> 0] /\ pool_sent_today = [p \in Pools |-> 0]
  /\ counters = [k \in Keys |-> 0] /\ ttl = [k \in Keys |-> 0]
  /\ pc = [w \in Workers |-> "idle"] /\ job = [w \in Workers |-> NoJob]
  /\ warmup_sent = [p \in Pools |-> 0] /\ minute_sent = [r \in Rules |-> 0]
  /\ leaked = {} /\ faults = 0

Goto(w, p) == pc' = [pc EXCEPT ![w] = p]

\* Mutant: the throttled message is not let go of.
HoldAndGoOn(w) ==
  /\ held' = [held EXCEPT ![job[w].msg] = @ + 1]
  /\ job' = [job EXCEPT ![w] = NoJob]
  /\ UNCHANGED pc

\* reschedule: deferred with a next_attempt_at, no attempt consumed; Process
\* returns nil and the entry is acked.
Hold(w) ==
  /\ held' = [held EXCEPT ![job[w].msg] = @ + 1]
  /\ Goto(w, "idle")
  /\ job' = [job EXCEPT ![w] = NoJob]

\* The gates before it passed, Process selects a pool and reads the time.  A
\* message without a route fails (DeliveryEngine).
SelectRoute(w) ==
  /\ pc[w] = "idle"
  /\ \E m \in Classes :
       /\ queued[m] > 0
       /\ queued' = [queued EXCEPT ![m] = @ - 1]
       /\ \E p \in Choices(m) :
            job' = [job EXCEPT ![w] =
              [msg |-> m, now |-> clock, pool |-> p, rules |-> {}, check |-> << >>]]
  /\ Goto(w, "daily_cap")
  /\ UNCHANGED <<settings, clock, held, attemptVars, redisVars, faults>>

CheckDailyCap(w) ==
  /\ pc[w] = "daily_cap"
  /\ IF AtDailyCap(CustomerOf[job[w].msg])
       THEN Hold(w)
       ELSE Goto(w, "pool_cap") /\ UNCHANGED <<held, job>>
  /\ UNCHANGED <<settings, clock, queued, attemptVars, redisVars, faults>>

\* The throttles still to check, or the attempt, for which the time read is not needed.
GoOn(w, rules) ==
  /\ Goto(w, IF rules = {} THEN "attempt" ELSE "throttle")
  /\ job' = [job EXCEPT ![w].rules = rules, ![w].check = << >>,
                         ![w].now = IF rules = {} THEN 0 ELSE @]

\* The cap is the one of the time Process read, the count the one of the query.
CheckPoolCap(w) ==
  /\ pc[w] = "pool_cap"
  /\ IF AtWarmupCap(job[w].pool, job[w].now)
       THEN Hold(w)
       ELSE GoOn(w, Matching(job[w].msg, job[w].pool)) /\ UNCHANGED held
  /\ UNCHANGED <<settings, clock, queued, attemptVars, redisVars, faults>>

\* What checkThrottles does with the count of rule r.
Judge(w, r, count) ==
  IF Allowed(r, count)
    THEN GoOn(w, job[w].rules \ {r}) /\ UNCHANGED held
    ELSE Hold(w)

\* Limiter.Allow composes the key of the minute it reads, for the rules in any
\* order: GetThrottleRules has no ORDER BY.
NameKey(w) ==
  /\ pc[w] = "throttle"
  /\ \E r \in job[w].rules : job' = [job EXCEPT ![w].check = <<r, clock>>]
  /\ Goto(w, "incr")
  /\ UNCHANGED <<settings, clock, queued, held, attemptVars, redisVars, faults>>

\* INCR, in that minute or a later one.  The first hit of a key goes on to EXPIRE.
Incr(w) ==
  /\ pc[w] = "incr"
  /\ LET r == job[w].check[1]
         key == KeyInHand(w)
         count == counters[key] + 1
     IN  /\ counters' = [counters EXCEPT ![key] = count]
         /\ IF FirstHit(count)
              THEN Goto(w, "expire") /\ UNCHANGED <<held, job>>
              ELSE Judge(w, r, count)
  /\ UNCHANGED <<settings, clock, queued, attemptVars, ttl, leaked, faults>>

Expire(w) ==
  /\ pc[w] = "expire"
  /\ ttl' = [ttl EXCEPT ![KeyInHand(w)] = clock + 2]
  /\ Judge(w, job[w].check[1], 1)
  /\ UNCHANGED <<settings, clock, queued, attemptVars, counters, leaked, faults>>

\* The attempt and its row in delivery_attempts.
Attempt(w) ==
  /\ pc[w] = "attempt"
  /\ LET m == job[w].msg
         p == job[w].pool
     IN  /\ sent_today' = [sent_today EXCEPT ![CustomerOf[m]] = @ + 1]
         /\ pool_sent_today' = [pool_sent_today EXCEPT ![p] = @ + 1]
         /\ warmup_sent' = [warmup_sent EXCEPT ![p] = @ + 1]
         /\ minute_sent' = [r \in Rules |->
              IF r \in Matching(m, p) THEN minute_sent[r] + 1 ELSE minute_sent[r]]
  /\ Goto(w, "idle")
  /\ job' = [job EXCEPT ![w] = NoJob]
  /\ UNCHANGED <<settings, clock, queued, held, redisVars, faults>>

\* A call fails, or the worker dies: the entry stays pending and the message is
\* taken up anew.  A counter that was not given its expiry keeps living.
Fail(w) ==
  /\ pc[w] # "idle" /\ faults < MaxFaults
  /\ faults' = faults + 1
  /\ queued' = [queued EXCEPT ![job[w].msg] = @ + 1]
  /\ leaked' = IF pc[w] = "expire" THEN leaked \cup {KeyInHand(w)} ELSE leaked
  /\ Goto(w, "idle")
  /\ job' = [job EXCEPT ![w] = NoJob]
  /\ UNCHANGED <<settings, clock, held, attemptVars, counters, ttl>>

NewDay == DayOf(clock + 1) # DayOf(clock)

NewWarmupDay(p) ==
  WarmupDay(settings.pools[p], clock + 1) # WarmupDay(settings.pools[p], clock)

Expires(k) == ttl[k] = clock + 1

\* A minute passes: holds come due, Redis drops the keys whose 120 seconds are over,
\* and at midnight no row is of today.
Tick ==
  /\ clock < Horizon
  /\ clock' = clock + 1
  /\ queued' = [m \in Classes |-> queued[m] + held[m]]
  /\ held' = [m \in Classes |-> 0]
  /\ sent_today' = [c \in Customers |-> IF NewDay THEN 0 ELSE sent_today[c]]
  /\ pool_sent_today' = [p \in Pools |-> IF NewDay THEN 0 ELSE pool_sent_today[p]]
  /\ warmup_sent' = [p \in Pools |-> IF NewWarmupDay(p) THEN 0 ELSE warmup_sent[p]]
  /\ minute_sent' = [r \in Rules |-> 0]
  /\ counters' = [k \in Keys |-> IF Expires(k) THEN 0 ELSE counters[k]]
  /\ ttl' = [k \in Keys |-> IF Expires(k) THEN 0 ELSE ttl[k]]
  /\ UNCHANGED <<settings, leaked, pc, job, faults>>

Send(w) ==
  \/ SelectRoute(w) \/ CheckDailyCap(w) \/ CheckPoolCap(w)
  \/ NameKey(w) \/ Incr(w) \/ Expire(w) \/ Attempt(w)

Next == Tick \/ \E w \in Workers : Send(w) \/ Fail(w)

Spec == Init /\ [][Next]_vars

-----------------------------------------------------------------------------
(* Properties.                                                             *)

PCs == {"idle", "daily_cap", "pool_cap", "throttle", "incr", "expire", "attempt"}

Checks == Rules \X Minutes

Jobs == [msg : Classes \cup {None}, now : Minutes, pool : Pools \cup {None},
         rules : SUBSET Rules, check : Checks \cup {<< >>}]

\* Every variable has its type, and a worker that is not idle has a message in hand.
TypeOK ==
  /\ settings \in Settings /\ clock \in Minutes
  /\ queued \in [Classes -> Nat] /\ held \in [Classes -> Nat]
  /\ sent_today \in [Customers -> Nat] /\ pool_sent_today \in [Pools -> Nat]
  /\ warmup_sent \in [Pools -> Nat] /\ minute_sent \in [Rules -> Nat]
  /\ counters \in [Keys -> Nat] /\ ttl \in [Keys -> Nat]
  /\ leaked \subseteq Keys
  /\ pc \in [Workers -> PCs] /\ job \in [Workers -> Jobs]
  /\ \A w \in Workers : pc[w] # "idle" => job[w].msg \in Classes /\ job[w].pool \in Pools
  /\ faults \in 0..MaxFaults

\* The most that a check-then-act gate with this cap lets through: when the last
\* check passes, every other worker may already be past its own.
Overshoot(cap) == IF cap = 0 THEN 0 ELSE cap + Cardinality(Workers) - 1

CustomerLedger ==
  [c \in Customers |->
     [window |-> DayOf(clock),
      used |-> sent_today[c],
      limit |-> IF settings.daily_send_cap[c] = 0 THEN Unlimited
                ELSE Overshoot(settings.daily_send_cap[c])]]

CustomerQuota == INSTANCE WindowQuota WITH Accounts <- Customers, ledger <- CustomerLedger

\* In no calendar day does a customer with a daily_send_cap make more attempts than
\* the cap and one for each further worker, whatever failed, and however midnight
\* falls between the count and the attempt; a single worker keeps to the cap.
ImplementsCustomerQuota == CustomerQuota!Spec

TicksOf(day) == {t \in 0..(Horizon + TicksPerDay) : DayOf(t) = day}

\* The cap that bounds a calendar day: the largest in force during it.
DayCap(p, day) ==
  LET caps == {WarmupCap(settings.pools[p], t) : t \in TicksOf(day)}
  IN  IF Unlimited \in caps THEN Unlimited
      ELSE CHOOSE cap \in caps : \A other \in caps : other <= cap

PoolLedger ==
  [p \in Pools |->
     [window |-> DayOf(clock),
      used |-> pool_sent_today[p],
      limit |-> LET cap == DayCap(p, DayOf(clock))
                IN  IF cap = Unlimited THEN Unlimited ELSE Overshoot(cap)]]

PoolQuota == INSTANCE WindowQuota WITH Accounts <- Pools, ledger <- PoolLedger

\* In no calendar day does a pool make more attempts than the largest cap in force on
\* that day and one for each further worker, also when a warmup day turns at noon or
\* a worker holds a time it read before midnight.
ImplementsPoolQuota == PoolQuota!Spec

WarmupTicks(p, day) == {t \in Minutes : WarmupDay(settings.pools[p], t) = day}

WarmupLedger ==
  [p \in Pools |->
     LET pool == settings.pools[p]
         today == WarmupDay(pool, clock)
         cap == WarmupCap(pool, clock)
     IN  [window |-> today,
          used |-> warmup_sent[p],
          limit |-> IF ~Scheduled(pool, clock) THEN Unlimited
                    ELSE Cardinality({DayOf(t) : t \in WarmupTicks(p, today)}) * Overshoot(cap)]]

WarmupQuota == INSTANCE WindowQuota WITH Accounts <- Pools, ledger <- WarmupLedger

\* A warmup day runs from the hour of warmup_started_at and the sends are counted from
\* midnight, so a warmup day gets its cap once for each calendar day it touches, and
\* never more than that.
ImplementsWarmupQuota == WarmupQuota!Spec

ScopeLedger ==
  [r \in Rules |->
     [window |-> clock,
      used |-> minute_sent[r],
      limit |-> IF r.messages_per_minute = 0 THEN 0
                ELSE r.messages_per_minute + Cardinality(Workers)]]

ScopeQuota == INSTANCE WindowQuota WITH Accounts <- Rules, ledger <- ScopeLedger

\* In no minute do the messages of a throttle rule make more attempts than
\* messages_per_minute and one for each worker: INCR is atomic, and only what a worker
\* already had in hand when the minute turned comes on top.
ImplementsScopeQuota == ScopeQuota!Spec

\* throttle.go's buckets "self-clean": the only counters Redis keeps for good are those
\* whose EXPIRE failed; but for the one whose EXPIRE is next, all others have an expiry.
CountersSelfClean ==
  \A k \in Keys : counters[k] > 0 /\ ttl[k] = 0 =>
    k \in leaked \/ \E w \in Workers : pc[w] = "expire" /\ KeyInHand(w) = k

\* A message is only held by a rule that allows nothing, or by one whose scope and key
\* have been checked more often than the rule allows in one minute, no earlier than
\* the one the message was taken up in: a counter that is shared, left without an
\* expiry, or named just before the minute turned holds nobody back for longer.
HeldByAFullMinute ==
  [][\A w \in Workers :
       /\ pc[w] \in {"throttle", "incr", "expire"} /\ pc'[w] = "idle"
       /\ held'[job[w].msg] > held[job[w].msg]
       =>
         \E r \in job[w].rules :
           \/ r.messages_per_minute = 0
           \/ \E t \in job[w].now..clock :
                counters'[<<r.scope, r.scope_key, t>>] > r.messages_per_minute]_vars

\* A dedicated pool's budget is spent on its owner's messages only.
DedicatedPoolIsPrivate ==
  [][\A p \in Pools :
       LET owner == settings.pools[p].owner
       IN  owner # None /\ pool_sent_today'[p] = pool_sent_today[p] + 1 =>
             sent_today'[owner] = sent_today[owner] + 1]_vars
=============================================================================
