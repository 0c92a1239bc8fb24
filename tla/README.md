# TLA+ models of the email delivery engine

This directory holds the formal models of the repository's two services, the
TypeScript control plane that accepts messages and the Go data plane that
delivers them, and of the Postgres rows and the Redis stream they share. TLC
checks the models on small instances; TLAPS proves part of what TLC checks for
every value of the constants. All line numbers refer to the repository's files.

## 1. Inventory

| Component | State it keeps | Operations | Talks to |
|---|---|---|---|
| `POST /messages` (`control-plane/src/routes/messages.ts`, `lib/queue.ts`, `db/index.ts`) | rows of `messages`, `idempotency_keys`, `message_events`; the clients of the pg pool | submit, replay, refuse | Postgres in one transaction, then `XADD` |
| Delivery pipeline (`data-plane/internal/worker/worker.go`, `store/store.go`) | `messages.status`, `attempt_count`, `next_attempt_at`; `delivery_attempts`; `message_events`; `suppression_list` | load, gates, attempt, outcome | Postgres, one autocommitted statement at a time |
| Queue transport (`data-plane/internal/queue/queue.go`) | stream, consumer group, pending list with idle times | create group, add, read, reclaim, ack | Redis |
| Worker process (`data-plane/cmd/worker/main.go`) | batch and entry in hand | boot, reclaim, read, process, ack, die | queue and pipeline |
| Deferred poller (`main.go`, `store.go`) | the rows of its tick | select due rows, mark queued, enqueue | `messages` rows, stream |
| Capacity: daily cap, warmup cap, throttle limiter (`worker.go`, `route/route.go`, `throttle/throttle.go`) | counts of today's rows; one Redis counter per scope and minute | count, compare, `INCR`, `EXPIRE` | Postgres, Redis |
| Abuse control (`worker.go`, `store.go`, `messages.ts`) | `customers.sending_state` | check at submission, gate before the send, sweep: read, bounce rate, limit | Postgres, beside an operator |
| Route selection and warmup (`route/route.go`) | none | select, cap of the day | reads |
| Backoff, classification, simulation (`backoff.go`, `classify.go`, `simulate.go`) | `messages.next_attempt_at` through the pipeline | response, kind, delay | `provider_policies`, poller |
| Configuration, metrics, logging, debug and read-only routes, middleware, seed | counters that decide nothing | | |

What is hard in this system:

* **At-least-once delivery.** A stream entry is acked after its message has been
  processed, so an entry may be processed again after any prefix of its writes.
  Every write of the pipeline is a statement of its own, so there are as many
  such prefixes as statements.
* **Concurrency without locks.** `SELECT ... FOR UPDATE SKIP LOCKED` outside a
  transaction holds its lock for that statement only, and skips a row for every
  other statement's lock, the foreign key's of an INSERT included; the entry of a
  skipped row is acked. The poller runs beside the
  consumer in one process, and a second worker process reclaims entries that
  have been pending for a minute although their owner is alive.
* **Two stores, no common transaction.** A row is committed, then its entry is
  added to the stream; the process may die, or Redis may refuse, in between. The
  poller does the same (`MarkQueued`, then `XADD`).
* **Check, then act.** A cap is compared with a count of rows before the attempt
  adds its own row; a sending state is read in one statement and acted on in a
  later one; the sweep updates a customer it read two calls earlier.
* **Three clocks.** Sends are counted from midnight, a warmup day starts at the
  hour of `warmup_started_at`, the limiter's window is a minute, and `Process`
  reads the time once and uses it for caps, holds and retries.
* **Locks and clients that wait for each other.** Submissions of one key meet at
  a row lock, at the unique index of `idempotency_keys` and at the pg pool.

What makes each component correct:

* *Submission*: one message per key; every success of a key names that message;
  an entry is on the stream only after the commit and at most once; every request
  is answered.
* *Pipeline*: the row follows the documented state machine; attempts are bounded
  by `MAX_ATTEMPTS` but for attempts cut off; each attempt row has its own number;
  a bounced recipient is suppressed and not sent to again; the timeline never
  contradicts the row.
* *Queue, worker, poller*: an unfinished message can always still be reached by a
  worker, and is finished in the end; an entry is acked once the stream falls idle.
* *Capacity*: each limit is overrun by what the other workers had in hand and no
  more, in its own window of time; counters go away, and one that does not holds
  nobody back; a dedicated pool is spent on its owner.
* *Abuse control*: a block stops what was not yet past its check, stands against
  the sweep, and drains what is queued; a customer over the threshold is limited.
* *Backoff and classification*: an outage shorter than the backoffs costs no
  message its life, but for backoffs a failure has cut short; it poisons no
  recipient, and its end delivers what the poller has not lost;
  throttling costs no attempts.

## 2. Modules

| Module | Models |
|---|---|
| `MessageLifecycle` | abstract: one row's status and attempt counter, as the RFC's state machine has it |
| `DeliveryEngine` | the system from the commit of `POST /messages` to the terminal status |
| `MCDeliveryEngine` | small instances of it |
| `DeliveryEngineProofs` | theorems about it, for any number of workers |
| `SingleWorkerProofs` | theorems about it, for one worker process: reach and suppression |
| `MessageRowProofs` | the same: a message's row, its attempts, its timeline, and that the row implements `MessageLifecycle` |
| `IdempotentSubmit` | abstract: what a client of `POST /messages` is promised |
| `AcceptMessage` | the handler of `POST /messages`, concurrent requests in one process |
| `MCAcceptMessage` | small instances of it |
| `AcceptMessageProofs` | theorems about it, for any number of requests |
| `WindowQuota` | abstract: a limit on what may be spent in a window of time |
| `Capacity` | route selection, the caps and the limiter, several workers and the clock |
| `MCCapacity` | seven configurations of it |
| `CapacityProofs` | its types, counters and dedicated pools, for any configuration and number of workers |
| `CapacityQuotaProofs` | that its four ledgers implement `WindowQuota` |
| `AbuseControl` | one customer's sending state, its three readers, the sweep and an operator |
| `AbuseControlProofs` | theorems about it |
| `RetrySchedule` | one message's responses, their classification and its retries in time |
| `MCRetrySchedule` | a small instance of it |
| `RetryScheduleProofs` | theorems about it, for any delays and number of attempts |

`DeliveryEngine` composes pipeline, queue, worker and poller, and takes the answer
of each gate and of the provider as a free choice. The three modules after it open
what stands behind these choices: `Capacity` behind `CheckCapacity` and
`SelectRoute`, `AbuseControl` behind `GetCustomer`, `RetrySchedule` behind the
provider's answer and the time until a retry. They repeat of the pipeline only the
steps that bear on their own state, which keeps each small enough to check with
two workers or with time.

### DeliveryEngine

One action is one command to Redis or one statement to Postgres, together with
the Go code up to the next one. `pc[w]` says which call worker `w`'s consumer
goroutine makes next:

```
boot -> reclaim -> next -> customer -> suppression -> route -> capacity
   -> mark_sending -> sending_event -> attempt_row -> [suppress] -> update_status
   -> event -> [retry_event] -> ack -> next
```

A gate that turns the message away goes to `update_status` with its decision in
`job[w].decision`; `StatusOf`, `EventOf` and `NextAttemptAt` are the tables of
what `applyOutcome`, `reschedule` and `terminateEvent` write for each decision.
`job[w].attempt` is the attempt number computed from the row as it was loaded.
`UpdateMessageStatus` writes unconditionally, as the SQL does; `MarkQueued`
alone is conditional on `deferred`.

The poller is a second sequence of steps of the same worker (`ids`: rows of the
tick still to go; `marked`: the row between its UPDATE and its XADD). It
interleaves with the consumer and dies with it. Time is two facts: whether
`next_attempt_at` has passed (`"future"` turns to `"due"`), and whether an entry
has been pending longer than `reclaimMinIdle` (`idle`).

`RowLocked` is true while another statement may hold the row's lock: an UPDATE
of the same row, by another worker or by a poller, another worker's SELECT, or
the INSERT of an event or an attempt, whose foreign key locks the row it refers
to `FOR KEY SHARE` (`store.go:320`, `339`; `schema.ts:129-131`, `143-145`). A
locked row *may* be skipped, so `Load` then has both outcomes; the code acks the
entry of a skipped row. As long as the holder of the lock has its decision to
store, the skip is harmless. While it inserts its events (`EventsLock`) it has
stored it, and the skipped entry may be the one of the message's due retry:
`Skip` then puts the message in `dropped`.

Failures: every call may fail, with or without effect (an effect whose answer is
lost is the step followed by the failure); a worker may die at any point and
boots again; the API's XADD may fail or never be reached. Faults are counted and
bounded by `MaxFaults`. Two history variables record what the code itself cannot
repair: `dropped`, the messages one of whose XADDs never happened or whose entry
predates the group or was acked by such a skip, and `interrupted`, the attempts cut off between the
"sending" write and the stored outcome.

The environment chooses: which messages are submitted, the customer's sending
state when it is read, whether a route exists, whether there is capacity, and the
provider's answer within `Responses[recipient]`. A recipient stands for a
(customer, address) pair, the key of `suppression_list`.

### AcceptMessage

One action per awaited call of the handler. A request holds the pg client of its
transaction from `pool.connect()` to the `finally` clause, past COMMIT and the
XADD; `db.query.messagesTable.findFirst` takes a second client of the same pool
for one query. `KeyRowLocked` is the row lock of `SELECT ... FOR UPDATE`, which
needs a row to lock; `KeyInsertPending` is the wait of a second INSERT of the
same primary key for the first one's transaction. `pool.connect()` may fail; it stands in
front of the `try`, so Express answers 500 and there is nothing to release. COMMIT may fail before or after
it takes effect. The process may die, which ends every handler in flight.

### Capacity

A worker takes a message through
`idle -> daily_cap -> pool_cap -> throttle -> incr (-> expire) -> attempt -> idle`. The
steps are `route.Select` with the reading of the time, the two counts with their
comparison, the look at the clock for a rule's key, each `INCR`, the `EXPIRE` after a
first hit, and the row of `delivery_attempts`. A key is scope, scope key and minute:
rules that share these share a counter, which nothing in the schema rules out. A count is of the moment of its query, while the warmup cap it
is compared with is of the time read before (`job[w].now`). The rules come in any
order and a rule that lets the message through has counted it for good, also when a
later one refuses it. `Choices` is the set of pools that `Select` can return, since
no query has an ORDER BY. `Tick` moves the minute, drops expired keys and, at
midnight, empties the counts of today. A configuration (caps, pools, routes, rules)
is a member of `Settings` and does not change during a behaviour.

Each limit is shown to implement `WindowQuota` through a ledger that is computed
from the state: window, spent, limit. The customer's and the pool's window is the
calendar day, the warmup quota's the warmup day, the throttle rule's the minute. The
limits in these ledgers are the code's, with what a check-then-act gate can add
(`tradeoffs.md:167-169` names this race; the ledger gives its extent):
`cap + workers - 1` for a cap; `messages_per_minute + workers` for a rule, since each
worker may carry one message over the turn of the minute; nothing if the cap or the
limit is 0. A warmup day touches two calendar days, so its ledger has the cap twice.
The history variables `warmup_sent` and `minute_sent` count what the code does not; `leaked` names the keys whose `EXPIRE` failed.

Messages of one class are numbers, and an attempt uses one up: to the caps a retry
is an attempt like any other.

### AbuseControl

One customer, since the sweep treats each on its own. `Decide` is an operator's
UPDATE of the state, or the seed's upsert; no handler sets it. The API reads it in
`CheckCustomer`, commits in `Accept` and adds the entry in `Enqueue`; a worker takes
up an entry in `LoadMessage`, or acks it unread in `SkipLocked`, reads the state in
`GateOnState`, sends in `Send`, and acks in `Ack`; the poller's three calls are `Poll`,
`Mark` and `Requeue`. An entry is a member of a set with an id of its own, so a message
may have several, one of them in two workers' hands. An XADD may fail, and nobody
repeats it: `dropped` names the message. The sweep reads the state in `SweepCustomer`,
asks for the rate in `SweepRate` and writes `limited` in `SweepUpdate`,
unconditionally. Consumers, pollers and sweeps of the worker processes share nothing
but the database and the stream, so each kind is a set of its own. `stale` is the
history the properties need: those who have read a state that has changed since and
have yet to act on it. Suppression, routing and capacity between gate and attempt
are left out; they only make a message wait or end. `SweepRate` counts messages
created within a day: `Age` makes one older.

### RetrySchedule

A response is its code and the phrases of the classifier that occur in it; a local
part is the set of hints in it. The tables of `rawResponse` and `Classify` are kept
in their order, because the first hit decides. `wait` is the time until
`next_attempt_at`, `spent` the time since the worker read the clock: the code
computes `next_attempt_at` from that reading, so `wait` starts at the delay less
`spent`. Only the poller looks at it, and it goes through its three calls (`Poll`,
`Mark`, `Enqueue`) beside the consumer. `entries` counts the stream's entries that are
not acked, `fresh` those of them that have not been read; the others are pending and
are taken up again by a reclaim, whatever `next_attempt_at` says. `early` records the
attempts after which the message was taken up, or marked by a poller that had read it
before, ahead of its time, and `dropped` that an XADD of the poller was lost. `Hold` is
`checkThrottles` refusing, under a rule an operator may add and remove; `Change`
also moves the provider between healthy, degraded and down.

## 3. Runs

| Run | Instance | Shows |
|---|---|---|
| `core_recipient` | one worker, 2 messages to one recipient (one of them marketing), every answer, 2 attempts, 1 fault, batches of 2 | `NothingStranded`, `BouncedIsSuppressed`, `NoSendToSuppressed` |
| `core_message` | one worker, 1 message, every answer, 2 attempts, 2 faults, 1 hold, fair | `TypeOK`, `DeferredHasRetryTime`, `RetryBudget`, `AttemptsAccounted`, `TimelineTruthful`, `EveryMessageSettles`, `PendingIsAcked`, and that the row implements `MessageLifecycle` |
| `core_workers` | two workers, 1 message that bounces or is retried, 2 attempts, no faults | `NothingStrandedWithoutFaults`, `BouncedIsSuppressed` |
| `accept` | 3 submissions of one key, 4 clients, 2 faults, fair | `TypeOK`, `OneMessagePerKey`, `EnqueuedAfterCommit`, `EveryRequestAnswered`, and that answers implement `IdempotentSubmit` |
| `capacity` | 2 workers; 7 configurations: a capped customer, a pool that starts to warm up at noon, a dedicated pool whose warmup starts tomorrow and has an explicit limit, a throttled provider, rules of two scopes, two rules of one scope and key, a closed domain; days of 2 ticks, 4 ticks, 1 fault | `TypeOK`, `CountersSelfClean`, `HeldByAFullMinute`, `DedicatedPoolIsPrivate`, and four refinements of `WindowQuota` |
| `abuse` | 2 consumers, 1 poller, 1 sweep, 1 marketing message with up to 2 entries, every initial state, 1 decision of the operator, threshold 50 %, 1 fault, fair | `TypeOK`, `BlockStands`, `SendsStop`, `AdmissionsStop`, `OverThresholdIsLimited`, `BlockedDrains` |
| `retry` | 1 message, 5 local parts, 4 attempts, base delays 2 and 6, holds of 4, 3 changes outside, 1 fault, fair | `TypeOK`, `OutageSurvived`, `OutagePoisonsNobody`, `CodeAgrees`, `DeadLettersWereRefused`, `DelaysEscalate`, `EveryMessageEnds`, `RecoveryDelivers` |
| `lost_enqueue` | one worker, 1 message, 1 fault, fair | `FailedEnqueueIsMadeGood` is violated |
| `two_workers` | two workers, no faults | `TerminalIsFinal` is violated |
| `timeline` | one worker, 1 fault | `TimelineComplete` is violated |
| `accept_pool` | 2 submissions, 2 clients, fair | `EveryRequestAnswered` is violated |
| `accept_duplicate` | 2 submissions, no faults | `DuplicatesAreReplayed` is violated |

Most properties of the pipeline are checked for **one worker process**, which is
what `docker-compose.yml` deploys (one container with a fixed name); consumer
and poller still interleave. With two workers the documented state machine, the attempt accounting and the
suppression gate are not kept, because nothing serialises two workers on a
message: `two_workers` is the shortest account of why, and `core_workers` and
the theorems say what remains true.

**Bounds.**
`MaxAttempts = 2` is the least value with both a retry and a dead letter.
`MaxFaults` counts failures that are otherwise free to fall anywhere. What
concerns one row (its state machine, attempts, timeline, settling) is checked
with one message and two faults, so that a failure can hit the recovery from a
failure, and with a hold that alternates with the retry. What concerns two
messages (a batch cut short, a bounce and the other message to the recipient)
is checked with two messages read in one batch and one fault; a hold touches
one row only and is left out there. `MaxEntries = 8` is
more than one worker ever fills in these two runs (the stream stays shorter than
7 entries), so it cuts nothing off. In the runs with two workers it is 3: the
entry of the API and two of pollers; a step that would exceed it is not taken,
which cuts a behaviour short and hides no step before it. In `AcceptMessage` three requests
of one key meet at every lock; requests of different keys meet only in the pool,
and four clients are one more than three requests hold.

In `Capacity` two workers are enough to pass a check together, which is what one
can do to the other; the theorems have any number. A cap of 2 lets one pass before
the race, 4 or 5 messages outnumber every cap by more than the overshoot, and four
ticks of half a day hold a midnight between two ticks on each side, a warmup day
that turns at noon, and a whole minute's counter life (120 seconds are two ticks).
The schedule `<<1, 2>>` has a first, a last and a day after it. In `AbuseControl` each
fault, race or decision concerns one message at a time: two consumers can have one
entry in hand, or an entry each, beside a poller that marks the row and adds another,
and a marketing message is stopped by both kinds of block. Two entries are the one in
a worker's hand and the poller's; `Add` waits for a free one, so the bound delays a
third and loses none. One decision suffices, since a second one only starts the story
over from a state that is also an initial one. The message alone is all delivered or all
bounced, either side of the threshold of 50 %; the code's is 20 %. With a second message or a second
sweep the instance outgrows the run; the theorems about this module have any number of
both, and two sweeps of one customer write the same value. In `RetrySchedule` the delays
2 and 6 stand for 30 s, 2 min and 10 min: half of each delay is more than all of the
one before, and the attempts outnumber the delays, so the last delay repeats. Three
changes make an outage, a throttle and a recovery, and one fault makes an early attempt
beside the poller's entry, or loses an XADD.

**Symmetry** is used for the workers in `core_workers` and `capacity`, where no
liveness is checked.

**Deadlock** is checked in the runs of `DeliveryEngine`: the consumer's idle loop
always has a step. The runs of `AcceptMessage` end when the finite set of
requests is answered, so it is off there. It is off in `capacity`, where the clock
stops at its bound, and in `abuse`, where a blocked customer's messages and the
operator's decisions come to an end.

**Fairness.** The consumer and the poller of each worker are weakly fair: they are
goroutines of a running process that loops until it dies, and a worker that dies
is restarted (`restart: unless-stopped` in `docker-compose.yml`). `ApiEnqueue` is
fair, for the handler goes on past its COMMIT, and so is the passing of time. In `AcceptMessage` each handler is
fair when its awaited call can return. No client, no provider's answer and no
failure is fair: `EveryMessageSettles` relies on `MAX_ATTEMPTS`, not on a
provider that delivers at last. It holds on the condition that no entry of the
message was `dropped`.

An `XREADGROUP` that comes back empty is not part of that fairness. `runConsumer`
reclaims at boot and after an idle read only (`main.go:136`); other messages may keep
the stream busy, and an entry left pending then waits for as long as they do. So
`~Drained(w) /\ Consume(w)` is fair, and that a worker with nothing left to take up gets
its idle read in the end is `QuietSpells`, which `EveryMessageSettles`, `PendingIsAcked`,
`FailedEnqueueIsMadeGood`, `EveryMessageEnds`, `RecoveryDelivers` and `BlockedDrains`
name as their condition. It is a condition on the traffic, not on the code.

In `AbuseControl` the API's `Enqueue`, the workers' `Process`, the pollers and the
sweeps are weakly fair, as goroutines on a ticker are; the operator, the API's clients
and the failures are not, and that every entry is got to is `QuietSpells`. In
`RetrySchedule` time, the poller's three calls, the worker's taking up of a fresh entry
and the attempt are weakly fair; taking up a pending one is `QuietSpells`. Whether a throttle rule lets the
message through is not: `EveryMessageEnds` therefore asks that throttling ends.
`Capacity` states no fairness and no liveness.

## 4. Findings

* `lost_enqueue`. `messages.ts:145` and `rfc-email-delivery-engine.md:109-113`
  make the deferred poller the safety net of a failed first XADD. Its query
  selects `status = 'deferred'` (`store.go:362`); the message is `queued` and
  stays so. The same holds of the poller's own failed XADD (`main.go:197`).
* `two_workers`. `tradeoffs.md:106-107` says `GetMessageForProcessing` guards
  against two workers grabbing one message. The lock ends with the SELECT
  (`store.go:119`): the second worker takes the row, and the slower one overwrites
  a terminal status.
* `timeline`. The RFC calls the timeline fully reconstructable (`82-83`). Status
  and event are two statements; a failure between them is not repaired, because
  the redelivered message is terminal and is acked.
* `accept_pool`. Handlers that hold their client while they ask for a second one
  wait on each other for ever when there are as many of them as clients.
* `accept_duplicate`. `FOR UPDATE` locks nothing when the key has no row; of two
  first submissions of one key the loser fails on the unique index and is answered
  500, where `tradeoffs.md:104-106` has it answered 200.

Further observations, which no run is about:

* Two workers can lose a message without any failure. A worker has deferred it and is
  still inserting its events when the backoff ends and the poller marks and enqueues it;
  another worker reads that entry, finds the row locked by the INSERT's foreign key,
  skips it and acks the entry. The message is `queued` and has no entry.
  `NothingStrandedWithoutFaults` names this race as its one exception besides the
  group's first boot.
* Under steady traffic entries left pending starve (`main.go:136`), see Fairness.
* `MarkQueued` asks for `deferred` but not for the time (`store.go:347`): a row the
  poller read as due, and which was attempted and deferred again meanwhile, is put back
  before its time. And an entry left pending is attempted beside the one the poller adds,
  without the backoff between them. `OutageSurvived` therefore counts the backoffs that
  were cut short; each costs a failed call or a crash.
* Two rules of one scope and key count each message twice in one counter, which holds
  messages back at half the smaller limit (`throttle.go:46`; `seed.ts:93` notes the
  missing unique key).
* A warmup day can use its cap twice, once on each calendar day it touches
  (`route.go:90` against `store.go:391`); `ImplementsWarmupQuota` states this bound.
* A sweep that has read a customer as trusted or new replaces a block an operator
  sets before its UPDATE with `limited`, and later sweeps leave it so.
  `tradeoffs.md:170-171` calls the sweep idempotent, which it is for `limited`;
  `BlockStands` says that this window is the only one.
* `limited` itself changes nothing: neither gate asks for it.
* `incident-simulation.md:148-149` expects `queue_depth` to fall as the backlog
  drains. The gauge is `XLEN` (`queue.go`), and nothing trims the stream or deletes
  acked entries, so it never falls.

## 5. Proofs

`DeliveryEngineProofs` proves, for any number of messages and workers, any
`MAX_ATTEMPTS`, batch size and number of faults, from `ConstantsAssumption` alone:

* `TypeCorrect`: `Spec => []TypeOK`. `TypeOK` is not inductive: that `UpdateStatus`
  writes a known status needs to know that a decision was made. `TypeInv` adds
  `WorkOK`: a batch holds delivered entries only, a consumer at work has a message,
  one about to write an outcome has its decision.
* `DeferredIsScheduled`: `Spec => []DeferredHasRetryTime`. It rests on
  `StatusSteps`, which says in one formula what any step may do to a row's status
  and retry time; the argument does not depend on who writes, so it
  holds for any number of workers overwriting each other.
* `BounceSuppresses`: `Spec => []BouncedIsSuppressed`. The strengthening
  `BounceDecided` says that a worker past `AddSuppression` with the decision
  "bounced" has its recipient on the list already; the list only grows
  (`SuppressionGrows`).
* `NothingIsStrandedWithoutFaults`: `Spec => []NothingStrandedWithoutFaults`. The
  invariant `Custody` is stronger than the property: while nothing has failed,
  somebody has every unfinished message, and the ways to have it are those a step
  hands on: the poller's query, an XADD that is due, an undelivered entry, a row
  marked and not yet enqueued, a worker between its SELECT and its status write, or
  an entry in a batch. An entry that is acked for a locked row is no loss while the
  holder of the lock has its status to write, for then it has the message too; when it
  has written it and is inserting the events, the message is in `dropped`.

`SingleWorkerProofs` adds the hypothesis `OneWorker` (any two workers are the
same) and nothing else:

* `SuppressedAreNotSentTo`: `Spec => NoSendToSuppressed`. The invariant
  `ClearedToSend` says that what the suppression gate read is still true up to the
  attempt row; `TableSteps` says that the list and the attempt rows have one
  writer each, so the only step to look at is the attempt.
* `NothingIsStranded`: `Spec => []NothingStranded`. Two strengthenings are
  needed. `EntriesHeld`: the batch and the entry in hand are pending, so a message
  in hand is in reach whatever its status becomes. `DoneIsReached`: once the
  decision is stored, the message is finished or in reach *beside* the entry in
  hand, which the next step acks. `ReachKept` is the heart: no step but the
  status write and the ack of the worker that holds the message takes away what
  it can be reached by.

`MessageRowProofs` goes on from there, under the same hypothesis:

* `RowInvariant` is what the others rest on: what `GetMessageForProcessing` read is
  still the row when the decision is written over it. Between the SELECT and the
  status write the message is unfinished and its counter is the one in hand
  (`RowKnown`), a retry has attempts left and a dead letter has none, and a stored
  decision is in the row until its event is (`DecisionKnown`); a row that does not
  exist has left no trace anywhere (`UnknownUntouched`).
* `FinishedStaysFinished`: `Spec => TerminalIsFinal`, the property that the run
  `two_workers` refutes for two.
* `LifecycleImplemented`: `Spec => ImplementsLifecycle`, a refinement: each step is a
  step of the abstract row of one message or leaves all rows alone.
* `TimelineIsTruthful`: `Spec => []TimelineTruthful`, inductive beside `RowInvariant`.
* `RetriesAreBudgeted`: `Spec => []RetryBudget`. It needs `AttemptLeft`: an unfinished
  message that nobody is attempting is below the budget, so that the next attempt
  may be counted.
* `AttemptsAreAccounted`: `Spec => []AttemptsAccounted`. The invariant `RowsCounted`
  counts the one attempt whose row is still owed (`Owing`) on both sides; the
  property's cardinality of a set of workers is 0 or 1 under `OneWorker`.

Without `OneWorker` none of these holds: on the instance of `two_workers`, which has
no failures at all, TLC finds a counterexample to each of the five properties of
`MessageRowProofs` and to `NothingStranded`, and with two messages one to
`NoSendToSuppressed`. The proof of each invariant's step has one step per action of
`Next`; `Frame`, `StatusSteps`, `TableSteps`, `DoneSteps`, `Strides` and the `...Type`
lemmas collect what the actions have in common.

`CapacityProofs` and `CapacityQuotaProofs` prove, for any configuration, schedule,
length of a day, clock bound, number of workers and of faults, from
`CapacityAssumption` alone (which has every day of the schedule let something
through, as `route.go:25` does):

* `TypeCorrect`: `Spec => []TypeOK`, strengthened by `KeysInHand`: a worker about to
  give a key its expiry has a key, of a rule it has yet to pass.
* `CustomerQuotaKept`: `Spec => ImplementsCustomerQuota`, a refinement. The invariant
  `CustomerInv` adds to the attempts of today the workers past the cap with a message
  of the customer (`Cleared`), who may attempt without another look; together they
  stay within `cap + workers - 1`. A worker enters `Cleared` only where the count
  was below the cap, and an attempt only moves it from one summand to the other.
* `PoolQuotaKept`: `Spec => ImplementsPoolQuota`, a refinement. The count and the cap
  it is compared with are of different times, so those who may still attempt are the
  workers past the pool's gate and also those in front of it who hold a time of another
  day (`Committed`): they will compare another day's cap. `PoolInv` bounds the attempts
  of today and the committed together by the largest cap of the day and its overshoot.
  Midnight may commit everybody at once, but the count is 0 then. Since a cap of 0
  allows nothing at all, `ShutInv` says of a pool whose limit is 0 that it has sent
  nothing and nobody is past its gate; here the proof uses that the schedule itself
  never has a 0. That a day has a largest cap (`GreatestOf`) is proved, not assumed.
* `WarmupQuotaKept`: `Spec => ImplementsWarmupQuota`, a refinement. The code never
  counts a warmup day, only calendar days, so `WarmupInv` splits what the warmup day has
  sent: a part sent today, bounded as above against the cap of the warmup day, and the
  cap with its overshoot once for each calendar day touched before (`DaysSoFar`). At
  midnight the part is settled and the days grow by one (`AnotherDay`). `NextWarmupDay`
  has the arithmetic of the truncated division, for starts in the future too.
* `ScopeQuotaKept`: `Spec => ImplementsScopeQuota`, a refinement. Three invariants:
  `CounterInv` says that no counter is ahead of its minute or expires in it and that
  the minute of the key in a worker's hand lies between the time its message was taken
  up and now; `RulesInv` says what a worker still has
  to pass; `ScopeInv` is the sum of the attempts of this minute and the workers the rule
  has let through (`Passed`) against what its counter allows (`Allotted`). A worker
  that named its key in the minute before is let through by another counter: it is one
  of those that carry a message over the turn of the minute.
* `HeldByFullMinute`: `Spec => HeldByAFullMinute`. The count a message is held by is the
  counter of the key in hand, and that key was named no earlier than the message was
  taken up (`CounterInv`).
* `BucketsSelfClean`, in `CapacityProofs` like the next one:
  `Spec => []CountersSelfClean`, inductive beside the types.
* `DedicatedPoolKept`: `Spec => DedicatedPoolIsPrivate`, from `PoolsSuit`: the pool in
  a worker's hand is shared or its message's customer's.

`AbuseControlProofs` proves, for any number of messages, entries, consumers, pollers,
sweeps, decisions and faults, `TypeCorrect`, `BlocksStand`, `SendingStops` and `AdmissionStops`. The
invariant behind them, `StaleCovers`, says that everyone who could still act against
the present state, a worker past its gate, a request past its check or a sweep, has
read an earlier one and is in `stale`. `JobsStored` says that only stored messages have
entries or are in the poller's hand, so that nobody writes a row that does not exist.

`AcceptMessageProofs` proves, for any number of requests, keys, clients and faults,
from `RequestsAssumption` alone, everything the run `accept` checks but liveness:

* `TypeCorrect`: `Spec => []TypeOK`, with the pool's size. `PoolStep` is the count:
  a step that takes a client finds one free.
* `KeysAreUnique` and `EnqueueFollowsCommit`: `Spec => []OneMessagePerKey` and
  `Spec => []EnqueuedAfterCommit`. `OneMessagePerKey` alone is not inductive:
  `KeyHeldOnce` says that one transaction per key is past its INSERT and the key is
  free until it commits, and `StoredByOwner` that a message is stored and enqueued
  by its own request.
* `SubmitImplemented`: `Spec => ImplementsSubmit`, a refinement of
  `IdempotentSubmit`. `AnswersPending` adds that a replay still answers with what
  its key names, and that nobody answers twice.

`RetryScheduleProofs` proves, for any local parts, delays, `MAX_ATTEMPTS`, changes
and crashes, from `RetryAssumption` alone:

* `TypeCorrect`, and `CodeAndKindAgree`: `Spec => []CodeAgrees`. The tables are taken
  apart once, in `RawResponses` (what the provider can say to given hints) and
  `KindOfAnswer` (what each answer is classified as); `AttemptAnswered` joins them.
* `OutagesAreHarmless`: `Spec => []OutagePoisonsNobody`, from the same lemma: without
  a hint, no answer is a 5xx.
* `DeadLettersArePaidFor`: `Spec => []DeadLettersWereRefused`. The strengthening
  `AttemptsPaidFor` says that each attempt so far was refused with a 4xx, was
  interrupted or is being made, so `attempt_count` never runs ahead of them.
* `OutagesAreSurvived`: `Spec => []OutageSurvived`. `TimeServed` compares the time that
  has passed with the shortest backoffs of the attempts so far (`Waited`), but for those
  in `early`, with what is still to wait and what the attempt in hand has already spent.
  That `early` has no more members than there were faults is `FaultsPaidFor`: the
  entries and the poller's hand together (`There`) are as many as the message needs
  (`Needed`), and each one more, like each wait cut short before, goes back to a fault of
  its own.
* `DelaysKeepGrowing`: `Escalating => (Spec => DelaysEscalate)`. `Escalating` says that
  half of each base delay is more than all of the one before it. The code's 30 s, 2 min and
  10 min are such, `MCRetrySchedule` assumes it of the instance, and nothing else in this
  module needs it. `DelayIsOfThePast` bounds the last delay by the base delay of the
  attempt it followed.

`OutageSurvived` sums over a set of attempts with the community modules' fold, which is
a recursive function on subsets. The induction theorems of the library take an operator
and cannot be used, but `WFMin`, that a set of numbers has a least one, can: each fact
about sums is proved by the least set that would refute it (`SumsAgree`, `SumsExist`,
`SumUnfolds`), and the others (`SumAdds`, `SumGrows`) follow from these. `GreatestOf`
in `CapacityQuotaProofs` is proved the same way.

Every invariant and every action property of the passing runs is a theorem, and so is
each refinement. Model-checked only are the liveness properties, which are out of the
prover's reach: `EveryMessageSettles`, `PendingIsAcked`, `EveryRequestAnswered`,
`OverThresholdIsLimited`, `BlockedDrains`, `EveryMessageEnds`, `RecoveryDelivers`. No
module has a recursive operator.

## 6. Not modelled, and why

* Changes of caps, pools, routes and rules while workers run, but for the sending
  state, the provider's health and one throttle rule: each is read anew for every
  message.
* In `Capacity`, a pool's `type` and `customer_id` are one field, the owner: a shared
  pool with a customer and a dedicated one without are left out, as is a negative
  `daily_limit`, which the code takes for no limit.
* `provider_policies.daily_cap`, `routes.weight` and the `limited` state: the code
  reads or stores them and decides nothing by them.
* The locks that steps of `AbuseControl` and `RetrySchedule` merge: a row is skipped there
  while a statement of the step another worker or the poller is at may hold it.
* That a failed route query fails the message (`worker.go:121`) is in the models as the
  code has it, but as the row does not tell it from a missing route, no property does.
* The exact delays, and the exact chances of a degraded provider: the models keep the
  delays' order and both outcomes.
* The gates that `AbuseControl` and `RetrySchedule` leave out of a message's way, as
  their headers say; they are in `DeliveryEngine`.
* States of the database (a message without a customer, an entry without
  a row) that foreign keys and the order commit-then-XADD rule out.
* Metrics, logging, configuration, the debug and read-only routes, middleware, the
  seed script: they read, or count what decides nothing.
* A failure that never ends: faults are bounded in every run.

## 7. Plan

Done: the delivery engine and its lifecycle, the submission handler and its promise,
capacity with its quotas, abuse control, the retry schedule, and the theorems above.
What is left:

1. A failure that never ends, as an action of its own: what an entry that can never be
   processed does to the entries behind it.
2. Changes of caps and rules while workers run, in `Capacity`.
