--------------------------- MODULE DeliveryEngine ---------------------------
(***************************************************************************)
(* The delivery engine from the commit of POST /messages to the terminal   *)
(* status of the message: the API's enqueue, the Redis stream and its      *)
(* consumer group, and the workers, each a consumer goroutine and a        *)
(* deferred-poller goroutine over the shared Postgres rows.  Every         *)
(* statement sent to Postgres and every command sent to Redis is one       *)
(* step, so a step of another goroutine, a failed call or a crash can fall *)
(* between any two of them.                                                *)
(*                                                                         *)
(* A stream entry is its position in the stream.  The time of a retry is   *)
(* abstracted to whether it has passed, and the time an entry has been     *)
(* pending to whether it exceeds reclaimMinIdle.  What a message meets at  *)
(* a gate (the customer's sending state, routes, caps and throttles) or at *)
(* the provider is chosen by the environment.                              *)
(***************************************************************************)
EXTENDS Integers, Sequences, FiniteSets

CONSTANTS
  Messages,        \* the messages clients may submit
  RecipientOf,     \* customer_id and to_email of each message
  Responses,       \* the classes a recipient's provider may answer with
  Marketing,       \* the messages of type marketing
  Workers,         \* the worker processes
  MaxAttempts,     \* MAX_ATTEMPTS
  ReadBatch,       \* readBatch: entries per XREADGROUP or XAUTOCLAIM
  DeferredBatch,   \* deferredBatch: rows per poller tick
  None,            \* no message
  MaxFaults,       \* bound: failed calls and crashes
  MaxHolds,        \* bound: capacity and throttle refusals
  MaxEntries       \* bound: entries of the stream

Kinds == {"delivered", "hard_bounce", "policy_rejection", "retryable"}

Recipients == {RecipientOf[m] : m \in Messages}

ASSUME ConstantsAssumption ==
  /\ DOMAIN RecipientOf = Messages /\ None \notin Messages
  /\ Responses \in [Recipients -> SUBSET Kinds]
  /\ Marketing \subseteq Messages
  /\ MaxAttempts \in Nat \ {0}
  /\ ReadBatch \in Nat \ {0} /\ DeferredBatch \in Nat \ {0}
  /\ MaxFaults \in Nat /\ MaxHolds \in Nat /\ MaxEntries \in Nat

VARIABLES
  \* Postgres
  status, attempt_count, next_attempt_at,   \* columns of messages
  delivery_attempts,   \* attempt_number of the rows of each message, in order
  message_events,      \* event types in the timeline of each message
  suppression_list,    \* suppressed recipients
  \* Redis
  group,               \* the consumer group exists
  stream, cursor,      \* the entries; the last one delivered to the group
  pel, idle,           \* pending entries; those pending past reclaimMinIdle
  \* worker processes
  pc, batch, job,      \* consumer: next step, entries to go, entry in hand
  ids, marked,         \* poller: rows of this tick to go, row marked queued
  \* control plane
  owed,                \* messages committed whose XADD is outstanding
  \* history of what went wrong, and the bounds' counters
  dropped,             \* messages one of whose entries never was, or was acked unread
  interrupted,         \* attempts of each message cut off before the outcome
  faults, holds

dbVars == <<status, attempt_count, next_attempt_at, delivery_attempts,
            message_events, suppression_list>>
queueVars == <<group, stream, cursor, pel, idle>>
consumerVars == <<pc, batch, job>>
pollerVars == <<ids, marked>>
historyVars == <<dropped, interrupted>>
vars == <<dbVars, queueVars, consumerVars, pollerVars, owed, historyVars,
          faults, holds>>

-----------------------------------------------------------------------------
(* Statuses, decisions and events.                                         *)

\* Mutant: dead_lettered is missing from the table.
WithoutDeadLettered == {"delivered", "bounced", "failed", "suppressed", "blocked"}

\* terminalStatuses: what the worker must never process again.
TerminalStatuses ==
  {"delivered", "bounced", "failed", "dead_lettered", "suppressed", "blocked"}

LiveStatuses == {"queued", "sending", "deferred"}

Terminal(m) == status[m] \in TerminalStatuses

Live(m) == status[m] \in LiveStatuses

\* The ways Process can end, those of applyOutcome first.
OutcomeDecisions == {"delivered", "bounced", "rejected", "dead_lettered", "retry"}
GateDecisions == {"blocked", "suppressed", "no_route", "hold"}
Decisions == OutcomeDecisions \cup GateDecisions

\* Mutant: a capacity hold writes the reserved status of the enum.
HoldAsThrottled(d) ==
  [delivered |-> "delivered", bounced |-> "bounced", rejected |-> "failed",
   dead_lettered |-> "dead_lettered", retry |-> "deferred",
   blocked |-> "blocked", suppressed |-> "suppressed", no_route |-> "failed",
   hold |-> "throttled"][d]

\* Mutant: a retry leaves the message queued, where no poller looks.
RetryAsQueued(d) ==
  [delivered |-> "delivered", bounced |-> "bounced", rejected |-> "failed",
   dead_lettered |-> "dead_lettered", retry |-> "queued",
   blocked |-> "blocked", suppressed |-> "suppressed", no_route |-> "failed",
   hold |-> "deferred"][d]

StatusOf(d) ==
  [delivered |-> "delivered", bounced |-> "bounced", rejected |-> "failed",
   dead_lettered |-> "dead_lettered", retry |-> "deferred",
   blocked |-> "blocked", suppressed |-> "suppressed", no_route |-> "failed",
   hold |-> "deferred"][d]

EventOf(d) ==
  [delivered |-> "delivered", bounced |-> "bounced", rejected |-> "bounced",
   dead_lettered |-> "dead_lettered", retry |-> "deferred",
   blocked |-> "blocked_by_abuse_control", suppressed |-> "suppressed",
   no_route |-> "bounced", hold |-> "throttled"][d]

\* Mutant: the time of the retry is lost.
NoRetryTime(d) == "null"

\* A retry or a hold sets next_attempt_at; every other write clears it.
NextAttemptAt(d) == IF d \in {"retry", "hold"} THEN "future" ELSE "null"

\* Mutant: one attempt too many.
ExhaustedLate(attempt) == attempt > MaxAttempts

\* backoff.NextDelay's second result.
Exhausted(attempt) == attempt >= MaxAttempts

\* applyOutcome's choice from the classification of the provider's answer.
Outcome(kind, attempt) ==
  CASE kind = "delivered" -> "delivered"
    [] kind = "hard_bounce" -> "bounced"
    [] kind = "policy_rejection" -> "rejected"
    [] kind = "retryable" -> IF Exhausted(attempt) THEN "dead_lettered" ELSE "retry"

SendingStates ==
  {"new", "trusted", "limited", "blocked_from_marketing", "blocked_from_sending"}

\* Abuse control: the sending states that block a message.
Blocks(state, m) ==
  \/ state = "blocked_from_sending"
  \/ state = "blocked_from_marketing" /\ m \in Marketing

-----------------------------------------------------------------------------
(* The stream.                                                             *)

Entries == 1..Len(stream)

NoJob == [entry |-> 0, msg |-> None, attempt |-> 0, decision |-> "none"]

\* The k lowest members of a set of entries, or all of them.
Lowest(S, k) == {e \in S : Cardinality({f \in S : f < e}) < k}

\* XADD by the API or by a poller.
Enqueue(m) ==
  /\ Len(stream) < MaxEntries
  /\ stream' = Append(stream, m)
  /\ UNCHANGED <<group, cursor, pel, idle>>

Fault == faults < MaxFaults /\ faults' = faults + 1

-----------------------------------------------------------------------------
Init ==
  /\ status = [m \in Messages |-> "none"]
  /\ attempt_count = [m \in Messages |-> 0]
  /\ next_attempt_at = [m \in Messages |-> "null"]
  /\ delivery_attempts = [m \in Messages |-> << >>]
  /\ message_events = [m \in Messages |-> {}]
  /\ suppression_list = {}
  /\ group = FALSE /\ stream = << >> /\ cursor = 0 /\ pel = {} /\ idle = {}
  /\ pc = [w \in Workers |-> "boot"]
  /\ batch = [w \in Workers |-> {}]
  /\ job = [w \in Workers |-> NoJob]
  /\ ids = [w \in Workers |-> {}] /\ marked = [w \in Workers |-> None]
  /\ owed = {} /\ dropped = {}
  /\ interrupted = [m \in Messages |-> 0]
  /\ faults = 0 /\ holds = 0

-----------------------------------------------------------------------------
(* Control plane: POST /messages from its COMMIT on.  The transaction      *)
(* itself is the subject of AcceptMessage.                                 *)

Accept(m) ==
  /\ status[m] = "none"
  /\ status' = [status EXCEPT ![m] = "queued"]
  /\ message_events' = [message_events EXCEPT ![m] = {"accepted", "queued"}]
  /\ owed' = owed \cup {m}
  /\ UNCHANGED <<attempt_count, next_attempt_at, delivery_attempts, suppression_list,
                 queueVars, consumerVars, pollerVars, historyVars, faults, holds>>

ApiEnqueue(m) ==
  /\ m \in owed
  /\ owed' = owed \ {m}
  /\ Enqueue(m)
  /\ UNCHANGED <<dbVars, consumerVars, pollerVars, historyVars, faults, holds>>

\* XADD fails and is logged, or the process dies before it.
ApiEnqueueFails(m) ==
  /\ m \in owed
  /\ owed' = owed \ {m}
  /\ dropped' = dropped \cup {m}
  /\ Fault
  /\ UNCHANGED <<dbVars, queueVars, consumerVars, pollerVars, interrupted, holds>>

-----------------------------------------------------------------------------
(* Consumer goroutine: runConsumer, reclaimAndProcess, processEntry and    *)
(* Process, one step per call to Redis or Postgres.                        *)

Goto(w, p) == pc' = [pc EXCEPT ![w] = p]

Decide(w, d, p) ==
  /\ job' = [job EXCEPT ![w].decision = d]
  /\ Goto(w, p)

\* processEntry returns and the batch loop goes on.
EndOfEntry(w) ==
  /\ Goto(w, "next")
  /\ job' = [job EXCEPT ![w] = NoJob]

\* XGROUP CREATE ... "$" on the first boot: what the stream already holds lies
\* before the group's cursor and is never delivered.  Later boots get BUSYGROUP.
EnsureGroup(w) ==
  /\ pc[w] = "boot"
  /\ Goto(w, "reclaim")
  /\ group' = TRUE
  /\ IF group
       THEN UNCHANGED <<cursor, dropped>>
       ELSE /\ cursor' = Len(stream)
            /\ dropped' = dropped \cup {stream[e] : e \in Entries}
  /\ UNCHANGED <<dbVars, stream, pel, idle, batch, job, pollerVars, owed,
                 interrupted, faults, holds>>

\* XAUTOCLAIM from "0": whoever held a stale entry, this worker takes it and its
\* idle time restarts.
Reclaim(w) ==
  /\ pc[w] = "reclaim"
  /\ Goto(w, "next")
  /\ LET claimed == Lowest(idle, ReadBatch)
     IN  /\ batch' = [batch EXCEPT ![w] = claimed]
         /\ idle' = idle \ claimed
  /\ UNCHANGED <<dbVars, group, stream, cursor, pel, job, pollerVars, owed,
                 historyVars, faults, holds>>

ReclaimFails(w) ==
  /\ pc[w] = "reclaim"
  /\ Goto(w, "next")
  /\ Fault
  /\ UNCHANGED <<dbVars, queueVars, batch, job, pollerVars, owed, historyVars, holds>>

\* Mutant: an idle read goes on reading.
ReadAgain == "next"

\* Where runConsumer goes when XREADGROUP timed out with nothing new.
AfterIdleRead == "reclaim"

\* The id of the last entry the group has been given after its next XREADGROUP.
LastRead == IF cursor + ReadBatch <= Len(stream) THEN cursor + ReadBatch ELSE Len(stream)

\* XREADGROUP ">" moves new entries to the pending list.  A failed read is
\* retried and changes nothing.
Read(w) ==
  /\ pc[w] = "next" /\ batch[w] = {}
  /\ IF cursor = Len(stream)
       THEN /\ Goto(w, AfterIdleRead)
            /\ UNCHANGED <<batch, cursor, pel>>
       ELSE /\ cursor' = LastRead
            /\ batch' = [batch EXCEPT ![w] = cursor + 1 .. LastRead]
            /\ pel' = pel \cup (cursor + 1 .. LastRead)
            /\ UNCHANGED pc
  /\ UNCHANGED <<dbVars, group, stream, idle, job, pollerVars, owed, historyVars,
                 faults, holds>>

\* The batch loop is at entry e.
AtEntry(w, e) ==
  /\ pc[w] = "next"
  /\ e \in batch[w]
  /\ \A f \in batch[w] : e <= f

\* Between its status write and its ack a worker inserts the events.  The foreign
\* key makes each INSERT lock m's row FOR KEY SHARE, which SKIP LOCKED skips too.
EventsLock(w, m) ==
  \E v \in Workers \ {w} : pc[v] \in {"event", "retry_event"} /\ job[v].msg = m

\* Another statement may hold a lock on m's row while w selects it with SKIP
\* LOCKED: an UPDATE, a SELECT FOR UPDATE, or an INSERT that refers to the row.
\* Each statement is its own transaction, so a lock lasts as long as one of them.
RowLocked(w, m) ==
  \/ EventsLock(w, m)
  \/ \E v \in Workers \ {w} :
       \/ /\ job[v].msg = m
          /\ pc[v] \in {"mark_sending", "sending_event", "attempt_row", "update_status"}
       \/ \E e \in batch[v] : AtEntry(v, e) /\ stream[e] = m
  \/ status[m] = "deferred" /\ \E v \in Workers : marked[v] = None /\ m \in ids[v]

\* GetMessageForProcessing finds the row locked or terminal: Process returns nil and
\* the entry will be acked.  If the holder of the lock has already deferred m and
\* the poller has enqueued it again, this was the only entry to bring m back.
Skip(w, m) ==
  /\ RowLocked(w, m) \/ Terminal(m)
  /\ Goto(w, "ack")
  /\ dropped' = IF Live(m) /\ EventsLock(w, m) THEN dropped \cup {m} ELSE dropped

Load(w) ==
  \E e \in batch[w] :
    LET m == stream[e]
    IN  /\ AtEntry(w, e)
        /\ batch' = [batch EXCEPT ![w] = @ \ {e}]
        /\ job' = [job EXCEPT ![w] =
                     [entry |-> e, msg |-> m, attempt |-> attempt_count[m],
                      decision |-> "none"]]
        /\ \/ Skip(w, m)
           \/ ~Terminal(m) /\ Goto(w, "customer") /\ UNCHANGED dropped
        /\ UNCHANGED <<dbVars, queueVars, pollerVars, owed, interrupted, faults, holds>>

\* GetCustomer and the two abuse gates.  The foreign key of messages.customer_id
\* rules the missing customer out.
GetCustomer(w) ==
  /\ pc[w] = "customer"
  /\ \E state \in SendingStates :
       IF Blocks(state, job[w].msg)
         THEN Decide(w, "blocked", "update_status")
         ELSE Goto(w, "suppression") /\ UNCHANGED job
  /\ UNCHANGED <<dbVars, queueVars, batch, pollerVars, owed, historyVars, faults, holds>>

\* Mutant: the suppression list is not consulted.
NeverSuppressed(m) == FALSE

Suppressed(m) == RecipientOf[m] \in suppression_list

IsSuppressed(w) ==
  /\ pc[w] = "suppression"
  /\ IF Suppressed(job[w].msg)
       THEN Decide(w, "suppressed", "update_status")
       ELSE Goto(w, "route") /\ UNCHANGED job
  /\ UNCHANGED <<dbVars, queueVars, batch, pollerVars, owed, historyVars, faults, holds>>

\* route.Select finds a healthy pool with an active route, or none.
SelectRoute(w) ==
  /\ pc[w] = "route"
  /\ \/ Goto(w, "capacity") /\ UNCHANGED job
     \/ Decide(w, "no_route", "update_status")
  /\ UNCHANGED <<dbVars, queueVars, batch, pollerVars, owed, historyVars, faults, holds>>

\* A query of route.Select fails: Process takes any error for "no route".
SelectRouteFails(w) ==
  /\ pc[w] = "route"
  /\ Fault
  /\ Decide(w, "no_route", "update_status")
  /\ UNCHANGED <<dbVars, queueVars, batch, pollerVars, owed, historyVars, holds>>

\* Daily cap, warmup cap and throttles, in front of the attempt.
CheckCapacity(w) ==
  /\ pc[w] = "capacity"
  /\ \/ Goto(w, "mark_sending") /\ UNCHANGED <<job, holds>>
     \/ /\ holds < MaxHolds
        /\ holds' = holds + 1
        /\ Decide(w, "hold", "update_status")
  /\ UNCHANGED <<dbVars, queueVars, batch, pollerVars, owed, historyVars, faults>>

\* UpdateMessageStatus: unconditional, whatever the row holds by now.
UpdateMessageStatus(m, s, attempt, at) ==
  /\ status' = [status EXCEPT ![m] = s]
  /\ attempt_count' = [attempt_count EXCEPT ![m] = attempt]
  /\ next_attempt_at' = [next_attempt_at EXCEPT ![m] = at]
  /\ UNCHANGED <<delivery_attempts, message_events, suppression_list>>

\* Mutant: the attempt is counted when it is over, not when it begins.
CountLater(attempt) == attempt - 1

\* The attempt_count written with status sending.
CountedAttempt(attempt) == attempt

MarkSending(w) ==
  /\ pc[w] = "mark_sending"
  /\ LET attempt == job[w].attempt + 1
     IN  /\ UpdateMessageStatus(job[w].msg, "sending", CountedAttempt(attempt), "null")
         /\ job' = [job EXCEPT ![w].attempt = attempt]
  /\ Goto(w, "sending_event")
  /\ UNCHANGED <<queueVars, batch, pollerVars, owed, historyVars, faults, holds>>

\* WriteEvent inserts a row of the timeline.
WriteEvent(w, type) ==
  /\ message_events' = [message_events EXCEPT ![job[w].msg] = @ \cup {type}]
  /\ UNCHANGED <<status, attempt_count, next_attempt_at, delivery_attempts,
                 suppression_list, queueVars, batch, pollerVars, owed, historyVars,
                 faults, holds>>

WriteSendingEvent(w) ==
  /\ pc[w] = "sending_event"
  /\ WriteEvent(w, "sending_attempted")
  /\ Goto(w, "attempt_row")
  /\ UNCHANGED job

\* Mutant: the status is written without suppressing the recipient first.
StatusStraightAway(kind) == "update_status"

\* A hard bounce is suppressed before anything else is written.
AfterAttempt(kind) == IF kind = "hard_bounce" THEN "suppress" ELSE "update_status"

\* GetProviderPolicy, the simulated send, its row, and applyOutcome's choice.
WriteDeliveryAttempt(w) ==
  /\ pc[w] = "attempt_row"
  /\ LET m == job[w].msg
     IN  /\ delivery_attempts' =
              [delivery_attempts EXCEPT ![m] = Append(@, job[w].attempt)]
         /\ \E kind \in Responses[RecipientOf[m]] :
              Decide(w, Outcome(kind, job[w].attempt), AfterAttempt(kind))
  /\ UNCHANGED <<status, attempt_count, next_attempt_at, message_events,
                 suppression_list, queueVars, batch, pollerVars, owed, historyVars,
                 faults, holds>>

AddSuppression(w) ==
  /\ pc[w] = "suppress"
  /\ suppression_list' = suppression_list \cup {RecipientOf[job[w].msg]}
  /\ Goto(w, "update_status")
  /\ UNCHANGED <<status, attempt_count, next_attempt_at, delivery_attempts,
                 message_events, queueVars, batch, job, pollerVars, owed, historyVars,
                 faults, holds>>

\* The status write of applyOutcome, terminateEvent or reschedule.
UpdateStatus(w) ==
  /\ pc[w] = "update_status"
  /\ LET d == job[w].decision
     IN  UpdateMessageStatus(job[w].msg, StatusOf(d), job[w].attempt, NextAttemptAt(d))
  /\ Goto(w, "event")
  /\ UNCHANGED <<queueVars, batch, job, pollerVars, owed, historyVars, faults, holds>>

WriteDecisionEvent(w) ==
  /\ pc[w] = "event"
  /\ WriteEvent(w, EventOf(job[w].decision))
  /\ Goto(w, IF job[w].decision = "retry" THEN "retry_event" ELSE "ack")
  /\ UNCHANGED job

WriteRetryEvent(w) ==
  /\ pc[w] = "retry_event"
  /\ WriteEvent(w, "retry_scheduled")
  /\ Goto(w, "ack")
  /\ UNCHANGED job

\* XACK, once Process has returned nil.
Ack(w) ==
  /\ pc[w] = "ack"
  /\ pel' = pel \ {job[w].entry}
  /\ idle' = idle \ {job[w].entry}
  /\ EndOfEntry(w)
  /\ UNCHANGED <<dbVars, group, stream, cursor, batch, pollerVars, owed, historyVars,
                 faults, holds>>

-----------------------------------------------------------------------------
(* Failures of the consumer.                                               *)

\* The attempt in hand has been counted and its outcome is not yet stored.
InAttempt(w) ==
  \/ pc[w] \in {"sending_event", "attempt_row", "suppress"}
  \/ pc[w] = "update_status" /\ job[w].decision \in OutcomeDecisions

CutOff(w) ==
  interrupted' = IF InAttempt(w)
                   THEN [interrupted EXCEPT ![job[w].msg] = @ + 1]
                   ELSE interrupted

LoadFails(w) ==
  \E e \in batch[w] :
    /\ AtEntry(w, e)
    /\ Fault
    /\ batch' = [batch EXCEPT ![w] = @ \ {e}]
    /\ UNCHANGED <<dbVars, queueVars, pc, job, pollerVars, owed, historyVars, holds>>

\* Mutant: processEntry acks whatever Process returned.
AckOnError(e) == pel \ {e}

\* processEntry returns without XACK when Process failed.
PendingAfterError(e) == pel

\* A call of Process fails with or without effect (an effect that is not
\* reported is the step itself, followed by this one), or XACK does.
ProcessFails(w) ==
  /\ pc[w] \in {"customer", "suppression", "capacity", "mark_sending", "sending_event",
                "attempt_row", "suppress", "update_status", "event", "retry_event", "ack"}
  /\ Fault
  /\ CutOff(w)
  /\ pel' = PendingAfterError(job[w].entry)
  /\ idle' = idle \cap pel'
  /\ EndOfEntry(w)
  /\ UNCHANGED <<dbVars, group, stream, cursor, batch, pollerVars, owed, dropped, holds>>

\* The worker process dies, or SIGTERM cancels the context under both
\* goroutines; it starts again.
Crash(w) ==
  /\ pc[w] # "boot"
  /\ Fault
  /\ CutOff(w)
  /\ dropped' = dropped \cup {m \in Messages : m = marked[w]}
  /\ Goto(w, "boot")
  /\ batch' = [batch EXCEPT ![w] = {}]
  /\ job' = [job EXCEPT ![w] = NoJob]
  /\ ids' = [ids EXCEPT ![w] = {}]
  /\ marked' = [marked EXCEPT ![w] = None]
  /\ UNCHANGED <<dbVars, queueVars, owed, holds>>

-----------------------------------------------------------------------------
(* Deferred-poller goroutine: runDeferredPoller.                           *)

PollerIdle(w) == ids[w] = {} /\ marked[w] = None

\* The rows GetDeferredMessagesReady selects.
Due(m) == status[m] = "deferred" /\ next_attempt_at[m] = "due"

\* The LIMIT keeps the oldest; which ones those are is not modelled.
PollTick(w) ==
  /\ pc[w] # "boot" /\ PollerIdle(w)
  /\ \E S \in SUBSET {m \in Messages : Due(m)} :
       /\ S # {} /\ Cardinality(S) <= DeferredBatch
       /\ Cardinality(S) < DeferredBatch => S = {m \in Messages : Due(m)}
       /\ ids' = [ids EXCEPT ![w] = S]
  /\ UNCHANGED <<dbVars, queueVars, consumerVars, marked, owed, historyVars, faults, holds>>

\* Mutant: the UPDATE is not conditional on the status.
MarkQueuedAlways(m) ==
  /\ status' = [status EXCEPT ![m] = "queued"]
  /\ UNCHANGED <<attempt_count, next_attempt_at, delivery_attempts, message_events,
                 suppression_list>>

\* MarkQueued: conditional on deferred; next_attempt_at is kept.
MarkQueued(m) ==
  /\ status' = IF status[m] = "deferred"
                 THEN [status EXCEPT ![m] = "queued"] ELSE status
  /\ UNCHANGED <<attempt_count, next_attempt_at, delivery_attempts, message_events,
                 suppression_list>>

\* The row is marked and will be enqueued, whether or not the mark matched.
PollMark(w) ==
  /\ marked[w] = None
  /\ \E m \in ids[w] :
       /\ MarkQueued(m)
       /\ ids' = [ids EXCEPT ![w] = @ \ {m}]
       /\ marked' = [marked EXCEPT ![w] = m]
  /\ UNCHANGED <<queueVars, consumerVars, owed, historyVars, faults, holds>>

\* MarkQueued returns an error and the row is skipped.  The UPDATE may have
\* taken effect all the same.
PollMarkFails(w) ==
  /\ marked[w] = None
  /\ Fault
  /\ \E m \in ids[w] :
       /\ ids' = [ids EXCEPT ![w] = @ \ {m}]
       /\ \/ UNCHANGED <<dbVars, dropped>>
          \/ MarkQueued(m) /\ dropped' = dropped \cup {m}
  /\ UNCHANGED <<queueVars, consumerVars, marked, owed, interrupted, holds>>

PollEnqueue(w) ==
  /\ marked[w] # None
  /\ Enqueue(marked[w])
  /\ marked' = [marked EXCEPT ![w] = None]
  /\ UNCHANGED <<dbVars, consumerVars, ids, owed, historyVars, faults, holds>>

\* The XADD fails and is logged; the row stays queued.
PollEnqueueFails(w) ==
  /\ marked[w] # None
  /\ Fault
  /\ dropped' = dropped \cup {marked[w]}
  /\ marked' = [marked EXCEPT ![w] = None]
  /\ UNCHANGED <<dbVars, queueVars, consumerVars, ids, owed, interrupted, holds>>

-----------------------------------------------------------------------------
(* Time.                                                                   *)

BackoffElapses(m) ==
  /\ next_attempt_at[m] = "future"
  /\ next_attempt_at' = [next_attempt_at EXCEPT ![m] = "due"]
  /\ UNCHANGED <<status, attempt_count, delivery_attempts, message_events,
                 suppression_list, queueVars, consumerVars, pollerVars, owed,
                 historyVars, faults, holds>>

EntryIdles(e) ==
  /\ e \in pel \ idle
  /\ idle' = idle \cup {e}
  /\ UNCHANGED <<dbVars, group, stream, cursor, pel, consumerVars, pollerVars, owed,
                 historyVars, faults, holds>>

-----------------------------------------------------------------------------
Consume(w) ==
  \/ EnsureGroup(w) \/ Reclaim(w) \/ Read(w) \/ Load(w)
  \/ GetCustomer(w) \/ IsSuppressed(w) \/ SelectRoute(w) \/ CheckCapacity(w)
  \/ MarkSending(w) \/ WriteSendingEvent(w) \/ WriteDeliveryAttempt(w)
  \/ AddSuppression(w) \/ UpdateStatus(w) \/ WriteDecisionEvent(w)
  \/ WriteRetryEvent(w) \/ Ack(w)

Poll(w) == PollTick(w) \/ PollMark(w) \/ PollEnqueue(w)

Fail(w) ==
  \/ ReclaimFails(w) \/ LoadFails(w) \/ SelectRouteFails(w) \/ ProcessFails(w)
  \/ Crash(w) \/ PollMarkFails(w) \/ PollEnqueueFails(w)

Next ==
  \/ \E m \in Messages :
       Accept(m) \/ ApiEnqueue(m) \/ ApiEnqueueFails(m) \/ BackoffElapses(m)
  \/ \E w \in Workers : Consume(w) \/ Poll(w) \/ Fail(w)
  \/ \E e \in pel : EntryIdles(e)

Spec == Init /\ [][Next]_vars

\* The group has been given all of the entries: the next XREADGROUP finds nothing,
\* or only entries of messages other than these.
Drained(w) == pc[w] = "next" /\ batch[w] = {} /\ cursor = Len(stream)

\* The goroutines of a running worker are scheduled, the API's handler goes on
\* past its COMMIT, and time passes.  Nothing makes a client submit or a call fail,
\* and nothing makes an XREADGROUP come back empty: other traffic may go on.
Fairness ==
  /\ \A w \in Workers : WF_vars(~Drained(w) /\ Consume(w)) /\ WF_vars(Poll(w))
  /\ \A m \in Messages : WF_vars(ApiEnqueue(m)) /\ WF_vars(BackoffElapses(m))
  /\ \A e \in 1..MaxEntries : WF_vars(EntryIdles(e))

FairSpec == Spec /\ Fairness

-----------------------------------------------------------------------------
(* Properties.                                                             *)

PCs == {"boot", "reclaim", "next", "customer", "suppression", "route", "capacity",
        "mark_sending", "sending_event", "attempt_row", "suppress", "update_status",
        "event", "retry_event", "ack"}

Statuses == {"none", "queued", "sending", "deferred", "delivered", "bounced", "failed",
             "dead_lettered", "suppressed", "blocked"}

EventTypes == {"accepted", "queued", "sending_attempted", "delivered", "bounced",
               "dead_lettered", "deferred", "retry_scheduled", "throttled",
               "suppressed", "blocked_by_abuse_control"}

DbTypeOK ==
  /\ status \in [Messages -> Statuses]
  /\ attempt_count \in [Messages -> Nat]
  /\ next_attempt_at \in [Messages -> {"null", "future", "due"}]
  /\ delivery_attempts \in [Messages -> Seq(Nat)]
  /\ message_events \in [Messages -> SUBSET EventTypes]
  /\ suppression_list \subseteq Recipients

QueueTypeOK ==
  /\ group \in BOOLEAN /\ stream \in Seq(Messages) /\ cursor \in 0..Len(stream)
  /\ pel \subseteq 1..cursor /\ idle \subseteq pel

Jobs == [entry : Nat, msg : Messages \cup {None}, attempt : Nat,
         decision : Decisions \cup {"none"}]

ConsumerTypeOK ==
  /\ pc \in [Workers -> PCs]
  /\ batch \in [Workers -> SUBSET Nat]
  /\ job \in [Workers -> Jobs]

PollerTypeOK ==
  ids \in [Workers -> SUBSET Messages] /\ marked \in [Workers -> Messages \cup {None}]

HistoryTypeOK ==
  /\ owed \subseteq Messages /\ dropped \subseteq Messages
  /\ interrupted \in [Messages -> Nat]
  /\ faults \in 0..MaxFaults /\ holds \in 0..MaxHolds

\* Every variable has its type; in particular the worker only writes statuses and
\* event types that the rest of the system knows, the group's cursor stays within the
\* stream, and only entries it has delivered are pending.
TypeOK == DbTypeOK /\ QueueTypeOK /\ ConsumerTypeOK /\ PollerTypeOK /\ HistoryTypeOK

\* Something will still bring m to a worker: the poller when its retry is due, an
\* entry that is undelivered or pending, or an XADD that is about to happen.
InReach(m) ==
  \/ status[m] = "deferred"
  \/ \E e \in Entries : stream[e] = m /\ (e > cursor \/ e \in pel)
  \/ m \in owed
  \/ \E w \in Workers : marked[w] = m

\* A message that is not finished can still be reached, unless one of its XADDs
\* never happened (ApiEnqueueFails, PollEnqueueFails, a poller dying or failing
\* between mark and XADD) or its entry predates the consumer group.
NothingStranded == \A m \in Messages : Live(m) => InReach(m) \/ m \in dropped

\* A worker is processing m or has an entry of m in its batch.
InHand(m) ==
  \E w \in Workers :
    \/ job[w].msg = m /\ pc[w] \notin {"event", "retry_event", "ack"}
    \/ \E e \in batch[w] : stream[e] = m

\* However many workers take up the same entry or duplicates of it, as long as no
\* call fails an unfinished message is in reach or in the hands of a worker.  The
\* exceptions are the entry that predates the consumer group and the one race that
\* loses a message: the entry of a due retry skipped, and acked, because the worker
\* that deferred the message is still inserting its events (Skip).
NothingStrandedWithoutFaults ==
  faults = 0 => \A m \in Messages : Live(m) => InReach(m) \/ InHand(m) \/ m \in dropped

\* The poller can see every deferred message: reschedule and applyOutcome write
\* next_attempt_at in the same UPDATE as the status.
DeferredHasRetryTime ==
  \A m \in Messages : status[m] = "deferred" => next_attempt_at[m] # "null"

\* MAX_ATTEMPTS bounds the attempts, but for the ones a crash or a failed call cut
\* off between "sending" and the outcome: each of those costs one more.
RetryBudget ==
  \A m \in Messages : attempt_count[m] <= MaxAttempts + interrupted[m]

\* Every row of delivery_attempts carries a number of its own, in order, and
\* attempt_count counts them together with the attempts that left no row.
AttemptsAccounted ==
  \A m \in Messages :
    LET rows == delivery_attempts[m]
    IN  /\ \A i, j \in DOMAIN rows : i < j => rows[i] < rows[j]
        /\ Len(rows) <= attempt_count[m]
        /\ attempt_count[m] <= Len(rows) + interrupted[m]
             + Cardinality({w \in Workers : InAttempt(w) /\ job[w].msg = m})

\* A bounced message's recipient is on the suppression list, whatever failed or
\* crashed: applyOutcome suppresses before it writes the status.
BouncedIsSuppressed ==
  \A m \in Messages : status[m] = "bounced" => RecipientOf[m] \in suppression_list

\* The timeline does not contradict the row: it tells of an ending only when the
\* message has ended that way.
Endings == [delivered |-> {"delivered"}, bounced |-> {"bounced", "failed"},
            dead_lettered |-> {"dead_lettered"}, suppressed |-> {"suppressed"},
            blocked_by_abuse_control |-> {"blocked"}]

TimelineTruthful ==
  \A m \in Messages : \A t \in DOMAIN Endings \cap message_events[m] :
    status[m] \in Endings[t]

\* Every finished message has the event that tells how it ended, at the latest when
\* its last entry has been acked.
TimelineComplete ==
  \A m \in Messages :
    \/ ~Terminal(m) \/ InReach(m)
    \/ \E t \in DOMAIN Endings \cap message_events[m] : status[m] \in Endings[t]

\* A finished message stays finished: the worker never re-processes it.
TerminalIsFinal ==
  [][\A m \in Messages : Terminal(m) => status'[m] = status[m]]_vars

\* The worker that consults the suppression list first never sends to a recipient
\* that is on it: no attempt row appears for a suppressed recipient.
NoSendToSuppressed ==
  [][\A m \in Messages :
       RecipientOf[m] \in suppression_list => delivery_attempts'[m] = delivery_attempts[m]]_vars

\* messages.status and attempt_count go through the documented state machine only.
Lifecycle ==
  INSTANCE MessageLifecycle WITH status <- status, attempt_count <- attempt_count

ImplementsLifecycle == Lifecycle!Spec

\* Traffic leaves gaps: a worker that has taken up all there is for these messages
\* gets an XREADGROUP that times out, sooner or later.  Reclaim runs only then and
\* at boot, so a pending entry waits for it however long the traffic goes on.
QuietSpells == \A w \in Workers : WF_vars(Drained(w) /\ Consume(w))

\* Given quiet spells, every accepted message is finished, unless one of its entries
\* was lost.
EveryMessageSettles ==
  QuietSpells =>
    \A m \in Messages : status[m] = "queued" ~> (Terminal(m) \/ m \in dropped)

\* Given quiet spells, no entry stays pending for good: what fails or crashes is
\* reclaimed, taken up again and acked.
PendingIsAcked == QuietSpells => \A e \in 1..MaxEntries : e \in pel ~> e \notin pel

\* A message committed while the consumer group exists is finished in the end: a
\* failed XADD of the API is made good by the poller.
FailedEnqueueIsMadeGood ==
  QuietSpells => \A m \in Messages : (group /\ m \in owed) ~> Terminal(m)
=============================================================================
