----------------------------- MODULE RetrySchedule -----------------------------
(***************************************************************************)
(* A message to a provider in trouble: the response the simulator produces *)
(* from the recipient's local part and the provider's reputation_state,    *)
(* its classification, the backoff after it, the poller that puts the      *)
(* message back, and the throttle rule an operator adds meanwhile.  There  *)
(* is one worker process, the poller in it; DeliveryEngine has several.    *)
(*                                                                         *)
(* A response is its code and those phrases of the classifier's rules that *)
(* occur in it; a local part is the hints that occur in it.  Time is kept  *)
(* as what is left to wait and what has passed, in units of baseDelays.    *)
(***************************************************************************)
EXTENDS Integers, Sequences, FiniteSetsExt

CONSTANTS
  Locals,        \* local parts: sets of hints
  baseDelays,    \* the delay after the i-th attempt, in units of time
  HoldDelay,     \* the minute a throttled message is held
  maxAttempts,   \* MAX_ATTEMPTS
  MaxChanges,    \* bound: changes of the provider's health or of the throttle rule
  MaxFaults      \* bound: failed calls and crashes

ASSUME RetryAssumption ==
  /\ baseDelays \in Seq(Nat) /\ baseDelays # << >>
  /\ HoldDelay \in Nat /\ maxAttempts \in Nat \ {0}
  /\ MaxChanges \in Nat /\ MaxFaults \in Nat

VARIABLES
  local,              \* hints in the recipient's local part
  reputation_state,   \* column of provider_policies
  throttled,          \* a throttle rule holds the provider's messages back
  status, attempt_count,   \* columns of messages
  wait,               \* time until next_attempt_at, when deferred
  entries,            \* the stream's entries of the message that are not acked
  fresh,              \* how many of them have not been read yet; the others are pending
  poller,             \* idle, or has read the message as due, or has marked it as queued
  pc,                 \* the worker that has an entry in hand: idle, or sending
  spent,              \* time since that worker read the clock
  suppressed,         \* the recipient is on the suppression list
  response, kind,     \* of the last attempt
  elapsed,            \* history: time since the worker read the clock for attempt 1
  delay,              \* history: the backoff chosen last
  refusals,           \* history: attempts answered with a 4xx
  interrupted,        \* history: attempts whose answer was never recorded
  early,              \* history: attempts after which it was taken up before its time
  dropped,            \* history: an XADD of the poller was lost
  changes, faults

outside == <<local, reputation_state, throttled, changes>>
stream == <<entries, fresh>>
outcome == <<suppressed, response, kind, delay, refusals>>
history == <<elapsed, interrupted, early, dropped>>
vars == <<outside, status, attempt_count, wait, stream, poller, pc, spent, outcome, history, faults>>

-----------------------------------------------------------------------------
(* simulate.rawResponse.                                                   *)

Answer(code, phrases) == [code |-> code, phrases |-> phrases]

Accepted == Answer(250, {})

\* The hints in the order of the switch, and what each of them makes the provider say.
Scripted ==
  << <<"bounce",    Answer(550, {"user unknown"})>>,
     <<"unknown",   Answer(550, {"user unknown"})>>,
     <<"full",      Answer(452, {"mailbox full"})>>,
     <<"ratelimit", Answer(421, {"rate limited"})>>,
     <<"defer",     Answer(451, {"try again later"})>>,
     <<"greylist",  Answer(451, {"try again later"})>>,
     <<"spam",      Answer(554, {"spam"})>>,
     <<"tempfail",  Answer(451, {"temporary failure"})>> >>

\* The first of the pairs whose key is in keys, or the default.
FirstOf(pairs, keys, default) ==
  LET hits == {i \in DOMAIN pairs : pairs[i][1] \in keys}
  IN  IF hits = {} THEN default
      ELSE pairs[CHOOSE i \in hits : \A j \in hits : i <= j][2]

\* What the provider's health makes of a message without a hint; degraded rolls.
Rolled(reputation) ==
  CASE reputation = "down" -> {Answer(421, {"try again later"})}
    [] reputation = "degraded" -> {Answer(421, {"rate limited"}), Accepted}
    [] OTHER -> {Accepted}

rawResponse(hints, reputation) ==
  {FirstOf(Scripted, hints, rolled) : rolled \in Rolled(reputation)}

-----------------------------------------------------------------------------
(* classify.Classify.                                                      *)

rules ==
  << <<"user unknown",        "hard_bounce">>,
     <<"no such user",        "hard_bounce">>,
     <<"mailbox unavailable", "hard_bounce">>,
     <<"does not exist",      "hard_bounce">>,
     <<"mailbox full",        "soft_bounce">>,
     <<"over quota",          "soft_bounce">>,
     <<"rate limited",        "rate_limited">>,
     <<"too many",            "rate_limited">>,
     <<"try again later",     "provider_deferral">>,
     <<"greylist",            "provider_deferral">>,
     <<"deferred",            "provider_deferral">>,
     <<"spam",                "policy_rejection">>,
     <<"blocked",             "policy_rejection">>,
     <<"policy",              "policy_rejection">>,
     <<"temporary failure",   "transient_failure">>,
     <<"temporarily",         "transient_failure">> >>

\* Mutant: the last two rules are lost.
ClassifyNoTransient(answer) == FirstOf(SubSeq(rules, 1, 14), answer.phrases, "delivered")

\* Mutant: a rate limit is taken for a rejection.
ClassifyStrict(answer) ==
  FirstOf(<< <<"rate limited", "policy_rejection">> >> \o rules, answer.phrases, "delivered")

\* Mutant: a kind applyOutcome does not know.
ClassifyMisspelt(answer) ==
  FirstOf(<< <<"rate limited", "ratelimited">> >> \o rules, answer.phrases, "delivered")

\* Whatever no rule matches counts as delivered.
Classify(answer) == FirstOf(rules, answer.phrases, "delivered")

-----------------------------------------------------------------------------
(* backoff.NextDelay.                                                      *)

\* Mutant: the delay grows one attempt late.
BaseOfLate(attempts) ==
  baseDelays[IF attempts < 2 THEN 1
             ELSE IF attempts - 1 > Len(baseDelays) THEN Len(baseDelays) ELSE attempts - 1]

\* The delay after an attempt; the last one is used from then on.
BaseOf(attempts) ==
  baseDelays[IF attempts < 1 THEN 1
             ELSE IF attempts > Len(baseDelays) THEN Len(baseDelays) ELSE attempts]

\* Mutant: jitter down to nothing.
WithJitterFromZero(base) == 0..base

withJitter(base) == (base \div 2)..base

Exhausted(attempts) == attempts >= maxAttempts

-----------------------------------------------------------------------------
Terminal == {"delivered", "bounced", "failed", "dead_lettered"}

\* A worker that takes longer than this has no backoff left to wait for.
Longest == Max({baseDelays[i] : i \in DOMAIN baseDelays})

\* The shortest time a message that is retried to the end takes, when nobody waits for
\* the backoff of the attempts in without.
Floor(attempts) == BaseOf(attempts) \div 2
Patience(without) == MapThenSumSet(Floor, (1..(maxAttempts - 1)) \ without)

Init ==
  /\ local \in Locals
  /\ reputation_state = "healthy" /\ throttled = FALSE
  /\ status = "queued" /\ attempt_count = 0 /\ wait = 0
  /\ entries = 1 /\ fresh = 1 /\ poller = "idle" /\ pc = "idle" /\ spent = 0
  /\ suppressed = FALSE /\ response = Accepted /\ kind = "none"
  /\ elapsed = 0 /\ delay = 0 /\ refusals = 0
  /\ interrupted = 0 /\ early = {} /\ dropped = FALSE
  /\ changes = 0 /\ faults = 0

\* The provider's health changes, or an operator adds or removes the rule.
Change ==
  /\ changes < MaxChanges
  /\ changes' = changes + 1
  /\ \/ /\ reputation_state' \in {"healthy", "degraded", "down"} \ {reputation_state}
        /\ UNCHANGED throttled
     \/ throttled' = ~throttled /\ UNCHANGED reputation_state
  /\ UNCHANGED <<local, status, attempt_count, wait, stream, poller, pc, spent, outcome,
                 history, faults>>

\* Time passes, for the wait, for a send that is slow and for the history.
Tick ==
  /\ wait' = IF wait > 0 THEN wait - 1 ELSE 0
  /\ spent' = IF pc = "sending" /\ spent < Longest THEN spent + 1 ELSE spent
  /\ elapsed' = IF attempt_count > 0 /\ elapsed < Patience({}) THEN elapsed + 1 ELSE elapsed
  /\ UNCHANGED <<outside, status, attempt_count, stream, poller, pc, outcome, interrupted,
                 early, dropped, faults>>

\* A call fails, or the whole process dies, and the poller with it: an XADD it had yet to
\* make is lost.
Fault ==
  /\ faults < MaxFaults /\ faults' = faults + 1
  /\ \/ UNCHANGED <<poller, dropped>>
     \/ poller' = "idle" /\ dropped' = (dropped \/ poller = "marked")

NoFault == UNCHANGED <<poller, dropped, faults>>

\* The message is taken up or marked as queued before its next_attempt_at, or not.
Early == early' = IF wait > 0 THEN early \cup {attempt_count} ELSE early

\* runDeferredPoller: GetDeferredMessagesReady finds the message due.
Poll ==
  /\ poller = "idle" /\ status = "deferred" /\ wait = 0
  /\ poller' = "due"
  /\ UNCHANGED <<outside, status, attempt_count, wait, stream, pc, spent, outcome, history,
                 faults>>

\* MarkQueued looks at the status only: a message that was attempted and deferred again
\* since the poller read it is put back before its time.
MarkQueued ==
  IF status = "deferred"
    THEN status' = "queued" /\ wait' = 0 /\ Early
    ELSE UNCHANGED <<status, wait, early>>

\* Mutant: the poller forgets to enqueue what it marked.
MarkAndForget ==
  /\ poller = "due" /\ poller' = "idle" /\ MarkQueued
  /\ UNCHANGED <<outside, attempt_count, stream, pc, spent, outcome, elapsed, interrupted,
                 dropped, faults>>

\* A MarkQueued that fails leaves the message to the next tick.
Mark ==
  /\ poller = "due"
  /\ \/ poller' = "marked" /\ MarkQueued /\ UNCHANGED faults
     \/ /\ faults < MaxFaults /\ faults' = faults + 1
        /\ poller' = "idle" /\ UNCHANGED <<status, wait, early>>
  /\ UNCHANGED <<outside, attempt_count, stream, pc, spent, outcome, elapsed, interrupted,
                 dropped>>

\* Enqueue, whatever MarkQueued found; an XADD that fails is logged and never repeated.
Enqueue ==
  /\ poller = "marked" /\ poller' = "idle"
  /\ \/ entries' = entries + 1 /\ fresh' = fresh + 1 /\ UNCHANGED <<dropped, faults>>
     \/ /\ faults < MaxFaults /\ faults' = faults + 1
        /\ dropped' = TRUE /\ UNCHANGED stream
  /\ UNCHANGED <<outside, status, attempt_count, wait, pc, spent, outcome, elapsed,
                 interrupted, early>>

\* The worker takes up an entry: one it reads, or one left pending, which it reclaims.
TakeUp(pending) ==
  /\ pc = "idle"
  /\ IF pending THEN entries > fresh /\ UNCHANGED fresh
                ELSE fresh > 0 /\ fresh' = fresh - 1

\* Mutant: acked although Process failed.
AckAnyway == entries' = entries - 1

\* processEntry does not ack what Process returned an error for, nor when XACK fails.
LeavePending == UNCHANGED entries

\* The entry in hand is acked, and no other of the message.
AckOrFail ==
  \/ entries' = entries - 1 /\ NoFault
  \/ LeavePending /\ Fault

\* A call fails or the worker dies before the message is written to.
Abandon(pending) ==
  /\ TakeUp(pending) /\ LeavePending /\ Fault
  /\ UNCHANGED <<outside, status, attempt_count, wait, pc, spent, outcome, elapsed,
                 interrupted, early>>

\* The poller's UPDATE holds the row, which SKIP LOCKED passes over.
RowLocked == poller = "due" /\ status = "deferred"

\* A terminal or a locked message is acked without another look.
Skip(pending) ==
  /\ TakeUp(pending) /\ (status \in Terminal \/ RowLocked)
  /\ AckOrFail
  /\ UNCHANGED <<outside, status, attempt_count, wait, pc, spent, outcome, elapsed,
                 interrupted, early>>

\* Mutant: a hold costs an attempt.
HoldAndCount == attempt_count' = attempt_count + 1

\* reschedule leaves attempt_count as it is.
HoldCount == UNCHANGED attempt_count

\* checkThrottles refuses: the message is deferred by a minute.
Hold(pending) ==
  /\ TakeUp(pending) /\ status \notin Terminal /\ throttled
  /\ status' = "deferred" /\ wait' = HoldDelay /\ Early
  /\ AckOrFail
  /\ HoldCount
  /\ UNCHANGED <<outside, pc, spent, outcome, elapsed, interrupted>>

\* Process reads the clock, passes the gates and marks the message as sending.  Nothing
\* in it looks at next_attempt_at.  A throttle rule lets some messages through.
Begin(pending) ==
  /\ TakeUp(pending) /\ status \notin Terminal
  /\ status' = "sending" /\ attempt_count' = attempt_count + 1 /\ wait' = 0 /\ Early
  /\ pc' = "sending" /\ spent' = 0
  /\ UNCHANGED <<outside, entries, poller, outcome, elapsed, interrupted, dropped, faults>>

\* What applyOutcome makes of a failed attempt that may be tried again.  The delay runs
\* from the clock reading, so a slow attempt uses its own backoff up.
Retry ==
  IF Exhausted(attempt_count)
    THEN status' = "dead_lettered" /\ wait' = 0 /\ UNCHANGED delay
    ELSE /\ status' = "deferred"
         /\ \E d \in withJitter(BaseOf(attempt_count)) :
              /\ delay' = d
              /\ wait' = IF spent < d THEN d - spent ELSE 0

\* The policy's reputation, the simulated response, its classification and applyOutcome.
\* If a call fails after the update of the row, or the worker dies, the entry is not
\* acked and the message is processed again at once.
Attempt ==
  /\ pc = "sending"
  /\ \E answer \in rawResponse(local, reputation_state) :
       /\ response' = answer /\ kind' = Classify(answer)
       /\ refusals' = refusals + IF answer.code \div 100 = 4 THEN 1 ELSE 0
  /\ suppressed' = (suppressed \/ kind' = "hard_bounce")
  /\ CASE kind' = "delivered" -> status' = "delivered" /\ wait' = 0 /\ UNCHANGED delay
       [] kind' = "hard_bounce" -> status' = "bounced" /\ wait' = 0 /\ UNCHANGED delay
       [] kind' = "policy_rejection" -> status' = "failed" /\ wait' = 0 /\ UNCHANGED delay
       [] OTHER -> Retry
  /\ pc' = "idle" /\ spent' = 0
  /\ AckOrFail
  /\ UNCHANGED <<outside, attempt_count, fresh, elapsed, interrupted, early>>

\* The worker dies or fails before the provider's answer is recorded.  The attempt is
\* counted, and the next one is made without a wait.
Crash ==
  /\ pc = "sending" /\ LeavePending /\ Fault
  /\ pc' = "idle" /\ spent' = 0
  /\ interrupted' = interrupted + 1 /\ early' = early \cup {attempt_count}
  /\ UNCHANGED <<outside, status, attempt_count, wait, fresh, outcome, elapsed>>

Process(pending) == Skip(pending) \/ Hold(pending) \/ Begin(pending)

Next ==
  \/ Change \/ Tick \/ Poll \/ Mark \/ Enqueue
  \/ \E pending \in BOOLEAN : Process(pending) \/ Abandon(pending)
  \/ Attempt \/ Crash

\* Time passes, the poller's ticker fires, and the worker reads what is in the stream.
Fairness ==
  /\ WF_vars(Tick) /\ WF_vars(Poll) /\ WF_vars(Mark) /\ WF_vars(Enqueue)
  /\ WF_vars(Process(FALSE)) /\ WF_vars(Attempt)

Spec == Init /\ [][Next]_vars /\ Fairness

\* Pending entries are reclaimed at an idle read or a restart.  Other traffic can keep a
\* worker from both, so that they come is no part of Spec: what needs it, says so.
QuietSpells == WF_vars(Process(TRUE))

-----------------------------------------------------------------------------
(* Properties.                                                             *)

Kinds == {"delivered", "hard_bounce", "soft_bounce", "provider_deferral", "rate_limited",
          "policy_rejection", "transient_failure"}

Responses == [code : Nat, phrases : SUBSET {rules[i][1] : i \in DOMAIN rules}]

\* Every variable has its type, the worker has a read entry in hand while it is sending,
\* and only a deferred message waits.
TypeOK ==
  /\ local \in Locals /\ reputation_state \in {"healthy", "degraded", "down"}
  /\ throttled \in BOOLEAN
  /\ status \in Terminal \cup {"queued", "sending", "deferred"}
  /\ attempt_count \in Nat /\ wait \in Nat /\ (wait > 0 => status = "deferred")
  /\ entries \in Nat /\ fresh \in 0..entries /\ poller \in {"idle", "due", "marked"}
  /\ pc \in {"idle", "sending"} /\ (pc = "sending" => status = "sending" /\ entries > fresh)
  /\ spent \in Nat /\ suppressed \in BOOLEAN
  /\ response \in Responses
  /\ kind \in Kinds \cup {"none"}
  /\ elapsed \in Nat /\ delay \in Nat /\ refusals \in Nat /\ interrupted \in Nat
  /\ early \subseteq 0..attempt_count /\ dropped \in BOOLEAN
  /\ changes \in 0..MaxChanges /\ faults \in 0..MaxFaults

\* A message is only dead-lettered after a provider outage has lasted as long as all of
\* its backoffs at their shortest, but for those that were cut short, and each failed call
\* or crash cuts short one at most: an attempt without an answer is retried at once, and an
\* entry left pending is once taken up beside the poller's, whatever next_attempt_at says.
OutageSurvived ==
  status = "dead_lettered" => elapsed >= Patience(early) /\ Cardinality(early) <= faults

\* docs/incident-simulation.md: a 421 is retryable and recipients are not being
\* suppressed.  However unwell the provider is, a message whose recipient has no hint is
\* neither bounced nor failed.
OutagePoisonsNobody == local = {} => status \notin {"bounced", "failed"} /\ ~suppressed

\* The phrases decide the kind and the code is only logged, yet they agree: 2xx is
\* delivered, 4xx is tried again, 5xx is not.
CodeAgrees ==
  kind # "none" =>
    CASE response.code \div 100 = 2 -> kind = "delivered"
      [] response.code \div 100 = 4 ->
           kind \in {"soft_bounce", "provider_deferral", "rate_limited", "transient_failure"}
      [] OTHER -> kind \in {"hard_bounce", "policy_rejection"}

\* A message is dead-lettered for refusals of the provider and crashes only: slowing the
\* provider's messages down with a throttle rule costs no message an attempt.
DeadLettersWereRefused ==
  status = "dead_lettered" => refusals + interrupted >= maxAttempts

\* As in baseDelays: half of each delay is more than all of the one before it.
Escalating == \A i \in 1..(Len(baseDelays) - 1) : baseDelays[i] < baseDelays[i + 1] \div 2

\* Each backoff is longer than the one before it until the last base delay is reached,
\* whatever the jitter was both times.
DelaysEscalate ==
  [][delay' # delay /\ attempt_count <= Len(baseDelays) => delay' > delay]_vars

Unthrottled == ~throttled

\* Once throttling is over, a message comes to an end, whatever the provider does, unless
\* an XADD of the poller was lost.
EveryMessageEnds ==
  QuietSpells /\ <>[]Unthrottled => <>(status \in Terminal \/ dropped)

\* When the provider recovers for good, a message that still has an attempt left is
\* delivered: the backlog drains on its own, but for what the poller failed to enqueue.
RecoveryDelivers ==
  QuietSpells =>
    [](local = {} /\ status \in {"queued", "deferred"} /\ attempt_count < maxAttempts
         /\ [](reputation_state = "healthy" /\ Unthrottled)
       => <>(status = "delivered" \/ dropped))
=============================================================================
