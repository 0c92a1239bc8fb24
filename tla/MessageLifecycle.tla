-------------------------- MODULE MessageLifecycle --------------------------
(***************************************************************************)
(* What the delivery engine promises about one row of the messages table:  *)
(* the state machine of messages.status together with the attempt counter, *)
(* with no queue, worker or poller in sight.  The terminal statuses have   *)
(* no way out, an attempt is counted exactly when it begins, and a retry   *)
(* or a dead letter follows from the counter.                              *)
(***************************************************************************)
EXTENDS Naturals

CONSTANTS Messages, MaxAttempts

VARIABLES status, attempt_count

lifecycleVars == <<status, attempt_count>>

LiveStatuses == {"queued", "sending", "deferred"}

Move(m, s, n) ==
  /\ status' = [status EXCEPT ![m] = s]
  /\ attempt_count' = [attempt_count EXCEPT ![m] = n]

Init ==
  /\ status = [m \in Messages |-> "none"]
  /\ attempt_count = [m \in Messages |-> 0]

\* POST /messages stores the row.
Accept(m) == status[m] = "none" /\ Move(m, "queued", 0)

\* A worker begins a delivery attempt; only this step spends the budget.
BeginAttempt(m) ==
  /\ status[m] \in LiveStatuses
  /\ Move(m, "sending", attempt_count[m] + 1)

\* The provider's answer settles a message that is being sent.
Settle(m) ==
  /\ status[m] = "sending"
  /\ \/ \E s \in {"delivered", "bounced", "failed"} : Move(m, s, attempt_count[m])
     \/ attempt_count[m] >= MaxAttempts /\ Move(m, "dead_lettered", attempt_count[m])
     \/ attempt_count[m] < MaxAttempts /\ Move(m, "deferred", attempt_count[m])

\* A gate in front of the attempt turns the message away or holds it back.
TurnAway(m) ==
  /\ status[m] \in LiveStatuses
  /\ \E s \in {"blocked", "suppressed", "failed", "deferred"} :
       Move(m, s, attempt_count[m])

\* The backoff has elapsed.
Requeue(m) == status[m] = "deferred" /\ Move(m, "queued", attempt_count[m])

Next ==
  \E m \in Messages :
    Accept(m) \/ BeginAttempt(m) \/ Settle(m) \/ TurnAway(m) \/ Requeue(m)

Spec == Init /\ [][Next]_lifecycleVars
=============================================================================
