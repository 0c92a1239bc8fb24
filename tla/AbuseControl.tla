----------------------------- MODULE AbuseControl -----------------------------
(***************************************************************************)
(* One customer's sending_state: who sets it, and who acts on it.          *)
(*                                                                         *)
(* POST /messages refuses a blocked customer when it accepts, Process      *)
(* blocks the message again before it sends, and every worker process runs *)
(* an abuse sweep that moves a trusted or new customer with too many hard  *)
(* bounces to limited.  Each of them reads the state in one call and acts  *)
(* in a later one, and an operator may set it at any time in between.      *)
(*                                                                         *)
(* Each worker process runs a consumer, a poller and a sweep that share     *)
(* nothing but the database and the stream, so each kind is a set here.     *)
(*                                                                         *)
(* Suppression, routing and capacity, which stand between the gate and the *)
(* attempt, only make a message wait or end (DeliveryEngine, Capacity).    *)
(* Time is left out: a backoff is over when the poller looks.              *)
(***************************************************************************)
EXTENDS Integers, FiniteSets

CONSTANTS
  Messages,                 \* the messages the customer may ask to be sent
  Marketing,                \* those of type marketing
  Workers,                  \* the consumers of the worker processes
  Pollers, Sweepers,        \* their deferred pollers and their abuse sweeps
  hardBounceThresholdPct,
  None,
  MaxEntries,               \* bound: unacked stream entries of a message
  MaxDecisions,             \* bound: states set by an operator
  MaxFaults                 \* bound: failed calls and crashes

\* A stream entry carries a message id and has an id of its own.
Entries == Messages \X (1..MaxEntries)

\* What a poller may have in hand: a message it has read as due, or has marked as queued.
Requeues == Messages \X {"due", "marked"}

ASSUME AbuseAssumption ==
  /\ Marketing \subseteq Messages /\ None \notin Entries \cup Requeues
  /\ IsFiniteSet(Messages)
  /\ hardBounceThresholdPct \in Nat
  /\ MaxEntries \in Nat /\ MaxDecisions \in Nat /\ MaxFaults \in Nat

VARIABLES
  sending_state,   \* column of customers
  status,          \* column of messages, "none" before the row exists
  recent,          \* messages created within the last 24 hours
  request,         \* per message: where its POST /messages is
  entries,         \* the stream: entries that are not acked
  pc, job,         \* per worker: next step of processEntry; the entry in hand
  poller,          \* per poller: what it has in hand
  sweep,           \* per sweeper: next step of its abuse sweep
  dropped,         \* history: messages whose XADD was lost, or whose entry was skipped
  stale,           \* history: who read the state before it last changed, and has yet to act
  decisions, faults

worker == <<pc, job>>
queue == <<entries, poller, dropped>>
vars == <<sending_state, status, recent, request, worker, queue, sweep, stale, decisions, faults>>

States == {"trusted", "new", "limited", "blocked_from_marketing", "blocked_from_sending"}

-----------------------------------------------------------------------------
(* What the state means to those who read it.                              *)

\* Mutant: the API leaves blocking to the worker.
RefusesNobody(state) == FALSE

Refuses(state) == state = "blocked_from_sending"

\* Mutant: marketing mail of a customer blocked from marketing is sent.
BlocksSendingOnly(state, m) == state = "blocked_from_sending"

Blocks(state, m) ==
  \/ state = "blocked_from_sending"
  \/ state = "blocked_from_marketing" /\ m \in Marketing

\* Mutant: every state is swept.
SweepsAll(state) == state \in States

\* Mutant: a new customer is left alone.
SweepsTrusted(state) == state = "trusted"

Sweeps(state) == state \in {"trusted", "new"}

Count(s) == Cardinality({m \in recent : status[m] = s})

Counts == 0..Cardinality(Messages)

\* GetCustomerBounceRate against the threshold: the counts, hard bounced and delivered,
\* whose percentage is above it.  Without either the rate is 0.
TooHigh ==
  {n \in Counts \X Counts : 100 * n[1] > hardBounceThresholdPct * (n[1] + n[2])}

OverThreshold == <<Count("bounced"), Count("delivered")>> \in TooHigh

-----------------------------------------------------------------------------
Actors == ({"request"} \X Messages) \cup ({"send"} \X Workers)
          \cup ({"sweep"} \X Sweepers)

\* Those that have read the state and have yet to act on it.
Informed ==
  {<<"request", m>> : m \in {n \in Messages : request[n] = "checked"}}
  \cup {<<"send", w>> : w \in {v \in Workers : pc[v] = "send"}}
  \cup {<<"sweep", w>> : w \in {v \in Sweepers : sweep[v] # "asleep"}}

Init ==
  /\ sending_state \in States
  /\ status = [m \in Messages |-> "none"] /\ recent = {}
  /\ request = [m \in Messages |-> "new"]
  /\ entries = {} /\ dropped = {}
  /\ pc = [w \in Workers |-> "idle"] /\ job = [w \in Workers |-> None]
  /\ poller = [p \in Pollers |-> None]
  /\ sweep = [w \in Sweepers |-> "asleep"]
  /\ stale = {} /\ decisions = 0 /\ faults = 0

Acted(a) == stale' = stale \ {a}

\* An operator's UPDATE: no handler sets the state.
Decide(state) ==
  /\ decisions < MaxDecisions /\ state # sending_state
  /\ sending_state' = state
  /\ stale' = Informed
  /\ decisions' = decisions + 1
  /\ UNCHANGED <<status, recent, request, worker, queue, sweep, faults>>

\* POST /messages reads the customer in its transaction ...
CheckCustomer(m) ==
  /\ request[m] = "new"
  /\ request' = [request EXCEPT ![m] = IF Refuses(sending_state) THEN "closed" ELSE "checked"]
  /\ UNCHANGED <<sending_state, status, recent, worker, queue, sweep, stale, decisions,
                 faults>>

\* ... and commits the message; the entry is added after the commit.
Accept(m) ==
  /\ request[m] = "checked"
  /\ request' = [request EXCEPT ![m] = "stored"]
  /\ status' = [status EXCEPT ![m] = "queued"]
  /\ recent' = recent \cup {m}
  /\ Acted(<<"request", m>>)
  /\ UNCHANGED <<sending_state, worker, queue, sweep, decisions, faults>>

RollBack(m) ==
  /\ request[m] = "checked" /\ faults < MaxFaults
  /\ faults' = faults + 1
  /\ request' = [request EXCEPT ![m] = "closed"]
  /\ Acted(<<"request", m>>)
  /\ UNCHANGED <<sending_state, status, recent, worker, queue, sweep, decisions>>

\* XADD: an entry that is neither in the stream nor in a worker's hand.  When it fails, or
\* its caller dies before, nobody repeats it.
Add(m) ==
  \/ /\ \E e \in {m} \X (1..MaxEntries) :
          /\ e \notin entries /\ \A w \in Workers : job[w] # e
          /\ entries' = entries \cup {e}
     /\ UNCHANGED <<dropped, faults>>
  \/ /\ faults < MaxFaults /\ faults' = faults + 1
     /\ dropped' = dropped \cup {m} /\ UNCHANGED entries

\* enqueueMessage, whose error POST /messages only logs.
Enqueue(m) ==
  /\ request[m] = "stored"
  /\ request' = [request EXCEPT ![m] = "closed"]
  /\ Add(m)
  /\ UNCHANGED <<sending_state, status, recent, worker, poller, sweep, stale, decisions>>

Terminal == {"delivered", "bounced", "failed", "blocked"}

\* The worker reads an entry, or reclaims one, which may still be in another worker's hand.
\* GetMessageForProcessing finds its message: a terminal one is acked.
LoadMessage(w) ==
  /\ pc[w] = "idle"
  /\ \E e \in entries :
       IF status[e[1]] \in Terminal
         THEN entries' = entries \ {e} /\ UNCHANGED worker
         ELSE /\ job' = [job EXCEPT ![w] = e]
              /\ pc' = [pc EXCEPT ![w] = "gate"]
              /\ UNCHANGED entries
  /\ UNCHANGED <<sending_state, status, recent, request, poller, dropped, sweep, stale,
                 decisions, faults>>

\* A statement of another worker, or MarkQueued, may hold m's row while w selects it.
RowLocked(w, m) ==
  \/ \E v \in Workers \ {w} :
       /\ pc[v] \in {"send", "ack"} \/ (pc[v] = "gate" /\ Blocks(sending_state, m))
       /\ job[v][1] = m
  \/ status[m] = "deferred" /\ (\E p \in Pollers : poller[p] = <<m, "due">>)

\* Of what is left in the stream, an entry of m that nobody has finished with.
Unfinished(m, left) ==
  \E e \in left : e[1] = m /\ \A v \in Workers : job[v] = e => pc[v] # "ack"

\* SKIP LOCKED passes over the row, and the entry is acked unread.  It may have been the
\* one to bring a queued message back.
SkipLocked(w) ==
  /\ pc[w] = "idle"
  /\ \E e \in entries :
       /\ RowLocked(w, e[1])
       /\ entries' = entries \ {e}
       /\ dropped' = IF status[e[1]] = "queued" /\ ~Unfinished(e[1], entries \ {e})
                       THEN dropped \cup {e[1]} ELSE dropped
  /\ UNCHANGED <<sending_state, status, recent, request, worker, poller, sweep, stale,
                 decisions, faults>>

\* Mutant: the entry stays in hand.
KeepJob(w) == pc' = [pc EXCEPT ![w] = "idle"] /\ UNCHANGED job

Drop(w) ==
  /\ pc' = [pc EXCEPT ![w] = "idle"]
  /\ job' = [job EXCEPT ![w] = None]

\* Process has written the status s.
Settle(w, s) ==
  /\ status' = [status EXCEPT ![job[w][1]] = s]
  /\ pc' = [pc EXCEPT ![w] = "ack"] /\ UNCHANGED job

\* Mutant: a blocked message is put off.
WaitOut(w) == Settle(w, "deferred")

\* terminateEvent.
Block(w) == Settle(w, "blocked")

\* GetCustomer and the two abuse gates.
GateOnState(w) ==
  /\ pc[w] = "gate"
  /\ IF Blocks(sending_state, job[w][1])
       THEN Block(w)
       ELSE pc' = [pc EXCEPT ![w] = "send"] /\ UNCHANGED <<status, job>>
  /\ UNCHANGED <<sending_state, recent, request, queue, sweep, stale, decisions, faults>>

\* The attempt: it is delivered, bounces, fails for good, or is deferred.
Send(w) ==
  /\ pc[w] = "send"
  /\ \E s \in {"delivered", "bounced", "failed", "deferred"} : Settle(w, s)
  /\ Acted(<<"send", w>>)
  /\ UNCHANGED <<sending_state, recent, request, queue, sweep, decisions, faults>>

\* Process returns without an error: the entry is acked, and no other of the message.
Ack(w) ==
  /\ pc[w] = "ack"
  /\ entries' = entries \ {job[w]}
  /\ Drop(w)
  /\ UNCHANGED <<sending_state, status, recent, request, poller, dropped, sweep, stale,
                 decisions, faults>>

\* A call of Process or XACK fails, or the worker dies: the entry stays.
Fail(w) ==
  /\ pc[w] # "idle" /\ faults < MaxFaults
  /\ faults' = faults + 1
  /\ Drop(w) /\ Acted(<<"send", w>>)
  /\ UNCHANGED <<sending_state, status, recent, request, queue, sweep, decisions>>

\* runDeferredPoller: GetDeferredMessagesReady ...
Poll(p) ==
  /\ poller[p] = None
  /\ \E m \in Messages :
       /\ status[m] = "deferred"
       /\ poller' = [poller EXCEPT ![p] = <<m, "due">>]
  /\ UNCHANGED <<sending_state, status, recent, request, worker, entries, dropped, sweep, stale,
                 decisions, faults>>

\* ... MarkQueued, which by now may find nothing to mark ...
Mark(p) ==
  /\ poller[p] \in Messages \X {"due"}
  /\ LET m == poller[p][1] IN
       /\ status' = [status EXCEPT ![m] = IF @ = "deferred" THEN "queued" ELSE @]
       /\ poller' = [poller EXCEPT ![p] = <<m, "marked">>]
  /\ UNCHANGED <<sending_state, recent, request, worker, entries, dropped, sweep, stale,
                 decisions, faults>>

\* ... and Enqueue.
Requeue(p) ==
  /\ poller[p] \in Messages \X {"marked"}
  /\ Add(poller[p][1])
  /\ poller' = [poller EXCEPT ![p] = None]
  /\ UNCHANGED <<sending_state, status, recent, request, worker, sweep, stale, decisions>>

\* MarkQueued fails, or the process dies before it: the message is still deferred.
MarkFails(p) ==
  /\ poller[p] \in Messages \X {"due"} /\ faults < MaxFaults
  /\ faults' = faults + 1
  /\ poller' = [poller EXCEPT ![p] = None]
  /\ UNCHANGED <<sending_state, status, recent, request, worker, entries, dropped, sweep, stale,
                 decisions>>

SweepTo(s, step) == sweep' = [sweep EXCEPT ![s] = step]

\* RunAbuseSweep on the worker's ticker: GetCustomerIDs and GetCustomer ...
SweepCustomer(s) ==
  /\ sweep[s] = "asleep"
  /\ Sweeps(sending_state)
  /\ SweepTo(s, "rate")
  /\ UNCHANGED <<sending_state, status, recent, request, worker, queue, stale, decisions, faults>>

\* ... GetCustomerBounceRate ...
SweepRate(s) ==
  /\ sweep[s] = "rate"
  /\ IF OverThreshold
       THEN SweepTo(s, "update") /\ UNCHANGED stale
       ELSE SweepTo(s, "asleep") /\ Acted(<<"sweep", s>>)
  /\ UNCHANGED <<sending_state, status, recent, request, worker, queue, decisions, faults>>

\* ... and UpdateCustomerSendingState, whatever the state is by then.
SweepUpdate(s) ==
  /\ sweep[s] = "update"
  /\ sending_state' = "limited"
  /\ stale' = (IF sending_state = "limited" THEN stale ELSE Informed) \ {<<"sweep", s>>}
  /\ SweepTo(s, "asleep")
  /\ UNCHANGED <<status, recent, request, worker, queue, decisions, faults>>

\* A call of the sweep fails: the customer waits for the next one.
SweepFails(s) ==
  /\ sweep[s] # "asleep" /\ faults < MaxFaults
  /\ faults' = faults + 1
  /\ SweepTo(s, "asleep") /\ Acted(<<"sweep", s>>)
  /\ UNCHANGED <<sending_state, status, recent, request, worker, queue, decisions>>

\* 24 hours pass over a message.
Age(m) ==
  /\ m \in recent
  /\ recent' = recent \ {m}
  /\ UNCHANGED <<sending_state, status, request, worker, queue, sweep, stale, decisions,
                 faults>>

Consume(w) == LoadMessage(w) \/ SkipLocked(w)
Process(w) == GateOnState(w) \/ Send(w) \/ Ack(w)
PollDeferred(p) == Poll(p) \/ Mark(p) \/ Requeue(p)
Sweep(s) == SweepCustomer(s) \/ SweepRate(s) \/ SweepUpdate(s)

Next ==
  \/ \E state \in States : Decide(state)
  \/ \E m \in Messages : CheckCustomer(m) \/ Accept(m) \/ RollBack(m) \/ Enqueue(m) \/ Age(m)
  \/ \E w \in Workers : Consume(w) \/ Process(w) \/ Fail(w)
  \/ \E p \in Pollers : PollDeferred(p) \/ MarkFails(p)
  \/ \E s \in Sweepers : Sweep(s) \/ SweepFails(s)

\* The API goes on to its XADD, workers finish what they took up, their tickers keep firing.
Fairness ==
  /\ \A m \in Messages : WF_vars(Enqueue(m))
  /\ \A w \in Workers : WF_vars(Process(w))
  /\ \A p \in Pollers : WF_vars(PollDeferred(p))
  /\ \A s \in Sweepers : WF_vars(Sweep(s))

Spec == Init /\ [][Next]_vars /\ Fairness

\* Workers get to every entry: they read the new ones in turn, but those that were left
\* pending wait for a spell without new ones, which is no part of Spec.
QuietSpells == \A w \in Workers : WF_vars(LoadMessage(w))

-----------------------------------------------------------------------------
(* Properties.                                                             *)

\* Every variable has its type, and a worker has an entry exactly when it is not idle.
TypeOK ==
  /\ sending_state \in States
  /\ status \in [Messages ->
       Terminal \cup {"none", "queued", "deferred"}]
  /\ recent \subseteq {m \in Messages : status[m] # "none"}
  /\ request \in [Messages -> {"new", "checked", "stored", "closed"}]
  /\ entries \subseteq Entries /\ dropped \subseteq Messages
  /\ pc \in [Workers -> {"idle", "gate", "send", "ack"}]
  /\ job \in [Workers -> Entries \cup {None}]
  /\ \A w \in Workers : job[w] = None <=> pc[w] = "idle"
  /\ poller \in [Pollers -> Requeues \cup {None}]
  /\ sweep \in [Sweepers -> {"asleep", "rate", "update"}]
  /\ stale \subseteq Informed
  /\ decisions \in 0..MaxDecisions /\ faults \in 0..MaxFaults

Blocked == {"blocked_from_marketing", "blocked_from_sending"}

\* Only a sweep that read the customer before the operator blocked it can replace the
\* block with limited: no later sweep touches it, however many workers run one.
BlockStands ==
  [][sending_state' # sending_state /\ sending_state \in Blocked /\ decisions' = decisions =>
       \E s \in Sweepers : sweep[s] = "update" /\ <<"sweep", s>> \in stale]_vars

\* What the states promise: a block from sending stops all mail, one from marketing
\* the marketing mail.
Stopped ==
  CASE sending_state = "blocked_from_sending" -> Messages
    [] sending_state = "blocked_from_marketing" -> Marketing
    [] OTHER -> {}

\* Once a customer is blocked, a worker only makes the attempts it had already let
\* through its gate: messages accepted, deferred or reclaimed earlier do not slip by.
SendsStop ==
  [][\A w \in Workers :
       pc[w] = "send" /\ pc'[w] = "ack" /\ job[w][1] \in Stopped =>
         <<"send", w>> \in stale]_vars

\* Once a customer is blocked from sending, only requests that had already been checked
\* still create messages.
AdmissionsStop ==
  [][\A m \in Messages :
       status[m] = "none" /\ status'[m] = "queued" /\ sending_state = "blocked_from_sending" =>
         <<"request", m>> \in stale]_vars

\* A trusted or new customer whose 24h bounce rate stays over the threshold does not
\* stay trusted or new.
OverThresholdIsLimited ==
  []<>~(sending_state \in {"trusted", "new"} /\ OverThreshold)

\* A customer that stays blocked from sending is left with no message to be sent: each is
\* ended as blocked, not retried for ever, but for those the stream has lost.
BlockedDrains ==
  QuietSpells =>
    \A m \in Messages :
      <>[](sending_state = "blocked_from_sending") =>
        <>[](status[m] \notin {"queued", "deferred"} \/ m \in dropped)
=============================================================================
