------------------------- MODULE SingleWorkerProofs -------------------------
(***************************************************************************)
(* What one worker process keeps, for any number of messages, attempts and *)
(* faults: its consumer, its poller, the API and every failure interleave, *)
(* but nobody else consumes the stream.  With a second worker each of      *)
(* these theorems fails.                                                   *)
(***************************************************************************)
EXTENDS DeliveryEngineProofs

\* The deployed configuration: docker-compose.yml starts one worker.
OneWorker == \A v, w \in Workers : v = w

-----------------------------------------------------------------------------
(* No recipient is sent to once suppressed.                                *)

\* From the suppression gate up to the row of the attempt.
SendingPCs == {"route", "capacity", "mark_sending", "sending_event", "attempt_row"}

\* A message past the gate is still cleared: what the gate read is not stale.
ClearedToSend ==
  \A w \in Workers :
    pc[w] \in SendingPCs => RecipientOf[job[w].msg] \notin suppression_list

LEMMA ClearedNext ==
  OneWorker /\ TypeInv /\ ClearedToSend /\ [Next]_vars => ClearedToSend'
<1> SUFFICES ASSUME OneWorker, TypeInv, ClearedToSend, [Next]_vars PROVE ClearedToSend'
  OBVIOUS
<1>0. ConsumerTypeOK
  BY DEF TypeInv, TypeOK
<1> USE DEF ClearedToSend, SendingPCs, ConsumerTypeOK, Jobs
<1>1. ASSUME NEW m \in Messages, Accept(m) PROVE ClearedToSend'
  BY <1>1, <1>0 DEF Accept, consumerVars
<1>2. ASSUME NEW m \in Messages, ApiEnqueue(m) PROVE ClearedToSend'
  BY <1>2, <1>0 DEF ApiEnqueue, consumerVars, dbVars
<1>3. ASSUME NEW m \in Messages, ApiEnqueueFails(m) PROVE ClearedToSend'
  BY <1>3, <1>0 DEF ApiEnqueueFails, consumerVars, dbVars
<1>4. ASSUME NEW m \in Messages, BackoffElapses(m) PROVE ClearedToSend'
  BY <1>4, <1>0 DEF BackoffElapses, consumerVars
<1>5. ASSUME NEW e \in pel, EntryIdles(e) PROVE ClearedToSend'
  BY <1>5, <1>0 DEF EntryIdles, consumerVars, dbVars
<1>6. ASSUME NEW w \in Workers, EnsureGroup(w) PROVE ClearedToSend'
  BY <1>6, <1>0 DEF EnsureGroup, Goto, dbVars
<1>7. ASSUME NEW w \in Workers, Reclaim(w) PROVE ClearedToSend'
  BY <1>7, <1>0 DEF Reclaim, Goto, dbVars
<1>8. ASSUME NEW w \in Workers, ReclaimFails(w) PROVE ClearedToSend'
  BY <1>8, <1>0 DEF ReclaimFails, Goto, dbVars
<1>9. ASSUME NEW w \in Workers, Read(w) PROVE ClearedToSend'
  BY <1>9, <1>0 DEF Read, Goto, AfterIdleRead, dbVars
<1>10. ASSUME NEW w \in Workers, Load(w) PROVE ClearedToSend'
  BY <1>10, <1>0 DEF Load, Skip, Goto, dbVars
<1>11. ASSUME NEW w \in Workers, GetCustomer(w) PROVE ClearedToSend'
  BY <1>11, <1>0 DEF GetCustomer, Decide, Goto, dbVars
<1>12. ASSUME NEW w \in Workers, IsSuppressed(w) PROVE ClearedToSend'
  BY <1>12, <1>0 DEF IsSuppressed, Decide, Goto, dbVars, Suppressed
<1>13. ASSUME NEW w \in Workers, SelectRoute(w) PROVE ClearedToSend'
  BY <1>13, <1>0 DEF SelectRoute, Decide, Goto, dbVars
<1>14. ASSUME NEW w \in Workers, CheckCapacity(w) PROVE ClearedToSend'
  BY <1>14, <1>0 DEF CheckCapacity, Decide, Goto, dbVars
<1>15. ASSUME NEW w \in Workers, MarkSending(w) PROVE ClearedToSend'
  BY <1>15, <1>0 DEF MarkSending, Goto, UpdateMessageStatus
<1>16. ASSUME NEW w \in Workers, WriteSendingEvent(w) PROVE ClearedToSend'
  BY <1>16, <1>0 DEF WriteSendingEvent, WriteEvent, Goto
<1>17. ASSUME NEW w \in Workers, WriteDeliveryAttempt(w) PROVE ClearedToSend'
  BY <1>17, <1>0 DEF WriteDeliveryAttempt, Decide, Goto, AfterAttempt
<1>18. ASSUME NEW w \in Workers, AddSuppression(w) PROVE ClearedToSend'
  BY <1>0, <1>18 DEF AddSuppression, Goto, OneWorker
<1>19. ASSUME NEW w \in Workers, UpdateStatus(w) PROVE ClearedToSend'
  BY <1>19, <1>0 DEF UpdateStatus, Goto, UpdateMessageStatus
<1>20. ASSUME NEW w \in Workers, WriteDecisionEvent(w) PROVE ClearedToSend'
  BY <1>20, <1>0 DEF WriteDecisionEvent, WriteEvent, Goto
<1>21. ASSUME NEW w \in Workers, WriteRetryEvent(w) PROVE ClearedToSend'
  BY <1>21, <1>0 DEF WriteRetryEvent, WriteEvent, Goto
<1>22. ASSUME NEW w \in Workers, Ack(w) PROVE ClearedToSend'
  BY <1>22, <1>0 DEF Ack, EndOfEntry, Goto, dbVars
<1>23. ASSUME NEW w \in Workers, LoadFails(w) PROVE ClearedToSend'
  BY <1>23, <1>0 DEF LoadFails, dbVars
<1>24. ASSUME NEW w \in Workers, SelectRouteFails(w) PROVE ClearedToSend'
  BY <1>24, <1>0 DEF SelectRouteFails, Decide, Goto, dbVars
<1>25. ASSUME NEW w \in Workers, ProcessFails(w) PROVE ClearedToSend'
  BY <1>25, <1>0 DEF ProcessFails, EndOfEntry, Goto, dbVars
<1>26. ASSUME NEW w \in Workers, Crash(w) PROVE ClearedToSend'
  BY <1>26, <1>0 DEF Crash, Goto, dbVars
<1>27. ASSUME NEW w \in Workers, PollTick(w) PROVE ClearedToSend'
  BY <1>27, <1>0 DEF PollTick, consumerVars, dbVars
<1>28. ASSUME NEW w \in Workers, PollMark(w) PROVE ClearedToSend'
  BY <1>28, <1>0 DEF PollMark, consumerVars, MarkQueued
<1>29. ASSUME NEW w \in Workers, PollMarkFails(w) PROVE ClearedToSend'
  BY <1>29, <1>0 DEF PollMarkFails, consumerVars, MarkQueued, dbVars
<1>30. ASSUME NEW w \in Workers, PollEnqueue(w) PROVE ClearedToSend'
  BY <1>30, <1>0 DEF PollEnqueue, consumerVars, dbVars
<1>31. ASSUME NEW w \in Workers, PollEnqueueFails(w) PROVE ClearedToSend'
  BY <1>31, <1>0 DEF PollEnqueueFails, consumerVars, dbVars
<1>32. CASE UNCHANGED vars
  BY <1>32 DEF vars, dbVars, consumerVars
<1> QED
  BY <1>1, <1>2, <1>3, <1>4, <1>5, <1>6, <1>7, <1>8, <1>9, <1>10, <1>11, <1>12, <1>13,
     <1>14, <1>15, <1>16, <1>17, <1>18, <1>19, <1>20, <1>21, <1>22, <1>23, <1>24, <1>25,
     <1>26, <1>27, <1>28, <1>29, <1>30, <1>31, <1>32
     DEF Next, Consume, Poll, Fail, vars

\* A worker that consults the suppression list never writes an attempt for a recipient
\* on it: between IsSuppressed and the attempt nobody else can suppress.
THEOREM SuppressedAreNotSentTo ==
  ASSUME OneWorker PROVE Spec => NoSendToSuppressed
<1>1. Init => ClearedToSend
  BY DEF Init, ClearedToSend, SendingPCs
<1>2. TypeInv /\ ClearedToSend /\ [Next]_vars =>
        [\A m \in Messages : RecipientOf[m] \in suppression_list
             => delivery_attempts'[m] = delivery_attempts[m]]_vars
  <2> SUFFICES ASSUME TypeInv, ClearedToSend, [Next]_vars, NEW m \in Messages,
                      RecipientOf[m] \in suppression_list
               PROVE  delivery_attempts'[m] = delivery_attempts[m]
    OBVIOUS
  <2>1. CASE UNCHANGED delivery_attempts
    BY <2>1
  <2>2. ASSUME NEW w \in Workers, WriteDeliveryAttempt(w)
        PROVE  delivery_attempts'[m] = delivery_attempts[m]
    <3>1. job[w].msg # m
      BY <2>2 DEF WriteDeliveryAttempt, ClearedToSend, SendingPCs
    <3> QED
      BY <2>2, <3>1 DEF WriteDeliveryAttempt, TypeInv, TypeOK, DbTypeOK
  <2> QED
    BY <2>1, <2>2, TableSteps DEF TableStep
<1> QED
  BY <1>1, <1>2, ClearedNext, TypeInvariant, PTL DEF Spec, NoSendToSuppressed
-----------------------------------------------------------------------------
(* Nothing is stranded.                                                    *)

\* What the consumer has yet to process is pending, and the entry in hand is pending,
\* not in the batch any more, and names the message in hand.
EntriesHeld ==
  \A w \in Workers :
    /\ batch[w] \subseteq pel
    /\ pc[w] \in WorkingPCs =>
         /\ job[w].entry \in pel \ batch[w]
         /\ stream[job[w].entry] = job[w].msg

\* A consumer that only moves on, with or without a decision, holds what it held.
LEMMA HandKept ==
  ASSUME TypeInv, EntriesHeld, NEW w \in Workers, pc[w] \in WorkingPCs,
         UNCHANGED <<batch, queueVars>>, NEW d, NEW p,
         (Goto(w, p) /\ UNCHANGED job) \/ Decide(w, d, p)
  PROVE  EntriesHeld'
<1>0. ConsumerTypeOK
  BY DEF TypeInv, TypeOK
<1>1. \A v \in Workers : job'[v].entry = job[v].entry /\ job'[v].msg = job[v].msg
  BY <1>0 DEF Decide, ConsumerTypeOK, Jobs
<1>2. \A v \in Workers : pc'[v] \in WorkingPCs => pc[v] \in WorkingPCs
  BY <1>0 DEF Goto, Decide, ConsumerTypeOK
<1> QED
  BY <1>1, <1>2 DEF EntriesHeld, queueVars

LEMMA EntriesHeldNext ==
  OneWorker /\ TypeInv /\ EntriesHeld /\ [Next]_vars => EntriesHeld'
<1> SUFFICES ASSUME OneWorker, TypeInv, EntriesHeld, [Next]_vars PROVE EntriesHeld'
  OBVIOUS
<1>0. ConsumerTypeOK /\ QueueTypeOK /\ PollerTypeOK /\ WorkOK
  BY DEF TypeInv, TypeOK
<1> USE DEF EntriesHeld, WorkingPCs, ConsumerTypeOK, QueueTypeOK, Jobs
<1>1. ASSUME NEW m \in Messages, Accept(m) PROVE EntriesHeld'
  BY <1>1, <1>0 DEF Accept, consumerVars, queueVars
<1>2. ASSUME NEW m \in Messages, ApiEnqueue(m) PROVE EntriesHeld'
  BY <1>2, <1>0 DEF ApiEnqueue, consumerVars, Enqueue
<1>3. ASSUME NEW m \in Messages, ApiEnqueueFails(m) PROVE EntriesHeld'
  BY <1>3, <1>0 DEF ApiEnqueueFails, consumerVars, queueVars
<1>4. ASSUME NEW m \in Messages, BackoffElapses(m) PROVE EntriesHeld'
  BY <1>4, <1>0 DEF BackoffElapses, consumerVars, queueVars
<1>5. ASSUME NEW e \in pel, EntryIdles(e) PROVE EntriesHeld'
  BY <1>5, <1>0 DEF EntryIdles, consumerVars
<1>6. ASSUME NEW w \in Workers, EnsureGroup(w) PROVE EntriesHeld'
  BY <1>6, <1>0 DEF EnsureGroup, Goto, OneWorker
<1>7. ASSUME NEW w \in Workers, Reclaim(w) PROVE EntriesHeld'
  BY <1>7, <1>0 DEF Reclaim, Goto, Lowest, OneWorker
<1>8. ASSUME NEW w \in Workers, ReclaimFails(w) PROVE EntriesHeld'
  BY <1>8, <1>0 DEF ReclaimFails, Goto, queueVars
<1>9. ASSUME NEW w \in Workers, Read(w) PROVE EntriesHeld'
  BY <1>0, <1>9, LastReadBounds DEF Read, Goto, AfterIdleRead, OneWorker
<1>10. ASSUME NEW w \in Workers, Load(w) PROVE EntriesHeld'
  BY <1>10, <1>0 DEF Load, Skip, Goto, queueVars, OneWorker
<1>11. ASSUME NEW w \in Workers, GetCustomer(w) PROVE EntriesHeld'
  BY <1>11, <1>0, HandKept DEF GetCustomer, queueVars
<1>12. ASSUME NEW w \in Workers, IsSuppressed(w) PROVE EntriesHeld'
  BY <1>12, <1>0, HandKept DEF IsSuppressed, queueVars
<1>13. ASSUME NEW w \in Workers, SelectRoute(w) PROVE EntriesHeld'
  BY <1>13, <1>0, HandKept DEF SelectRoute, queueVars
<1>14. ASSUME NEW w \in Workers, CheckCapacity(w) PROVE EntriesHeld'
  BY <1>14, <1>0 DEF CheckCapacity, Decide, Goto, queueVars
<1>15. ASSUME NEW w \in Workers, MarkSending(w) PROVE EntriesHeld'
  BY <1>15, <1>0 DEF MarkSending, Goto, queueVars
<1>16. ASSUME NEW w \in Workers, WriteSendingEvent(w) PROVE EntriesHeld'
  BY <1>16, <1>0 DEF WriteSendingEvent, WriteEvent, Goto, queueVars
<1>17. ASSUME NEW w \in Workers, WriteDeliveryAttempt(w) PROVE EntriesHeld'
  BY <1>17, <1>0 DEF WriteDeliveryAttempt, Decide, Goto, queueVars, AfterAttempt
<1>18. ASSUME NEW w \in Workers, AddSuppression(w) PROVE EntriesHeld'
  BY <1>18, <1>0 DEF AddSuppression, Goto, queueVars
<1>19. ASSUME NEW w \in Workers, UpdateStatus(w) PROVE EntriesHeld'
  BY <1>19, <1>0 DEF UpdateStatus, Goto, queueVars
<1>20. ASSUME NEW w \in Workers, WriteDecisionEvent(w) PROVE EntriesHeld'
  BY <1>20, <1>0 DEF WriteDecisionEvent, WriteEvent, Goto, queueVars
<1>21. ASSUME NEW w \in Workers, WriteRetryEvent(w) PROVE EntriesHeld'
  BY <1>21, <1>0 DEF WriteRetryEvent, WriteEvent, Goto, queueVars
<1>22. ASSUME NEW w \in Workers, Ack(w) PROVE EntriesHeld'
  BY <1>22, <1>0 DEF Ack, EndOfEntry, Goto, NoJob, OneWorker
<1>23. ASSUME NEW w \in Workers, LoadFails(w) PROVE EntriesHeld'
  BY <1>23, <1>0 DEF LoadFails, queueVars, OneWorker
<1>24. ASSUME NEW w \in Workers, SelectRouteFails(w) PROVE EntriesHeld'
  BY <1>24, <1>0 DEF SelectRouteFails, Decide, Goto, queueVars
<1>25. ASSUME NEW w \in Workers, ProcessFails(w) PROVE EntriesHeld'
  BY <1>25, <1>0 DEF ProcessFails, EndOfEntry, Goto, PendingAfterError, NoJob, OneWorker
<1>26. ASSUME NEW w \in Workers, Crash(w) PROVE EntriesHeld'
  BY <1>26, <1>0 DEF Crash, Goto, queueVars, NoJob, OneWorker
<1>27. ASSUME NEW w \in Workers, PollTick(w) PROVE EntriesHeld'
  BY <1>27, <1>0 DEF PollTick, consumerVars, queueVars
<1>28. ASSUME NEW w \in Workers, PollMark(w) PROVE EntriesHeld'
  BY <1>28, <1>0 DEF PollMark, consumerVars, queueVars
<1>29. ASSUME NEW w \in Workers, PollMarkFails(w) PROVE EntriesHeld'
  BY <1>29, <1>0 DEF PollMarkFails, consumerVars, queueVars
<1>30. ASSUME NEW w \in Workers, PollEnqueue(w) PROVE EntriesHeld'
  BY <1>30, <1>0 DEF PollEnqueue, consumerVars, Enqueue, PollerTypeOK
<1>31. ASSUME NEW w \in Workers, PollEnqueueFails(w) PROVE EntriesHeld'
  BY <1>31, <1>0 DEF PollEnqueueFails, consumerVars, queueVars
<1>32. CASE UNCHANGED vars
  BY <1>32 DEF vars, queueVars, consumerVars
<1> QED
  BY <1>1, <1>2, <1>3, <1>4, <1>5, <1>6, <1>7, <1>8, <1>9, <1>10, <1>11, <1>12, <1>13,
     <1>14, <1>15, <1>16, <1>17, <1>18, <1>19, <1>20, <1>21, <1>22, <1>23, <1>24, <1>25,
     <1>26, <1>27, <1>28, <1>29, <1>30, <1>31, <1>32
     DEF Next, Consume, Poll, Fail, vars

\* m can be reached without the help of entry e, or one of its entries was lost.
ReachedBeside(m, e) ==
  \/ status[m] = "deferred"
  \/ \E f \in Entries \ {e} : stream[f] = m /\ (f > cursor \/ f \in pel)
  \/ m \in owed
  \/ \E w \in Workers : marked[w] = m
  \/ m \in dropped

\* Beside no entry at all: what NothingStranded asks for.
LEMMA ReachedMeans ==
  ASSUME QueueTypeOK, NEW m \in Messages
  PROVE  ReachedBeside(m, 0) <=> InReach(m) \/ m \in dropped
BY DEF ReachedBeside, InReach, Entries, QueueTypeOK

\* Once the decision is stored, the message no longer depends on the entry in hand,
\* which is about to be acked.
DoneIsReached ==
  \A w \in Workers :
    pc[w] \in {"event", "retry_event", "ack"} /\ Live(job[w].msg)
      => ReachedBeside(job[w].msg, job[w].entry)

\* An XADD brings its message in reach, beside any entry delivered before, and takes no
\* other message out of reach.
LEMMA EnqueueReaches ==
  ASSUME QueueTypeOK, NEW n \in Messages, NEW e \in 0..cursor, Enqueue(n)
  PROVE  /\ UNCHANGED <<cursor, pel>>
         /\ \A f \in Entries : f \in Entries' /\ stream'[f] = stream[f]
         /\ \E f \in Entries' \ {e} : stream'[f] = n /\ f > cursor'
<1>1. /\ Len(stream) \in Nat /\ stream' = Append(stream, n)
      /\ UNCHANGED <<cursor, pel>>
  BY DEF Enqueue, QueueTypeOK
<1>2. /\ Len(stream') = Len(stream) + 1 /\ stream'[Len(stream) + 1] = n
      /\ \A f \in 1..Len(stream) : stream'[f] = stream[f]
  BY <1>1 DEF QueueTypeOK
<1>3. Len(stream) + 1 \in Entries' \ {e} /\ Len(stream) + 1 > cursor'
  BY <1>1, <1>2 DEF Entries, QueueTypeOK
<1> QED
  BY <1>1, <1>2, <1>3 DEF Entries

\* Only the worker that has m in hand takes away what m can be reached by: when it
\* writes the status, and when it acks.
LEMMA ReachKept ==
  ASSUME TypeInv, EntriesHeld, [Next]_vars,
         NEW m \in Messages, NEW e \in 0..cursor, ReachedBeside(m, e),
         \A w \in Workers :
           MarkSending(w) \/ UpdateStatus(w) \/ Ack(w) => job[w].msg # m
  PROVE  ReachedBeside(m, e)'
<1>0. DbTypeOK /\ ConsumerTypeOK /\ QueueTypeOK /\ PollerTypeOK /\ WorkOK
  BY DEF TypeInv, TypeOK
<1> USE DEF ReachedBeside, Entries, DbTypeOK, QueueTypeOK, PollerTypeOK
<1>1. ASSUME NEW n \in Messages, Accept(n) PROVE ReachedBeside(m, e)'
  BY <1>1, <1>0 DEF Accept, queueVars, pollerVars, historyVars
<1>2. ASSUME NEW n \in Messages, ApiEnqueue(n) PROVE ReachedBeside(m, e)'
  <2>1. Enqueue(n) /\ owed' = owed \ {n} /\ UNCHANGED <<status, marked, dropped>>
    BY <1>2 DEF ApiEnqueue, dbVars, pollerVars, historyVars
  <2>2. CASE \E g \in Entries \ {e} : stream[g] = m /\ (g > cursor \/ g \in pel)
    <3>1. PICK g \in Entries \ {e} : stream[g] = m /\ (g > cursor \/ g \in pel)
      BY <2>2
    <3>2. g \in Entries' \ {e} /\ stream'[g] = m /\ (g > cursor' \/ g \in pel')
      BY <1>0, <2>1, <3>1, EnqueueReaches
    <3> QED
      BY <3>2
  <2> QED
    BY <1>0, <2>1, <2>2, EnqueueReaches
<1>3. ASSUME NEW n \in Messages, ApiEnqueueFails(n) PROVE ReachedBeside(m, e)'
  BY <1>3, <1>0 DEF ApiEnqueueFails, dbVars, queueVars, pollerVars
<1>4. ASSUME NEW n \in Messages, BackoffElapses(n) PROVE ReachedBeside(m, e)'
  BY <1>4, <1>0 DEF BackoffElapses, queueVars, pollerVars, historyVars
<1>5. ASSUME NEW f \in pel, EntryIdles(f) PROVE ReachedBeside(m, e)'
  BY <1>5, <1>0 DEF EntryIdles, dbVars, pollerVars, historyVars
<1>6. ASSUME NEW w \in Workers, EnsureGroup(w) PROVE ReachedBeside(m, e)'
  BY <1>6, <1>0 DEF EnsureGroup, dbVars, pollerVars
<1>7. ASSUME NEW w \in Workers, Reclaim(w) PROVE ReachedBeside(m, e)'
  BY <1>7, <1>0 DEF Reclaim, dbVars, pollerVars, historyVars
<1>8. ASSUME NEW w \in Workers, ReclaimFails(w) PROVE ReachedBeside(m, e)'
  BY <1>8, <1>0 DEF ReclaimFails, dbVars, queueVars, pollerVars, historyVars
<1>9. ASSUME NEW w \in Workers, Read(w) PROVE ReachedBeside(m, e)'
  <2>1. /\ pel \subseteq pel' /\ UNCHANGED <<stream, status, owed, marked, dropped>>
        /\ \A g \in Entries : g > cursor => g > cursor' \/ g \in pel'
    <3>1. UNCHANGED <<stream, status, owed, marked, dropped>>
      BY <1>9 DEF Read, dbVars, pollerVars, historyVars
    <3>2. CASE cursor = Len(stream)
      BY <1>0, <1>9, <3>1, <3>2 DEF Read
    <3>3. CASE cursor # Len(stream)
      <4>1. cursor' = LastRead /\ pel' = pel \cup (cursor + 1 .. LastRead)
        BY <1>9, <3>3 DEF Read
      <4>2. LastRead \in Nat /\ cursor \in Nat /\ Len(stream) \in Nat
        BY <1>0, LastReadBounds
      <4> QED
        BY <3>1, <4>1, <4>2
    <3> QED
      BY <3>2, <3>3
  <2> QED
    BY <1>0, <2>1
<1>10. ASSUME NEW w \in Workers, Load(w) PROVE ReachedBeside(m, e)'
  BY <1>10, <1>0 DEF Load, Skip, dbVars, queueVars, pollerVars
<1>11. ASSUME NEW w \in Workers, GetCustomer(w) PROVE ReachedBeside(m, e)'
  BY <1>11, <1>0 DEF GetCustomer, dbVars, queueVars, pollerVars, historyVars
<1>12. ASSUME NEW w \in Workers, IsSuppressed(w) PROVE ReachedBeside(m, e)'
  BY <1>12, <1>0 DEF IsSuppressed, dbVars, queueVars, pollerVars, historyVars
<1>13. ASSUME NEW w \in Workers, SelectRoute(w) PROVE ReachedBeside(m, e)'
  BY <1>13, <1>0 DEF SelectRoute, dbVars, queueVars, pollerVars, historyVars
<1>14. ASSUME NEW w \in Workers, CheckCapacity(w) PROVE ReachedBeside(m, e)'
  BY <1>14, <1>0 DEF CheckCapacity, dbVars, queueVars, pollerVars, historyVars
<1>15. ASSUME NEW w \in Workers, MarkSending(w) PROVE ReachedBeside(m, e)'
  BY <1>15, <1>0
     DEF MarkSending, UpdateMessageStatus, queueVars, ConsumerTypeOK, Jobs, pollerVars,
         historyVars
<1>16. ASSUME NEW w \in Workers, WriteSendingEvent(w) PROVE ReachedBeside(m, e)'
  BY <1>16, <1>0 DEF WriteSendingEvent, WriteEvent, queueVars, pollerVars, historyVars
<1>17. ASSUME NEW w \in Workers, WriteDeliveryAttempt(w) PROVE ReachedBeside(m, e)'
  BY <1>17, <1>0 DEF WriteDeliveryAttempt, queueVars, pollerVars, historyVars
<1>18. ASSUME NEW w \in Workers, AddSuppression(w) PROVE ReachedBeside(m, e)'
  BY <1>18, <1>0 DEF AddSuppression, queueVars, pollerVars, historyVars
<1>19. ASSUME NEW w \in Workers, UpdateStatus(w) PROVE ReachedBeside(m, e)'
  BY <1>19, <1>0
     DEF UpdateStatus, UpdateMessageStatus, queueVars, ConsumerTypeOK, Jobs, pollerVars,
         historyVars
<1>20. ASSUME NEW w \in Workers, WriteDecisionEvent(w) PROVE ReachedBeside(m, e)'
  BY <1>20, <1>0 DEF WriteDecisionEvent, WriteEvent, queueVars, pollerVars, historyVars
<1>21. ASSUME NEW w \in Workers, WriteRetryEvent(w) PROVE ReachedBeside(m, e)'
  BY <1>21, <1>0 DEF WriteRetryEvent, WriteEvent, queueVars, pollerVars, historyVars
<1>22. ASSUME NEW w \in Workers, Ack(w) PROVE ReachedBeside(m, e)'
  BY <1>22, <1>0
     DEF Ack, dbVars, EntriesHeld, WorkingPCs, ConsumerTypeOK, Jobs, pollerVars,
         historyVars
<1>23. ASSUME NEW w \in Workers, LoadFails(w) PROVE ReachedBeside(m, e)'
  BY <1>23, <1>0 DEF LoadFails, dbVars, queueVars, pollerVars, historyVars
<1>24. ASSUME NEW w \in Workers, SelectRouteFails(w) PROVE ReachedBeside(m, e)'
  BY <1>24, <1>0 DEF SelectRouteFails, dbVars, queueVars, pollerVars, historyVars
<1>25. ASSUME NEW w \in Workers, ProcessFails(w) PROVE ReachedBeside(m, e)'
  BY <1>25, <1>0 DEF ProcessFails, dbVars, PendingAfterError, pollerVars
<1>26. ASSUME NEW w \in Workers, Crash(w) PROVE ReachedBeside(m, e)'
  BY <1>26, <1>0 DEF Crash, dbVars, queueVars
<1>27. ASSUME NEW w \in Workers, PollTick(w) PROVE ReachedBeside(m, e)'
  BY <1>27, <1>0 DEF PollTick, dbVars, queueVars, historyVars
<1>28. ASSUME NEW w \in Workers, PollMark(w) PROVE ReachedBeside(m, e)'
  <2>1. PICK n \in Messages :
          MarkQueued(n) /\ marked[w] = None /\ marked' = [marked EXCEPT ![w] = n]
    BY <1>0, <1>28 DEF PollMark
  <2>2. UNCHANGED <<stream, cursor, pel, owed, dropped>>
    BY <1>28 DEF PollMark, queueVars, historyVars
  <2> QED
    BY <1>0, <2>1, <2>2, ConstantsAssumption DEF MarkQueued
<1>29. ASSUME NEW w \in Workers, PollMarkFails(w) PROVE ReachedBeside(m, e)'
  BY <1>29, <1>0 DEF PollMarkFails, MarkQueued, dbVars, queueVars
<1>30. ASSUME NEW w \in Workers, PollEnqueue(w) PROVE ReachedBeside(m, e)'
  <2>1. /\ marked[w] \in Messages /\ Enqueue(marked[w])
        /\ marked' = [marked EXCEPT ![w] = None] /\ UNCHANGED <<status, owed, dropped>>
    BY <1>0, <1>30 DEF PollEnqueue, dbVars, historyVars
  <2>2. CASE \E g \in Entries \ {e} : stream[g] = m /\ (g > cursor \/ g \in pel)
    <3>1. PICK g \in Entries \ {e} : stream[g] = m /\ (g > cursor \/ g \in pel)
      BY <2>2
    <3>2. g \in Entries' \ {e} /\ stream'[g] = m /\ (g > cursor' \/ g \in pel')
      BY <1>0, <2>1, <3>1, EnqueueReaches
    <3> QED
      BY <3>2
  <2> QED
    BY <1>0, <2>1, <2>2, EnqueueReaches
<1>31. ASSUME NEW w \in Workers, PollEnqueueFails(w) PROVE ReachedBeside(m, e)'
  BY <1>31, <1>0 DEF PollEnqueueFails, dbVars, queueVars
<1>32. CASE UNCHANGED vars
  BY <1>32 DEF vars, dbVars, queueVars, pollerVars, historyVars
<1> QED
  BY <1>1, <1>2, <1>3, <1>4, <1>5, <1>6, <1>7, <1>8, <1>9, <1>10, <1>11, <1>12, <1>13,
     <1>14, <1>15, <1>16, <1>17, <1>18, <1>19, <1>20, <1>21, <1>22, <1>23, <1>24, <1>25,
     <1>26, <1>27, <1>28, <1>29, <1>30, <1>31, <1>32
     DEF Next, Consume, Poll, Fail, vars

\* A consumer gets past its decision by storing it, or by loading a row it has nothing
\* to do for.
DoneStep(w) ==
  pc'[w] \in {"event", "retry_event", "ack"} =>
    \/ pc[w] \in {"event", "retry_event", "ack"} /\ job'[w] = job[w]
    \/ UpdateStatus(w) \/ Load(w)

LEMMA DoneSteps ==
  ASSUME TypeInv, [Next]_vars, NEW v \in Workers PROVE DoneStep(v)
<1>0. ConsumerTypeOK
  BY DEF TypeInv, TypeOK
<1> USE DEF DoneStep, ConsumerTypeOK
<1>1. ASSUME NEW m \in Messages, Accept(m) PROVE DoneStep(v)
  BY <1>1, <1>0 DEF Accept, consumerVars
<1>2. ASSUME NEW m \in Messages, ApiEnqueue(m) PROVE DoneStep(v)
  BY <1>2, <1>0 DEF ApiEnqueue, consumerVars
<1>3. ASSUME NEW m \in Messages, ApiEnqueueFails(m) PROVE DoneStep(v)
  BY <1>3, <1>0 DEF ApiEnqueueFails, consumerVars
<1>4. ASSUME NEW m \in Messages, BackoffElapses(m) PROVE DoneStep(v)
  BY <1>4, <1>0 DEF BackoffElapses, consumerVars
<1>5. ASSUME NEW e \in pel, EntryIdles(e) PROVE DoneStep(v)
  BY <1>5, <1>0 DEF EntryIdles, consumerVars
<1>6. ASSUME NEW w \in Workers, EnsureGroup(w) PROVE DoneStep(v)
  BY <1>6, <1>0 DEF EnsureGroup, Goto
<1>7. ASSUME NEW w \in Workers, Reclaim(w) PROVE DoneStep(v)
  BY <1>7, <1>0 DEF Reclaim, Goto
<1>8. ASSUME NEW w \in Workers, ReclaimFails(w) PROVE DoneStep(v)
  BY <1>8, <1>0 DEF ReclaimFails, Goto
<1>9. ASSUME NEW w \in Workers, Read(w) PROVE DoneStep(v)
  BY <1>9, <1>0 DEF Read, Goto, AfterIdleRead
<1>10. ASSUME NEW w \in Workers, Load(w) PROVE DoneStep(v)
  <2>1. CASE v = w
    BY <1>10, <2>1
  <2>2. CASE v # w
    BY <1>0, <1>10, <2>2 DEF Load, Skip, Goto
  <2> QED
    BY <2>1, <2>2
<1>11. ASSUME NEW w \in Workers, GetCustomer(w) PROVE DoneStep(v)
  BY <1>11, <1>0 DEF GetCustomer, Decide, Goto
<1>12. ASSUME NEW w \in Workers, IsSuppressed(w) PROVE DoneStep(v)
  BY <1>12, <1>0 DEF IsSuppressed, Decide, Goto
<1>13. ASSUME NEW w \in Workers, SelectRoute(w) PROVE DoneStep(v)
  BY <1>13, <1>0 DEF SelectRoute, Decide, Goto
<1>14. ASSUME NEW w \in Workers, CheckCapacity(w) PROVE DoneStep(v)
  BY <1>14, <1>0 DEF CheckCapacity, Decide, Goto
<1>15. ASSUME NEW w \in Workers, MarkSending(w) PROVE DoneStep(v)
  BY <1>15, <1>0 DEF MarkSending, Goto
<1>16. ASSUME NEW w \in Workers, WriteSendingEvent(w) PROVE DoneStep(v)
  BY <1>16, <1>0 DEF WriteSendingEvent, WriteEvent, Goto
<1>17. ASSUME NEW w \in Workers, WriteDeliveryAttempt(w) PROVE DoneStep(v)
  BY <1>17, <1>0 DEF WriteDeliveryAttempt, Decide, Goto, AfterAttempt
<1>18. ASSUME NEW w \in Workers, AddSuppression(w) PROVE DoneStep(v)
  BY <1>18, <1>0 DEF AddSuppression, Goto
<1>19. ASSUME NEW w \in Workers, UpdateStatus(w) PROVE DoneStep(v)
  BY <1>19, <1>0 DEF UpdateStatus, Goto
<1>20. ASSUME NEW w \in Workers, WriteDecisionEvent(w) PROVE DoneStep(v)
  BY <1>20, <1>0 DEF WriteDecisionEvent, WriteEvent, Goto
<1>21. ASSUME NEW w \in Workers, WriteRetryEvent(w) PROVE DoneStep(v)
  BY <1>21, <1>0 DEF WriteRetryEvent, WriteEvent, Goto
<1>22. ASSUME NEW w \in Workers, Ack(w) PROVE DoneStep(v)
  BY <1>22, <1>0 DEF Ack, EndOfEntry, Goto
<1>23. ASSUME NEW w \in Workers, LoadFails(w) PROVE DoneStep(v)
  BY <1>23, <1>0 DEF LoadFails
<1>24. ASSUME NEW w \in Workers, SelectRouteFails(w) PROVE DoneStep(v)
  BY <1>24, <1>0 DEF SelectRouteFails, Decide, Goto
<1>25. ASSUME NEW w \in Workers, ProcessFails(w) PROVE DoneStep(v)
  BY <1>25, <1>0 DEF ProcessFails, EndOfEntry, Goto
<1>26. ASSUME NEW w \in Workers, Crash(w) PROVE DoneStep(v)
  BY <1>26, <1>0 DEF Crash, Goto
<1>27. ASSUME NEW w \in Workers, PollTick(w) PROVE DoneStep(v)
  BY <1>27, <1>0 DEF PollTick, consumerVars
<1>28. ASSUME NEW w \in Workers, PollMark(w) PROVE DoneStep(v)
  BY <1>28, <1>0 DEF PollMark, consumerVars
<1>29. ASSUME NEW w \in Workers, PollMarkFails(w) PROVE DoneStep(v)
  BY <1>29, <1>0 DEF PollMarkFails, consumerVars
<1>30. ASSUME NEW w \in Workers, PollEnqueue(w) PROVE DoneStep(v)
  BY <1>30, <1>0 DEF PollEnqueue, consumerVars
<1>31. ASSUME NEW w \in Workers, PollEnqueueFails(w) PROVE DoneStep(v)
  BY <1>31, <1>0 DEF PollEnqueueFails, consumerVars
<1>32. CASE UNCHANGED vars
  BY <1>32 DEF vars, consumerVars
<1> QED
  BY <1>1, <1>2, <1>3, <1>4, <1>5, <1>6, <1>7, <1>8, <1>9, <1>10, <1>11, <1>12, <1>13,
     <1>14, <1>15, <1>16, <1>17, <1>18, <1>19, <1>20, <1>21, <1>22, <1>23, <1>24, <1>25,
     <1>26, <1>27, <1>28, <1>29, <1>30, <1>31, <1>32
     DEF Next, Consume, Poll, Fail, vars

\* A message becomes live by being accepted, and is owed an XADD then, unless the worker
\* that has it in hand writes its status.
LEMMA BecomesLive ==
  ASSUME TypeInv, [Next]_vars, NEW m \in Messages, ~Live(m), Live(m)', NEW e,
         \A w \in Workers : MarkSending(w) \/ UpdateStatus(w) => job[w].msg # m
  PROVE  ReachedBeside(m, e)'
<1>0. DbTypeOK /\ ConsumerTypeOK
  BY DEF TypeInv, TypeOK
<1>1. CASE UNCHANGED <<status, attempt_count, next_attempt_at>>
  BY <1>1 DEF Live
<1>2. ASSUME NEW n \in Messages, Accept(n) PROVE ReachedBeside(m, e)'
  BY <1>0, <1>2 DEF Accept, DbTypeOK, Live, ReachedBeside
<1>3. ASSUME NEW n \in Messages, BackoffElapses(n) PROVE FALSE
  BY <1>3 DEF BackoffElapses, Live
<1>4. ASSUME NEW n \in Messages, MarkQueued(n) PROVE FALSE
  BY <1>0, <1>4 DEF MarkQueued, DbTypeOK, Live, LiveStatuses
<1>5. ASSUME NEW w \in Workers, MarkSending(w) \/ UpdateStatus(w) PROVE FALSE
  BY <1>0, <1>5 DEF MarkSending, UpdateStatus, UpdateMessageStatus, DbTypeOK, Live
<1> QED
  BY <1>1, <1>2, <1>3, <1>4, <1>5, StatusSteps DEF StatusStep

LEMMA DoneIsReachedNext ==
  OneWorker /\ TypeInv /\ EntriesHeld /\ DoneIsReached /\ [Next]_vars => DoneIsReached'
<1> SUFFICES ASSUME OneWorker, TypeInv, EntriesHeld, DoneIsReached, [Next]_vars,
                    NEW w \in Workers, pc'[w] \in {"event", "retry_event", "ack"},
                    Live(job[w].msg)'
             PROVE  ReachedBeside(job[w].msg, job[w].entry)'
  BY DEF DoneIsReached
<1>0. DbTypeOK /\ ConsumerTypeOK /\ QueueTypeOK /\ WorkOK
  BY DEF TypeInv, TypeOK
<1>1. CASE pc[w] \in {"event", "retry_event", "ack"} /\ job'[w] = job[w]
  <2>1. job[w].msg \in Messages /\ job[w].entry \in 0..cursor
    <3>1. pc[w] \in WorkingPCs
      BY <1>1 DEF WorkingPCs
    <3>2. job[w].msg \in Messages /\ job[w].entry \in 1..cursor
      BY <1>0, <3>1 DEF WorkOK, EntriesHeld, QueueTypeOK
    <3> QED
      BY <3>2
  <2>2. PICK m \in Messages, e \in 0..cursor : m = job[w].msg /\ e = job[w].entry
    BY <2>1
  <2>3. \A v \in Workers : ~MarkSending(v) /\ ~UpdateStatus(v) /\ ~Ack(v)
    BY <1>0, <1>1 DEF OneWorker, MarkSending, UpdateStatus, Ack, EndOfEntry, Goto,
                      ConsumerTypeOK
  <2>4. ReachedBeside(m, e) => ReachedBeside(m, e)'
    BY <2>3, ReachKept
  <2>5. ReachedBeside(m, e)'
    <3>1. CASE Live(m)
      BY <1>1, <2>2, <2>4, <3>1 DEF DoneIsReached
    <3>2. CASE ~Live(m)
      BY <1>0, <1>1, <2>2, <2>3, <3>2, BecomesLive
    <3> QED
      BY <3>1, <3>2
  <2> QED
    BY <1>1, <2>2, <2>5 DEF ReachedBeside
<1>2. CASE UpdateStatus(w)
  <2> DEFINE d == job[w].decision
             m == job[w].msg
  <2>1. d \in Decisions /\ m \in Messages
    BY <1>0, <1>2 DEF UpdateStatus, WorkOK, DecidedPCs, WorkingPCs
  <2>2. job' = job /\ status'[m] = StatusOf(d)
    BY <1>0, <1>2, <2>1 DEF UpdateStatus, UpdateMessageStatus, DbTypeOK
  <2>3. StatusOf(d) \notin {"queued", "sending"}
    BY <2>1, DecisionTables
  <2> HIDE DEF d
  <2> QED
    BY <2>2, <2>3 DEF Live, LiveStatuses, ReachedBeside
<1>3. CASE Load(w)
  <2>1. PICK e \in batch[w] :
          /\ job'[w].msg = stream[e] /\ stream[e] \in Messages
          /\ RowLocked(w, stream[e]) \/ Terminal(stream[e])
    BY <1>0, <1>3 DEF Load, Skip, Goto, ConsumerTypeOK, QueueTypeOK, WorkOK
  <2>2. status' = status
    BY <1>3 DEF Load, dbVars
  <2>3. status[stream[e]] = "deferred"
    BY <2>1, <2>2 DEF OneWorker, RowLocked, EventsLock, Terminal, TerminalStatuses, Live, LiveStatuses
  <2> QED
    BY <2>1, <2>2, <2>3 DEF ReachedBeside
<1> QED
  BY <1>1, <1>2, <1>3, DoneSteps DEF DoneStep

LEMMA NothingStrandedNext ==
  /\ OneWorker /\ TypeInv /\ EntriesHeld /\ DoneIsReached
  /\ NothingStranded /\ [Next]_vars
  => NothingStranded'
<1> SUFFICES ASSUME OneWorker, TypeInv, EntriesHeld, DoneIsReached, NothingStranded,
                    [Next]_vars, NEW m \in Messages, Live(m)'
             PROVE  (InReach(m) \/ m \in dropped)'
  BY DEF NothingStranded
<1> SUFFICES ReachedBeside(m, 0)'
  BY DEF ReachedBeside, InReach, Entries
<1>0. DbTypeOK /\ ConsumerTypeOK /\ QueueTypeOK /\ WorkOK
  BY DEF TypeInv, TypeOK
<1>1. ASSUME NEW w \in Workers, MarkSending(w) \/ UpdateStatus(w), job[w].msg = m
      PROVE  ReachedBeside(m, 0)'
  <2>1. pc[w] \in WorkingPCs /\ UNCHANGED <<stream, cursor, pel>>
    BY <1>1 DEF MarkSending, UpdateStatus, WorkingPCs, queueVars
  <2>2. job[w].entry \in pel /\ stream[job[w].entry] = m
    BY <1>1, <2>1 DEF EntriesHeld
  <2>3. job[w].entry \in Entries \ {0}
    <3>1. \A e \in pel : e \in 1..Len(stream)
      BY <1>0 DEF QueueTypeOK
    <3> QED
      BY <2>2, <3>1 DEF Entries
  <2>4. /\ job[w].entry \in Entries' \ {0} /\ job[w].entry \in pel'
        /\ stream'[job[w].entry] = m
    BY <2>1, <2>2, <2>3 DEF Entries
  <2> QED
    BY <2>4 DEF ReachedBeside
<1>2. ASSUME NEW w \in Workers, Ack(w), job[w].msg = m
      PROVE  ReachedBeside(m, 0)'
  <2>1. UNCHANGED <<status, stream, cursor, owed, marked, dropped>>
    BY <1>2 DEF Ack, dbVars, pollerVars, historyVars
  <2>2. ReachedBeside(m, job[w].entry)
    BY <1>2, <2>1 DEF DoneIsReached, Ack, Live
  <2>3. pel' = pel \ {job[w].entry}
    BY <1>2 DEF Ack
  <2> QED
    BY <1>0, <2>1, <2>2, <2>3 DEF ReachedBeside, Entries, QueueTypeOK
<1>3. CASE \A w \in Workers :
             MarkSending(w) \/ UpdateStatus(w) \/ Ack(w) => job[w].msg # m
  <2>1. CASE Live(m)
    <3>1. ReachedBeside(m, 0)
      BY <1>0, <2>1, ReachedMeans DEF NothingStranded
    <3>2. 0 \in 0..cursor
      BY <1>0 DEF QueueTypeOK
    <3> QED
      BY <1>3, <3>1, <3>2, ReachKept
  <2>2. CASE ~Live(m)
    BY <1>3, <2>2, BecomesLive
  <2> QED
    BY <2>1, <2>2
<1> QED
  BY <1>1, <1>2, <1>3

\* With one worker process, an unfinished message is in reach of the poller, of an entry
\* or of an XADD that is about to happen, through all failures and crashes, unless one of
\* its entries was lost: processEntry acks only what has been decided and stored.
THEOREM NothingIsStranded ==
  ASSUME OneWorker PROVE Spec => []NothingStranded
<1>1. Init => EntriesHeld /\ DoneIsReached /\ NothingStranded
  BY DEF Init, EntriesHeld, WorkingPCs, DoneIsReached, NothingStranded, Live, LiveStatuses
<1> QED
  BY <1>1, TypeInvariant, EntriesHeldNext, DoneIsReachedNext, NothingStrandedNext, PTL
     DEF Spec
=============================================================================
