-------------------------- MODULE MessageRowProofs --------------------------
(***************************************************************************)
(* What one worker process keeps about the row of a message, its attempts  *)
(* and its timeline, for any number of messages, attempts and faults: the  *)
(* row read by GetMessageForProcessing is still the row when the decision  *)
(* is written over it.                                                     *)
(***************************************************************************)
EXTENDS SingleWorkerProofs, FiniteSetTheorems

\* In front of the attempt.
GatePCs == {"customer", "suppression", "route", "capacity"}

-----------------------------------------------------------------------------
(* What a step may do to a consumer, read off the actions once.            *)

\* The consumer of w stays where it is, has nothing to decide, passes a gate or is
\* turned away by it, or takes one of the steps that follow, or is cut off.
Stride(w) ==
  \/ pc'[w] = pc[w] /\ job'[w] = job[w]
  \/ pc[w] \notin DecidingPCs /\ pc'[w] \notin DecidingPCs \cup {"event"}
  \/ /\ pc[w] \in GatePCs /\ UNCHANGED dbVars
     /\ \/ pc'[w] \in GatePCs \cup {"mark_sending"} /\ job'[w] = job[w]
        \/ /\ pc'[w] = "update_status"
           /\ \E d \in GateDecisions : job'[w] = [job[w] EXCEPT !.decision = d]
  \/ Load(w) \/ MarkSending(w) \/ WriteSendingEvent(w) \/ WriteDeliveryAttempt(w)
  \/ AddSuppression(w) \/ UpdateStatus(w)
  \/ ProcessFails(w) \/ Crash(w)

\* The timeline has four writers, and two failures cut an attempt off.
HistoryStep ==
  /\ \/ UNCHANGED message_events
     \/ \E m \in Messages : Accept(m)
     \/ \E w \in Workers :
          WriteSendingEvent(w) \/ WriteDecisionEvent(w) \/ WriteRetryEvent(w)
  /\ \/ UNCHANGED interrupted
     \/ \E w \in Workers : ProcessFails(w) \/ Crash(w)

LEMMA Strides ==
  ASSUME TypeInv, [Next]_vars, NEW v \in Workers PROVE Stride(v)
<1>0. ConsumerTypeOK
  BY DEF TypeInv, TypeOK
<1> USE DEF Stride, ConsumerTypeOK, DecidingPCs, GatePCs
<1>1. ASSUME NEW m \in Messages, Accept(m) PROVE Stride(v)
  BY <1>1, <1>0 DEF Accept, consumerVars
<1>2. ASSUME NEW m \in Messages, ApiEnqueue(m) PROVE Stride(v)
  BY <1>2, <1>0 DEF ApiEnqueue, consumerVars
<1>3. ASSUME NEW m \in Messages, ApiEnqueueFails(m) PROVE Stride(v)
  BY <1>3, <1>0 DEF ApiEnqueueFails, consumerVars
<1>4. ASSUME NEW m \in Messages, BackoffElapses(m) PROVE Stride(v)
  BY <1>4, <1>0 DEF BackoffElapses, consumerVars
<1>5. ASSUME NEW e \in pel, EntryIdles(e) PROVE Stride(v)
  BY <1>5, <1>0 DEF EntryIdles, consumerVars
<1>6. ASSUME NEW w \in Workers, EnsureGroup(w) PROVE Stride(v)
  BY <1>6, <1>0 DEF EnsureGroup, Goto
<1>7. ASSUME NEW w \in Workers, Reclaim(w) PROVE Stride(v)
  BY <1>7, <1>0 DEF Reclaim, Goto
<1>8. ASSUME NEW w \in Workers, ReclaimFails(w) PROVE Stride(v)
  BY <1>8, <1>0 DEF ReclaimFails, Goto
<1>9. ASSUME NEW w \in Workers, Read(w) PROVE Stride(v)
  BY <1>9, <1>0 DEF Read, Goto, AfterIdleRead
<1>10. ASSUME NEW w \in Workers, Load(w) PROVE Stride(v)
  <2>1. CASE v = w
    BY <1>10, <2>1
  <2>2. CASE v # w
    BY <1>10, <1>0, <2>2 DEF Load, Skip, Goto
  <2> QED
    BY <2>1, <2>2
<1>11. ASSUME NEW w \in Workers, GetCustomer(w) PROVE Stride(v)
  BY <1>11, <1>0 DEF GetCustomer, Decide, Goto, GateDecisions
<1>12. ASSUME NEW w \in Workers, IsSuppressed(w) PROVE Stride(v)
  BY <1>12, <1>0 DEF IsSuppressed, Decide, Goto, GateDecisions
<1>13. ASSUME NEW w \in Workers, SelectRoute(w) PROVE Stride(v)
  BY <1>13, <1>0 DEF SelectRoute, Decide, Goto, GateDecisions
<1>14. ASSUME NEW w \in Workers, CheckCapacity(w) PROVE Stride(v)
  BY <1>14, <1>0 DEF CheckCapacity, Decide, Goto, GateDecisions
<1>15. ASSUME NEW w \in Workers, MarkSending(w) PROVE Stride(v)
  <2>1. CASE v = w
    BY <1>15, <2>1
  <2>2. CASE v # w
    BY <1>15, <1>0, <2>2 DEF MarkSending, Goto
  <2> QED
    BY <2>1, <2>2
<1>16. ASSUME NEW w \in Workers, WriteSendingEvent(w) PROVE Stride(v)
  <2>1. CASE v = w
    BY <1>16, <2>1
  <2>2. CASE v # w
    BY <1>16, <1>0, <2>2 DEF WriteSendingEvent, Goto
  <2> QED
    BY <2>1, <2>2
<1>17. ASSUME NEW w \in Workers, WriteDeliveryAttempt(w) PROVE Stride(v)
  <2>1. CASE v = w
    BY <1>17, <2>1
  <2>2. CASE v # w
    BY <1>17, <1>0, <2>2 DEF WriteDeliveryAttempt, Decide, Goto
  <2> QED
    BY <2>1, <2>2
<1>18. ASSUME NEW w \in Workers, AddSuppression(w) PROVE Stride(v)
  <2>1. CASE v = w
    BY <1>18, <2>1
  <2>2. CASE v # w
    BY <1>18, <1>0, <2>2 DEF AddSuppression, Goto
  <2> QED
    BY <2>1, <2>2
<1>19. ASSUME NEW w \in Workers, UpdateStatus(w) PROVE Stride(v)
  <2>1. CASE v = w
    BY <1>19, <2>1
  <2>2. CASE v # w
    BY <1>19, <1>0, <2>2 DEF UpdateStatus, Goto
  <2> QED
    BY <2>1, <2>2
<1>20. ASSUME NEW w \in Workers, WriteDecisionEvent(w) PROVE Stride(v)
  BY <1>20, <1>0 DEF WriteDecisionEvent, Goto
<1>21. ASSUME NEW w \in Workers, WriteRetryEvent(w) PROVE Stride(v)
  BY <1>21, <1>0 DEF WriteRetryEvent, Goto
<1>22. ASSUME NEW w \in Workers, Ack(w) PROVE Stride(v)
  BY <1>22, <1>0 DEF Ack, EndOfEntry, Goto
<1>23. ASSUME NEW w \in Workers, LoadFails(w) PROVE Stride(v)
  BY <1>23, <1>0 DEF LoadFails
<1>24. ASSUME NEW w \in Workers, SelectRouteFails(w) PROVE Stride(v)
  BY <1>24, <1>0 DEF SelectRouteFails, Decide, Goto, GateDecisions
<1>25. ASSUME NEW w \in Workers, ProcessFails(w) PROVE Stride(v)
  <2>1. CASE v = w
    BY <1>25, <2>1
  <2>2. CASE v # w
    BY <1>25, <1>0, <2>2 DEF ProcessFails, EndOfEntry, Goto
  <2> QED
    BY <2>1, <2>2
<1>26. ASSUME NEW w \in Workers, Crash(w) PROVE Stride(v)
  <2>1. CASE v = w
    BY <1>26, <2>1
  <2>2. CASE v # w
    BY <1>26, <1>0, <2>2 DEF Crash, Goto
  <2> QED
    BY <2>1, <2>2
<1>27. ASSUME NEW w \in Workers, PollTick(w) PROVE Stride(v)
  BY <1>27, <1>0 DEF PollTick, consumerVars
<1>28. ASSUME NEW w \in Workers, PollMark(w) PROVE Stride(v)
  BY <1>28, <1>0 DEF PollMark, consumerVars
<1>29. ASSUME NEW w \in Workers, PollMarkFails(w) PROVE Stride(v)
  BY <1>29, <1>0 DEF PollMarkFails, consumerVars
<1>30. ASSUME NEW w \in Workers, PollEnqueue(w) PROVE Stride(v)
  BY <1>30, <1>0 DEF PollEnqueue, consumerVars
<1>31. ASSUME NEW w \in Workers, PollEnqueueFails(w) PROVE Stride(v)
  BY <1>31, <1>0 DEF PollEnqueueFails, consumerVars
<1>32. CASE UNCHANGED vars
  BY <1>32 DEF vars, consumerVars
<1> QED
  BY <1>1, <1>2, <1>3, <1>4, <1>5, <1>6, <1>7, <1>8, <1>9, <1>10, <1>11, <1>12, <1>13,
     <1>14, <1>15, <1>16, <1>17, <1>18, <1>19, <1>20, <1>21, <1>22, <1>23, <1>24, <1>25,
     <1>26, <1>27, <1>28, <1>29, <1>30, <1>31, <1>32
     DEF Next, Consume, Poll, Fail, vars

LEMMA HistorySteps == [Next]_vars => HistoryStep
<1> SUFFICES ASSUME [Next]_vars PROVE HistoryStep
  OBVIOUS
<1> USE DEF HistoryStep
<1>1. ASSUME NEW m \in Messages, Accept(m) PROVE HistoryStep
  BY <1>1 DEF Accept, historyVars
<1>2. ASSUME NEW m \in Messages, ApiEnqueue(m) PROVE HistoryStep
  BY <1>2 DEF ApiEnqueue, dbVars, historyVars
<1>3. ASSUME NEW m \in Messages, ApiEnqueueFails(m) PROVE HistoryStep
  BY <1>3 DEF ApiEnqueueFails, dbVars
<1>4. ASSUME NEW m \in Messages, BackoffElapses(m) PROVE HistoryStep
  BY <1>4 DEF BackoffElapses, historyVars
<1>5. ASSUME NEW e \in pel, EntryIdles(e) PROVE HistoryStep
  BY <1>5 DEF EntryIdles, dbVars, historyVars
<1>6. ASSUME NEW w \in Workers, EnsureGroup(w) PROVE HistoryStep
  BY <1>6 DEF EnsureGroup, dbVars
<1>7. ASSUME NEW w \in Workers, Reclaim(w) PROVE HistoryStep
  BY <1>7 DEF Reclaim, dbVars, historyVars
<1>8. ASSUME NEW w \in Workers, ReclaimFails(w) PROVE HistoryStep
  BY <1>8 DEF ReclaimFails, dbVars, historyVars
<1>9. ASSUME NEW w \in Workers, Read(w) PROVE HistoryStep
  BY <1>9 DEF Read, dbVars, historyVars
<1>10. ASSUME NEW w \in Workers, Load(w) PROVE HistoryStep
  BY <1>10 DEF Load, dbVars
<1>11. ASSUME NEW w \in Workers, GetCustomer(w) PROVE HistoryStep
  BY <1>11 DEF GetCustomer, dbVars, historyVars
<1>12. ASSUME NEW w \in Workers, IsSuppressed(w) PROVE HistoryStep
  BY <1>12 DEF IsSuppressed, dbVars, historyVars
<1>13. ASSUME NEW w \in Workers, SelectRoute(w) PROVE HistoryStep
  BY <1>13 DEF SelectRoute, dbVars, historyVars
<1>14. ASSUME NEW w \in Workers, CheckCapacity(w) PROVE HistoryStep
  BY <1>14 DEF CheckCapacity, dbVars, historyVars
<1>15. ASSUME NEW w \in Workers, MarkSending(w) PROVE HistoryStep
  BY <1>15 DEF MarkSending, UpdateMessageStatus, historyVars
<1>16. ASSUME NEW w \in Workers, WriteSendingEvent(w) PROVE HistoryStep
  BY <1>16 DEF WriteSendingEvent, WriteEvent, historyVars
<1>17. ASSUME NEW w \in Workers, WriteDeliveryAttempt(w) PROVE HistoryStep
  BY <1>17 DEF WriteDeliveryAttempt, historyVars
<1>18. ASSUME NEW w \in Workers, AddSuppression(w) PROVE HistoryStep
  BY <1>18 DEF AddSuppression, historyVars
<1>19. ASSUME NEW w \in Workers, UpdateStatus(w) PROVE HistoryStep
  BY <1>19 DEF UpdateStatus, UpdateMessageStatus, historyVars
<1>20. ASSUME NEW w \in Workers, WriteDecisionEvent(w) PROVE HistoryStep
  BY <1>20 DEF WriteDecisionEvent, WriteEvent, historyVars
<1>21. ASSUME NEW w \in Workers, WriteRetryEvent(w) PROVE HistoryStep
  BY <1>21 DEF WriteRetryEvent, WriteEvent, historyVars
<1>22. ASSUME NEW w \in Workers, Ack(w) PROVE HistoryStep
  BY <1>22 DEF Ack, dbVars, historyVars
<1>23. ASSUME NEW w \in Workers, LoadFails(w) PROVE HistoryStep
  BY <1>23 DEF LoadFails, dbVars, historyVars
<1>24. ASSUME NEW w \in Workers, SelectRouteFails(w) PROVE HistoryStep
  BY <1>24 DEF SelectRouteFails, dbVars, historyVars
<1>25. ASSUME NEW w \in Workers, ProcessFails(w) PROVE HistoryStep
  BY <1>25 DEF ProcessFails, dbVars
<1>26. ASSUME NEW w \in Workers, Crash(w) PROVE HistoryStep
  BY <1>26 DEF Crash, dbVars
<1>27. ASSUME NEW w \in Workers, PollTick(w) PROVE HistoryStep
  BY <1>27 DEF PollTick, dbVars, historyVars
<1>28. ASSUME NEW w \in Workers, PollMark(w) PROVE HistoryStep
  BY <1>28 DEF PollMark, MarkQueued, historyVars
<1>29. ASSUME NEW w \in Workers, PollMarkFails(w) PROVE HistoryStep
  BY <1>29 DEF PollMarkFails, MarkQueued, dbVars
<1>30. ASSUME NEW w \in Workers, PollEnqueue(w) PROVE HistoryStep
  BY <1>30 DEF PollEnqueue, dbVars, historyVars
<1>31. ASSUME NEW w \in Workers, PollEnqueueFails(w) PROVE HistoryStep
  BY <1>31 DEF PollEnqueueFails, dbVars
<1>32. CASE UNCHANGED vars
  BY <1>32 DEF vars, dbVars, historyVars
<1> QED
  BY <1>1, <1>2, <1>3, <1>4, <1>5, <1>6, <1>7, <1>8, <1>9, <1>10, <1>11, <1>12, <1>13,
     <1>14, <1>15, <1>16, <1>17, <1>18, <1>19, <1>20, <1>21, <1>22, <1>23, <1>24, <1>25,
     <1>26, <1>27, <1>28, <1>29, <1>30, <1>31, <1>32
     DEF Next, Consume, Poll, Fail, vars

-----------------------------------------------------------------------------
(* The row in hand is the row in the table.                                *)

\* A message that was never submitted has left no trace.
Untouched(m) ==
  /\ attempt_count[m] = 0 /\ m \notin owed
  /\ \A e \in Entries : stream[e] # m
  /\ \A w \in Workers : m \notin ids[w] /\ marked[w] # m

UnknownUntouched == \A m \in Messages : status[m] = "none" => Untouched(m)

LEMMA StaysUnknown ==
  ASSUME TypeInv, [Next]_vars, NEW m \in Messages, status'[m] = "none"
  PROVE  status[m] = "none" /\ attempt_count'[m] = attempt_count[m]
<1>0. DbTypeOK /\ ConsumerTypeOK /\ WorkOK
  BY DEF TypeInv, TypeOK
<1>1. CASE UNCHANGED <<status, attempt_count, next_attempt_at>>
  BY <1>1
<1>2. ASSUME NEW n \in Messages, Accept(n) \/ BackoffElapses(n) \/ MarkQueued(n)
      PROVE  status[m] = "none" /\ attempt_count'[m] = attempt_count[m]
  BY <1>0, <1>2 DEF Accept, BackoffElapses, MarkQueued, DbTypeOK
<1>3. ASSUME NEW w \in Workers, MarkSending(w)
      PROVE  status[m] = "none" /\ attempt_count'[m] = attempt_count[m]
  BY <1>0, <1>3 DEF MarkSending, UpdateMessageStatus, DbTypeOK
<1>4. ASSUME NEW w \in Workers, UpdateStatus(w)
      PROVE  status[m] = "none" /\ attempt_count'[m] = attempt_count[m]
  <2> DEFINE d == job[w].decision
  <2>1. StatusOf(d) # "none"
    BY <1>0, <1>4, DecisionTables DEF UpdateStatus, WorkOK, DecidedPCs
  <2>2. /\ status' = [status EXCEPT ![job[w].msg] = StatusOf(d)]
        /\ attempt_count' = [attempt_count EXCEPT ![job[w].msg] = job[w].attempt]
    BY <1>4 DEF UpdateStatus, UpdateMessageStatus
  <2> HIDE DEF d
  <2> QED
    BY <1>0, <2>1, <2>2 DEF DbTypeOK
<1> QED
  BY <1>1, <1>2, <1>3, <1>4, StatusSteps DEF StatusStep

LEMMA UntouchedNext ==
  TypeInv /\ UnknownUntouched /\ [Next]_vars => UnknownUntouched'
<1> SUFFICES ASSUME TypeInv, UnknownUntouched, [Next]_vars,
                    NEW m \in Messages, status'[m] = "none"
             PROVE  Untouched(m)'
  BY DEF UnknownUntouched
<1>0. /\ DbTypeOK /\ QueueTypeOK /\ PollerTypeOK
      /\ status[m] = "none" /\ attempt_count'[m] = attempt_count[m] /\ Untouched(m)
  BY StaysUnknown DEF TypeInv, TypeOK, UnknownUntouched
<1> USE DEF Untouched, Entries, QueueTypeOK, PollerTypeOK
<1>1. ASSUME NEW n \in Messages, Accept(n) PROVE Untouched(m)'
  BY <1>1, <1>0 DEF Accept, queueVars, pollerVars, DbTypeOK
<1>2. ASSUME NEW n \in Messages, ApiEnqueue(n) PROVE Untouched(m)'
  BY <1>2, <1>0 DEF ApiEnqueue, Enqueue, pollerVars
<1>3. ASSUME NEW n \in Messages, ApiEnqueueFails(n) PROVE Untouched(m)'
  BY <1>3, <1>0 DEF ApiEnqueueFails, queueVars, pollerVars
<1>4. ASSUME NEW n \in Messages, BackoffElapses(n) PROVE Untouched(m)'
  BY <1>4, <1>0 DEF BackoffElapses, queueVars, pollerVars
<1>5. ASSUME NEW e \in pel, EntryIdles(e) PROVE Untouched(m)'
  BY <1>5, <1>0 DEF EntryIdles, pollerVars
<1>6. ASSUME NEW w \in Workers, EnsureGroup(w) PROVE Untouched(m)'
  BY <1>6, <1>0 DEF EnsureGroup, pollerVars
<1>7. ASSUME NEW w \in Workers, Reclaim(w) PROVE Untouched(m)'
  BY <1>7, <1>0 DEF Reclaim, pollerVars
<1>8. ASSUME NEW w \in Workers, ReclaimFails(w) PROVE Untouched(m)'
  BY <1>8, <1>0 DEF ReclaimFails, queueVars, pollerVars
<1>9. ASSUME NEW w \in Workers, Read(w) PROVE Untouched(m)'
  BY <1>9, <1>0 DEF Read, pollerVars
<1>10. ASSUME NEW w \in Workers, Load(w) PROVE Untouched(m)'
  BY <1>10, <1>0 DEF Load, Skip, queueVars, pollerVars
<1>11. ASSUME NEW w \in Workers, GetCustomer(w) PROVE Untouched(m)'
  BY <1>11, <1>0 DEF GetCustomer, queueVars, pollerVars
<1>12. ASSUME NEW w \in Workers, IsSuppressed(w) PROVE Untouched(m)'
  BY <1>12, <1>0 DEF IsSuppressed, queueVars, pollerVars
<1>13. ASSUME NEW w \in Workers, SelectRoute(w) PROVE Untouched(m)'
  BY <1>13, <1>0 DEF SelectRoute, queueVars, pollerVars
<1>14. ASSUME NEW w \in Workers, CheckCapacity(w) PROVE Untouched(m)'
  BY <1>14, <1>0 DEF CheckCapacity, queueVars, pollerVars
<1>15. ASSUME NEW w \in Workers, MarkSending(w) PROVE Untouched(m)'
  BY <1>15, <1>0 DEF MarkSending, queueVars, pollerVars
<1>16. ASSUME NEW w \in Workers, WriteSendingEvent(w) PROVE Untouched(m)'
  BY <1>16, <1>0 DEF WriteSendingEvent, WriteEvent, queueVars, pollerVars
<1>17. ASSUME NEW w \in Workers, WriteDeliveryAttempt(w) PROVE Untouched(m)'
  BY <1>17, <1>0 DEF WriteDeliveryAttempt, queueVars, pollerVars
<1>18. ASSUME NEW w \in Workers, AddSuppression(w) PROVE Untouched(m)'
  BY <1>18, <1>0 DEF AddSuppression, queueVars, pollerVars
<1>19. ASSUME NEW w \in Workers, UpdateStatus(w) PROVE Untouched(m)'
  BY <1>19, <1>0 DEF UpdateStatus, queueVars, pollerVars
<1>20. ASSUME NEW w \in Workers, WriteDecisionEvent(w) PROVE Untouched(m)'
  BY <1>20, <1>0 DEF WriteDecisionEvent, WriteEvent, queueVars, pollerVars
<1>21. ASSUME NEW w \in Workers, WriteRetryEvent(w) PROVE Untouched(m)'
  BY <1>21, <1>0 DEF WriteRetryEvent, WriteEvent, queueVars, pollerVars
<1>22. ASSUME NEW w \in Workers, Ack(w) PROVE Untouched(m)'
  BY <1>22, <1>0 DEF Ack, pollerVars
<1>23. ASSUME NEW w \in Workers, LoadFails(w) PROVE Untouched(m)'
  BY <1>23, <1>0 DEF LoadFails, queueVars, pollerVars
<1>24. ASSUME NEW w \in Workers, SelectRouteFails(w) PROVE Untouched(m)'
  BY <1>24, <1>0 DEF SelectRouteFails, queueVars, pollerVars
<1>25. ASSUME NEW w \in Workers, ProcessFails(w) PROVE Untouched(m)'
  BY <1>25, <1>0 DEF ProcessFails, pollerVars
<1>26. ASSUME NEW w \in Workers, Crash(w) PROVE Untouched(m)'
  BY <1>26, <1>0, ConstantsAssumption DEF Crash, queueVars
<1>27. ASSUME NEW w \in Workers, PollTick(w) PROVE Untouched(m)'
  BY <1>27, <1>0 DEF PollTick, Due, queueVars
<1>28. ASSUME NEW w \in Workers, PollMark(w) PROVE Untouched(m)'
  BY <1>28, <1>0 DEF PollMark, queueVars
<1>29. ASSUME NEW w \in Workers, PollMarkFails(w) PROVE Untouched(m)'
  BY <1>29, <1>0 DEF PollMarkFails, queueVars
<1>30. ASSUME NEW w \in Workers, PollEnqueue(w) PROVE Untouched(m)'
  BY <1>30, <1>0, ConstantsAssumption DEF PollEnqueue, Enqueue
<1>31. ASSUME NEW w \in Workers, PollEnqueueFails(w) PROVE Untouched(m)'
  BY <1>31, <1>0, ConstantsAssumption DEF PollEnqueueFails, queueVars
<1>32. CASE UNCHANGED vars
  BY <1>32, <1>0 DEF vars, queueVars, pollerVars
<1> QED
  BY <1>1, <1>2, <1>3, <1>4, <1>5, <1>6, <1>7, <1>8, <1>9, <1>10, <1>11, <1>12, <1>13,
     <1>14, <1>15, <1>16, <1>17, <1>18, <1>19, <1>20, <1>21, <1>22, <1>23, <1>24, <1>25,
     <1>26, <1>27, <1>28, <1>29, <1>30, <1>31, <1>32
     DEF Next, Consume, Poll, Fail, vars

\* From its SELECT to its status write a consumer knows the row: live, with the attempts
\* it counted, in status sending once the attempt has begun.
RowKnown(w) ==
  /\ pc[w] \in DecidingPCs =>
       Live(job[w].msg) /\ job[w].attempt = attempt_count[job[w].msg]
  /\ InAttempt(w) => status[job[w].msg] = "sending"

\* The decision in hand agrees with the attempts, and once stored it is in the row.
DecisionKnown(w) ==
  /\ pc[w] \in {"suppress", "update_status"} =>
       /\ job[w].decision = "retry" => job[w].attempt < MaxAttempts
       /\ job[w].decision = "dead_lettered" => job[w].attempt >= MaxAttempts
  /\ pc[w] = "suppress" => job[w].decision = "bounced"
  /\ pc[w] = "event" /\ StatusOf(job[w].decision) \in TerminalStatuses =>
       status[job[w].msg] = StatusOf(job[w].decision)

HandInv == \A w \in Workers : RowKnown(w) /\ DecisionKnown(w)

RowInv == UnknownUntouched /\ HandInv

LEMMA HandNext ==
  OneWorker /\ TypeInv /\ RowInv /\ [Next]_vars => HandInv'
<1> SUFFICES ASSUME OneWorker, TypeInv, RowInv, [Next]_vars, NEW w \in Workers
             PROVE  RowKnown(w)' /\ DecisionKnown(w)'
  BY DEF HandInv
<1>0. /\ DbTypeOK /\ ConsumerTypeOK /\ QueueTypeOK /\ WorkOK
      /\ RowKnown(w) /\ DecisionKnown(w) /\ UnknownUntouched
  BY DEF TypeInv, TypeOK, RowInv, HandInv
<1> DEFINE m == job[w].msg
<1>1. CASE pc'[w] \notin DecidingPCs \cup {"event"}
  BY <1>1 DEF RowKnown, DecisionKnown, DecidingPCs, InAttempt
<1>2. CASE /\ pc[w] \in DecidingPCs \cup {"event"} /\ pc'[w] = pc[w] /\ job'[w] = job[w]
           /\ status'[m] = status[m] /\ attempt_count'[m] = attempt_count[m]
  BY <1>0, <1>2 DEF RowKnown, DecisionKnown, InAttempt, Live
<1>3. CASE pc[w] \in DecidingPCs \cup {"event"} /\ pc'[w] = pc[w] /\ job'[w] = job[w]
  <2>0. pc[w] \in WorkingPCs /\ m \in Messages
    BY <1>0, <1>3 DEF DecidingPCs, GatePCs, WorkingPCs, WorkOK
  <2>1. CASE UNCHANGED <<status, attempt_count, next_attempt_at>>
    BY <1>2, <1>3, <2>1
  <2>2. ASSUME NEW n \in Messages, Accept(n) PROVE RowKnown(w)' /\ DecisionKnown(w)'
    <3>1. CASE n # m
      BY <1>0, <1>2, <1>3, <2>2, <3>1 DEF Accept, DbTypeOK
    <3>2. CASE n = m
      <4>1. status[m] = "none" /\ pc[w] = "event"
        BY <1>0, <1>3, <2>2, <3>2 DEF Accept, RowKnown, Live, LiveStatuses
      <4>2. StatusOf(job[w].decision) \notin TerminalStatuses
        BY <1>0, <4>1 DEF DecisionKnown, TerminalStatuses
      <4> QED
        BY <1>3, <4>1, <4>2 DEF RowKnown, DecisionKnown, DecidingPCs, GatePCs, InAttempt
    <3> QED
      BY <3>1, <3>2
  <2>3. ASSUME NEW n \in Messages, BackoffElapses(n)
        PROVE  RowKnown(w)' /\ DecisionKnown(w)'
    BY <1>2, <1>3, <2>3 DEF BackoffElapses
  <2>4. ASSUME NEW n \in Messages, MarkQueued(n) PROVE RowKnown(w)' /\ DecisionKnown(w)'
    <3>1. /\ attempt_count'[m] = attempt_count[m]
          /\ \/ status'[m] = status[m]
             \/ status[m] = "deferred" /\ status'[m] = "queued"
      BY <1>0, <2>0, <2>4 DEF MarkQueued, DbTypeOK
    <3>2. CASE status[m] = "deferred" /\ status'[m] = "queued"
      BY <1>0, <1>3, <3>1, <3>2
         DEF RowKnown, DecisionKnown, InAttempt, Live, LiveStatuses, TerminalStatuses
    <3> QED
      BY <1>2, <1>3, <3>1, <3>2
  <2>5. ASSUME NEW v \in Workers, MarkSending(v) \/ UpdateStatus(v) PROVE FALSE
    BY <1>0, <1>3, <2>5 DEF OneWorker, MarkSending, UpdateStatus, Goto, ConsumerTypeOK
  <2> QED
    BY <2>1, <2>2, <2>3, <2>4, <2>5, StatusSteps DEF StatusStep
<1>4. CASE /\ pc[w] \in GatePCs /\ UNCHANGED dbVars
           /\ pc'[w] \in GatePCs \cup {"mark_sending"} /\ job'[w] = job[w]
  BY <1>0, <1>4 DEF GatePCs, DecidingPCs, dbVars, RowKnown, DecisionKnown, InAttempt, Live
<1>5. CASE /\ pc[w] \in GatePCs /\ UNCHANGED dbVars /\ pc'[w] = "update_status"
           /\ \E d \in GateDecisions : job'[w] = [job[w] EXCEPT !.decision = d]
  <2>1. PICK d \in GateDecisions : job'[w] = [job[w] EXCEPT !.decision = d]
    BY <1>5
  <2>2. job'[w].msg = m /\ job'[w].attempt = job[w].attempt /\ job'[w].decision = d
    BY <1>0, <2>1 DEF ConsumerTypeOK, Jobs
  <2>3. d \notin OutcomeDecisions
    BY DEF GateDecisions, OutcomeDecisions
  <2> QED
    BY <1>0, <1>5, <2>2, <2>3
       DEF GatePCs, DecidingPCs, dbVars, RowKnown, DecisionKnown, InAttempt, Live,
           OutcomeDecisions
<1>6. CASE Load(w) /\ pc'[w] \in DecidingPCs \cup {"event"}
  <2>1. PICK e \in batch[w] :
          /\ pc'[w] = "customer" /\ ~Terminal(stream[e]) /\ UNCHANGED dbVars
          /\ job'[w].msg = stream[e] /\ job'[w].attempt = attempt_count[stream[e]]
    BY <1>0, <1>6 DEF Load, Skip, Goto, ConsumerTypeOK, DecidingPCs, GatePCs
  <2>2. e \in Entries /\ stream[e] \in Messages
    <3>1. e \in 1..cursor
      BY <1>0 DEF WorkOK
    <3> QED
      BY <1>0, <3>1 DEF Entries, QueueTypeOK
  <2>3. status[stream[e]] # "none"
    BY <1>0, <2>2 DEF UnknownUntouched, Untouched
  <2>4. Live(stream[e])
    BY <1>0, <2>1, <2>2, <2>3
       DEF DbTypeOK, Statuses, Terminal, TerminalStatuses, Live, LiveStatuses
  <2> QED
    BY <2>1, <2>4 DEF RowKnown, DecisionKnown, InAttempt, Live, dbVars
<1>7. CASE MarkSending(w)
  <2>0. m \in Messages
    BY <1>0, <1>7 DEF MarkSending, WorkOK, WorkingPCs
  <2>1. /\ pc'[w] = "sending_event" /\ job'[w].msg = m
        /\ job'[w].attempt = job[w].attempt + 1
    BY <1>0, <1>7 DEF MarkSending, Goto, ConsumerTypeOK, Jobs
  <2>2. status'[m] = "sending" /\ attempt_count'[m] = job[w].attempt + 1
    BY <1>0, <1>7, <2>0 DEF MarkSending, UpdateMessageStatus, CountedAttempt, DbTypeOK
  <2> QED
    BY <2>1, <2>2 DEF RowKnown, DecisionKnown, InAttempt, Live, LiveStatuses
<1>8. CASE WriteSendingEvent(w)
  <2>1. /\ pc[w] = "sending_event" /\ pc'[w] = "attempt_row" /\ job' = job
        /\ UNCHANGED <<status, attempt_count>>
    BY <1>0, <1>8 DEF WriteSendingEvent, WriteEvent, Goto, ConsumerTypeOK
  <2> QED
    BY <1>0, <2>1 DEF DecidingPCs, RowKnown, DecisionKnown, InAttempt, Live
<1>9. CASE WriteDeliveryAttempt(w)
  <2> DEFINE d(kind) == Outcome(kind, job[w].attempt)
  <2>1. PICK kind \in Kinds : Decide(w, d(kind), AfterAttempt(kind))
    BY <1>0, <1>9, ConstantsAssumption
       DEF WriteDeliveryAttempt, WorkOK, WorkingPCs, Recipients
  <2>2. /\ pc'[w] = AfterAttempt(kind) /\ job'[w].msg = m
        /\ job'[w].attempt = job[w].attempt /\ job'[w].decision = d(kind)
    BY <1>0, <2>1 DEF Decide, Goto, ConsumerTypeOK, Jobs
  <2>3. /\ d(kind) \in OutcomeDecisions /\ job[w].attempt \in Nat
        /\ d(kind) = "bounced" <=> kind = "hard_bounce"
    BY <1>0, OutcomeDecision DEF ConsumerTypeOK, Jobs
  <2>4. /\ d(kind) = "retry" => job[w].attempt < MaxAttempts
        /\ d(kind) = "dead_lettered" => job[w].attempt >= MaxAttempts
    BY <2>3, ConstantsAssumption DEF Kinds, Outcome, Exhausted
  <2>5. pc[w] = "attempt_row" /\ UNCHANGED <<status, attempt_count>>
    BY <1>9 DEF WriteDeliveryAttempt
  <2> HIDE DEF d
  <2> QED
    BY <1>0, <2>2, <2>3, <2>4, <2>5
       DEF DecidingPCs, RowKnown, DecisionKnown, InAttempt, Live, AfterAttempt
<1>10. CASE AddSuppression(w)
  <2>1. /\ pc[w] = "suppress" /\ pc'[w] = "update_status" /\ job' = job
        /\ UNCHANGED <<status, attempt_count>>
    BY <1>0, <1>10 DEF AddSuppression, Goto, ConsumerTypeOK
  <2> QED
    BY <1>0, <2>1 DEF DecidingPCs, RowKnown, DecisionKnown, InAttempt, Live
<1>11. CASE UpdateStatus(w)
  <2>1. pc'[w] = "event" /\ job' = job /\ m \in Messages
    BY <1>0, <1>11 DEF UpdateStatus, Goto, ConsumerTypeOK, WorkOK, WorkingPCs
  <2>2. status'[m] = StatusOf(job[w].decision)
    BY <1>0, <1>11, <2>1 DEF UpdateStatus, UpdateMessageStatus, DbTypeOK
  <2> QED
    BY <2>1, <2>2 DEF DecidingPCs, GatePCs, RowKnown, DecisionKnown, InAttempt
<1>12. CASE ProcessFails(w) \/ Crash(w)
  <2>1. pc'[w] \in {"next", "boot"}
    BY <1>0, <1>12 DEF ProcessFails, Crash, EndOfEntry, Goto, ConsumerTypeOK
  <2> QED
    BY <1>1, <2>1 DEF DecidingPCs, GatePCs
<1> QED
  BY <1>1, <1>3, <1>4, <1>5, <1>6, <1>7, <1>8, <1>9, <1>10, <1>11, <1>12, Strides
     DEF Stride

LEMMA RowInvariant == ASSUME OneWorker PROVE Spec => []RowInv
<1>1. Init => RowInv
  <2> SUFFICES ASSUME Init PROVE RowInv
    OBVIOUS
  <2>1. \A m \in Messages : Untouched(m)
    <3>1. Entries = {}
      BY DEF Init, Entries
    <3> QED
      BY <3>1, ConstantsAssumption DEF Init, Untouched
  <2>2. HandInv
    BY DEF Init, HandInv, RowKnown, DecisionKnown, InAttempt, DecidingPCs, GatePCs
  <2> QED
    BY <2>1, <2>2 DEF RowInv, UnknownUntouched
<1>2. TypeInv /\ RowInv /\ [Next]_vars => RowInv'
  BY UntouchedNext, HandNext DEF RowInv
<1> QED
  BY <1>1, <1>2, TypeInvariant, PTL DEF Spec

-----------------------------------------------------------------------------
(* The status.                                                             *)

\* The worker's status writes fall on a live row.
LEMMA WritesAreLive ==
  ASSUME HandInv, NEW w \in Workers, MarkSending(w) \/ UpdateStatus(w)
  PROVE  /\ Live(job[w].msg) /\ job[w].attempt = attempt_count[job[w].msg]
         /\ InAttempt(w) => status[job[w].msg] = "sending"
BY DEF HandInv, RowKnown, MarkSending, UpdateStatus, DecidingPCs

LEMMA TerminalStays ==
  ASSUME TypeInv, HandInv, [Next]_vars, NEW m \in Messages, Terminal(m)
  PROVE  status'[m] = status[m]
<1>0. DbTypeOK /\ status[m] \notin LiveStatuses \cup {"none"}
  BY DEF TypeInv, TypeOK, Terminal, TerminalStatuses, LiveStatuses
<1>1. CASE UNCHANGED <<status, attempt_count, next_attempt_at>>
  BY <1>1
<1>2. ASSUME NEW n \in Messages, Accept(n) \/ BackoffElapses(n) \/ MarkQueued(n)
      PROVE  status'[m] = status[m]
  BY <1>0, <1>2 DEF Accept, BackoffElapses, MarkQueued, DbTypeOK, LiveStatuses
<1>3. ASSUME NEW w \in Workers, MarkSending(w) \/ UpdateStatus(w)
      PROVE  status'[m] = status[m]
  <2>1. job[w].msg # m
    BY <1>0, <1>3, WritesAreLive DEF Live
  <2> QED
    BY <1>0, <1>3, <2>1 DEF MarkSending, UpdateStatus, UpdateMessageStatus, DbTypeOK
<1> QED
  BY <1>1, <1>2, <1>3, StatusSteps DEF StatusStep

\* With one worker a finished message stays finished, whatever is reclaimed, delivered
\* twice, cut off or marked by the poller: every status write falls on a row that was
\* live when it was read and still is.  A second worker breaks this.
THEOREM FinishedStaysFinished ==
  ASSUME OneWorker PROVE Spec => TerminalIsFinal
<1>1. TypeInv /\ RowInv /\ [Next]_vars =>
        [\A m \in Messages : Terminal(m) => status'[m] = status[m]]_vars
  BY TerminalStays DEF RowInv
<1> QED
  BY <1>1, RowInvariant, TypeInvariant, PTL DEF Spec, TerminalIsFinal

-----------------------------------------------------------------------------
(* Refinement of MessageLifecycle.                                         *)

\* What a decision may store: an outcome what the lifecycle's Settle stores, a gate what
\* its TurnAway does.
LEMMA DecisionLifecycle ==
  ASSUME NEW d \in Decisions
  PROVE  \/ d \in {"delivered", "bounced", "rejected"}
              /\ StatusOf(d) \in {"delivered", "bounced", "failed"}
         \/ d = "dead_lettered" /\ StatusOf(d) = "dead_lettered"
         \/ d = "retry" /\ StatusOf(d) = "deferred"
         \/ d \in GateDecisions
              /\ StatusOf(d) \in {"blocked", "suppressed", "failed", "deferred"}
BY DEF Decisions, OutcomeDecisions, GateDecisions, StatusOf

LEMMA LifecycleStep ==
  ASSUME TypeInv, RowInv, [Next]_vars
  PROVE  [Lifecycle!Next]_(Lifecycle!lifecycleVars)
<1>0. DbTypeOK /\ ConsumerTypeOK /\ WorkOK /\ HandInv /\ UnknownUntouched
  BY DEF TypeInv, TypeOK, RowInv
<1> USE DEF Lifecycle!lifecycleVars
<1>1. CASE UNCHANGED <<status, attempt_count, next_attempt_at>>
  BY <1>1
<1>2. ASSUME NEW m \in Messages, Accept(m) PROVE Lifecycle!Next
  <2>1. attempt_count[m] = 0
    BY <1>0, <1>2 DEF Accept, UnknownUntouched, Untouched
  <2>2. attempt_count' = [attempt_count EXCEPT ![m] = 0]
    BY <1>0, <1>2, <2>1 DEF Accept, DbTypeOK
  <2>3. Lifecycle!Accept(m)
    BY <1>2, <2>2 DEF Accept, Lifecycle!Accept, Lifecycle!Move
  <2> QED
    BY <2>3 DEF Lifecycle!Next
<1>3. ASSUME NEW m \in Messages, BackoffElapses(m)
      PROVE  UNCHANGED <<status, attempt_count>>
  BY <1>3 DEF BackoffElapses
<1>4. ASSUME NEW m \in Messages, MarkQueued(m)
      PROVE  Lifecycle!Next \/ UNCHANGED <<status, attempt_count>>
  <2>1. CASE status[m] = "deferred"
    <3>1. attempt_count' = [attempt_count EXCEPT ![m] = attempt_count[m]]
      BY <1>0, <1>4 DEF MarkQueued, DbTypeOK
    <3>2. Lifecycle!Requeue(m)
      BY <1>4, <2>1, <3>1 DEF MarkQueued, Lifecycle!Requeue, Lifecycle!Move
    <3> QED
      BY <3>2 DEF Lifecycle!Next
  <2>2. CASE status[m] # "deferred"
    BY <1>4, <2>2 DEF MarkQueued
  <2> QED
    BY <2>1, <2>2
<1>5. ASSUME NEW w \in Workers, MarkSending(w) PROVE Lifecycle!Next
  <2> DEFINE m == job[w].msg
  <2>1. m \in Messages /\ Live(m) /\ job[w].attempt = attempt_count[m]
    BY <1>0, <1>5, WritesAreLive DEF MarkSending, WorkOK, WorkingPCs
  <2>2. Lifecycle!BeginAttempt(m)
    BY <1>5, <2>1
       DEF MarkSending, UpdateMessageStatus, CountedAttempt, Live, LiveStatuses,
           Lifecycle!BeginAttempt, Lifecycle!Move, Lifecycle!LiveStatuses
  <2> QED
    BY <2>1, <2>2 DEF Lifecycle!Next
<1>6. ASSUME NEW w \in Workers, UpdateStatus(w) PROVE Lifecycle!Next
  <2> DEFINE m == job[w].msg
             d == job[w].decision
             s == StatusOf(d)
  <2>1. /\ m \in Messages /\ Live(m) /\ d \in Decisions
        /\ d \in OutcomeDecisions => status[m] = "sending"
        /\ attempt_count[m] \in Nat
    BY <1>0, <1>6, WritesAreLive
       DEF UpdateStatus, WorkOK, WorkingPCs, DecidedPCs, InAttempt, DbTypeOK
  <2>2. /\ d = "retry" => attempt_count[m] < MaxAttempts
        /\ d = "dead_lettered" => attempt_count[m] >= MaxAttempts
    BY <1>0, <1>6, WritesAreLive DEF UpdateStatus, HandInv, DecisionKnown
  <2>3. Lifecycle!Move(m, s, attempt_count[m])
    BY <1>0, <1>6, WritesAreLive DEF UpdateStatus, UpdateMessageStatus, Lifecycle!Move
  <2> HIDE DEF s, d
  <2>4. CASE d \in {"delivered", "bounced", "rejected", "dead_lettered", "retry"}
    <3>1. status[m] = "sending"
      BY <2>1, <2>4 DEF OutcomeDecisions
    <3>2. \/ s \in {"delivered", "bounced", "failed"}
          \/ s = "dead_lettered" /\ attempt_count[m] >= MaxAttempts
          \/ s = "deferred" /\ attempt_count[m] < MaxAttempts
      BY <2>1, <2>2, <2>4, DecisionLifecycle DEF s, GateDecisions
    <3>3. Lifecycle!Settle(m)
      BY <2>3, <3>1, <3>2 DEF Lifecycle!Settle
    <3> QED
      BY <2>1, <3>3 DEF Lifecycle!Next
  <2>5. CASE d \in GateDecisions
    <3>1. s \in {"blocked", "suppressed", "failed", "deferred"}
      BY <2>1, <2>5, DecisionLifecycle DEF s, GateDecisions
    <3>2. Lifecycle!TurnAway(m)
      BY <2>1, <2>3, <3>1
         DEF Live, LiveStatuses, Lifecycle!TurnAway, Lifecycle!LiveStatuses
    <3> QED
      BY <2>1, <3>2 DEF Lifecycle!Next
  <2> QED
    BY <2>1, <2>4, <2>5 DEF Decisions, OutcomeDecisions
<1> QED
  BY <1>1, <1>2, <1>3, <1>4, <1>5, <1>6, StatusSteps DEF StatusStep

\* With one worker the row of every message goes through the documented state machine
\* only: an attempt is counted when it begins and by nothing else, an answer settles a
\* message that is being sent, and retry or dead letter follows from the counter.
THEOREM LifecycleImplemented ==
  ASSUME OneWorker PROVE Spec => ImplementsLifecycle
<1>1. Init => Lifecycle!Init
  BY DEF Init, Lifecycle!Init
<1> QED
  BY <1>1, LifecycleStep, RowInvariant, TypeInvariant, PTL
     DEF Spec, ImplementsLifecycle, Lifecycle!Spec

-----------------------------------------------------------------------------
(* The timeline.                                                           *)

\* Every event that tells of an ending goes with a status that ends the message so.
LEMMA EndingEvents ==
  ASSUME NEW d \in Decisions, EventOf(d) \in DOMAIN Endings
  PROVE  StatusOf(d) \in TerminalStatuses /\ StatusOf(d) \in Endings[EventOf(d)]
BY DEF Decisions, OutcomeDecisions, GateDecisions, EventOf, StatusOf, Endings,
       TerminalStatuses

LEMMA EndingsAreTerminal ==
  \A t \in DOMAIN Endings : Endings[t] \subseteq TerminalStatuses
BY DEF Endings, TerminalStatuses

LEMMA TimelineNext ==
  TypeInv /\ RowInv /\ TimelineTruthful /\ [Next]_vars => TimelineTruthful'
<1> SUFFICES ASSUME TypeInv, RowInv, TimelineTruthful, [Next]_vars, NEW m \in Messages,
                    NEW t \in DOMAIN Endings, t \in message_events'[m]
             PROVE  status'[m] \in Endings[t]
  BY DEF TimelineTruthful
<1>0. DbTypeOK /\ ConsumerTypeOK /\ WorkOK /\ HandInv
  BY DEF TypeInv, TypeOK, RowInv
<1>1. CASE t \in message_events[m]
  <2>1. status[m] \in Endings[t] /\ Terminal(m)
    BY <1>1, EndingsAreTerminal DEF TimelineTruthful, Terminal
  <2> QED
    BY <1>0, <2>1, TerminalStays
<1>2. CASE t \notin message_events[m]
  <2>1. CASE UNCHANGED message_events
    BY <1>2, <2>1
  <2>2. ASSUME NEW n \in Messages, Accept(n) PROVE FALSE
    <3>1. t \notin {"accepted", "queued"}
      BY DEF Endings
    <3> QED
      BY <1>0, <1>2, <2>2, <3>1 DEF Accept, DbTypeOK
  <2>3. ASSUME NEW w \in Workers, NEW type, WriteEvent(w, type)
        PROVE  job[w].msg = m /\ type = t /\ status' = status
    BY <1>0, <1>2, <2>3 DEF WriteEvent, DbTypeOK
  <2>4. ASSUME NEW w \in Workers, WriteSendingEvent(w) \/ WriteRetryEvent(w) PROVE FALSE
    <3>1. t \notin {"sending_attempted", "retry_scheduled"}
      BY DEF Endings
    <3> QED
      BY <2>3, <2>4, <3>1 DEF WriteSendingEvent, WriteRetryEvent
  <2>5. ASSUME NEW w \in Workers, WriteDecisionEvent(w) PROVE status'[m] \in Endings[t]
    <3> DEFINE d == job[w].decision
    <3>1. pc[w] = "event" /\ d \in Decisions
      BY <1>0, <2>5 DEF WriteDecisionEvent, WorkOK, DecidedPCs
    <3>2. job[w].msg = m /\ EventOf(d) = t /\ status' = status
      BY <2>3, <2>5 DEF WriteDecisionEvent
    <3>3. StatusOf(d) \in TerminalStatuses /\ StatusOf(d) \in Endings[t]
      BY <3>1, <3>2, EndingEvents
    <3>4. status[m] = StatusOf(d)
      BY <1>0, <3>1, <3>2, <3>3 DEF HandInv, DecisionKnown
    <3> QED
      BY <3>2, <3>3, <3>4
  <2> QED
    BY <2>1, <2>2, <2>4, <2>5, HistorySteps DEF HistoryStep
<1> QED
  BY <1>1, <1>2

\* With one worker the timeline never contradicts the row: the event that tells of an
\* ending follows the status write, and no later write takes the ending back.
THEOREM TimelineIsTruthful ==
  ASSUME OneWorker PROVE Spec => []TimelineTruthful
<1>1. Init => TimelineTruthful
  BY DEF Init, TimelineTruthful
<1> QED
  BY <1>1, TimelineNext, RowInvariant, TypeInvariant, PTL DEF Spec

-----------------------------------------------------------------------------
(* The budget of attempts.                                                 *)

\* The attempt of m has begun and its outcome is not stored.
Attempting(m) == \E w \in Workers : InAttempt(w) /\ job[w].msg = m

\* An unfinished message that is not being attempted has an attempt left, once the ones
\* that were cut off are given back.
AttemptLeft ==
  \A m \in Messages :
    ~Terminal(m) /\ ~Attempting(m) => attempt_count[m] < MaxAttempts + interrupted[m]

BudgetInv == RetryBudget /\ AttemptLeft

\* Only the two status writes of the worker that has m in hand move its counter.
LEMMA CounterKept ==
  ASSUME TypeInv, [Next]_vars, NEW m \in Messages,
         \A w \in Workers : MarkSending(w) \/ UpdateStatus(w) => job[w].msg # m
  PROVE  attempt_count'[m] = attempt_count[m] /\ (Terminal(m)' <=> Terminal(m))
<1>0. DbTypeOK
  BY DEF TypeInv, TypeOK
<1> USE DEF Terminal, TerminalStatuses
<1>1. CASE UNCHANGED <<status, attempt_count, next_attempt_at>>
  BY <1>1
<1>2. ASSUME NEW n \in Messages, Accept(n) \/ BackoffElapses(n) \/ MarkQueued(n)
      PROVE  attempt_count'[m] = attempt_count[m] /\ (Terminal(m)' <=> Terminal(m))
  BY <1>0, <1>2 DEF Accept, BackoffElapses, MarkQueued, DbTypeOK
<1>3. ASSUME NEW w \in Workers, MarkSending(w) \/ UpdateStatus(w)
      PROVE  attempt_count'[m] = attempt_count[m] /\ (Terminal(m)' <=> Terminal(m))
  <2>1. job[w].msg # m
    BY <1>3
  <2> QED
    BY <1>0, <1>3, <2>1 DEF MarkSending, UpdateStatus, UpdateMessageStatus, DbTypeOK
<1> QED
  BY <1>1, <1>2, <1>3, StatusSteps DEF StatusStep

\* An attempt that fails before its outcome is stored is one more that was cut off, and
\* nothing takes that back.
LEMMA CutOffCounts ==
  ASSUME TypeInv, [Next]_vars, NEW m \in Messages
  PROVE  /\ interrupted[m] \in Nat /\ interrupted'[m] \in Nat
         /\ interrupted[m] <= interrupted'[m]
         /\ \A w \in Workers :
              InAttempt(w) /\ job[w].msg = m /\ (ProcessFails(w) \/ Crash(w))
                => interrupted'[m] = interrupted[m] + 1
<1>0. HistoryTypeOK /\ interrupted[m] \in Nat
  BY DEF TypeInv, TypeOK, HistoryTypeOK
<1>1. ASSUME NEW w \in Workers, ProcessFails(w) \/ Crash(w)
      PROVE  interrupted'[m] = IF InAttempt(w) /\ job[w].msg = m
                                 THEN interrupted[m] + 1 ELSE interrupted[m]
  <2>1. CutOff(w)
    BY <1>1 DEF ProcessFails, Crash
  <2>2. CASE InAttempt(w)
    BY <1>0, <2>1, <2>2 DEF CutOff, HistoryTypeOK
  <2>3. CASE ~InAttempt(w)
    BY <2>1, <2>3 DEF CutOff
  <2> QED
    BY <2>2, <2>3
<1>2. CASE UNCHANGED interrupted
  <2>1. \A w \in Workers :
          InAttempt(w) /\ job[w].msg = m => ~(ProcessFails(w) \/ Crash(w))
    BY <1>0, <1>1, <1>2
  <2> QED
    BY <1>0, <1>2, <2>1
<1>3. ASSUME NEW w \in Workers, ProcessFails(w) \/ Crash(w)
      PROVE  interrupted'[m] \in Nat /\ interrupted[m] <= interrupted'[m]
  BY <1>0, <1>1, <1>3
<1> QED
  BY <1>0, <1>1, <1>2, <1>3, HistorySteps DEF HistoryStep

\* An attempt ends with its status write, or is cut off.
LEMMA AttemptGoesOn ==
  ASSUME TypeInv, HandInv, NEW w \in Workers, Stride(w), InAttempt(w)
  PROVE  \/ InAttempt(w)' /\ job'[w].msg = job[w].msg
         \/ UpdateStatus(w) \/ ProcessFails(w) \/ Crash(w)
<1>0. ConsumerTypeOK /\ WorkOK
  BY DEF TypeInv, TypeOK
<1>1. CASE pc'[w] = pc[w] /\ job'[w] = job[w]
  BY <1>1 DEF InAttempt
<1>2. CASE WriteSendingEvent(w) \/ AddSuppression(w)
  <2>1. pc[w] = "suppress" => job[w].decision = "bounced"
    BY DEF HandInv, DecisionKnown
  <2> QED
    BY <1>0, <1>2, <2>1
       DEF WriteSendingEvent, AddSuppression, Goto, ConsumerTypeOK, InAttempt,
           OutcomeDecisions
<1>3. CASE WriteDeliveryAttempt(w)
  <2> DEFINE d(kind) == Outcome(kind, job[w].attempt)
  <2>1. PICK kind \in Kinds : Decide(w, d(kind), AfterAttempt(kind))
    BY <1>0, <1>3, ConstantsAssumption
       DEF WriteDeliveryAttempt, WorkOK, WorkingPCs, Recipients
  <2>2. d(kind) \in OutcomeDecisions
    BY <1>0, OutcomeDecision DEF ConsumerTypeOK, Jobs
  <2> HIDE DEF d
  <2>3. /\ pc'[w] = AfterAttempt(kind) /\ job'[w].msg = job[w].msg
        /\ job'[w].decision = d(kind)
    BY <1>0, <2>1 DEF Decide, Goto, ConsumerTypeOK, Jobs
  <2> QED
    BY <2>2, <2>3 DEF InAttempt, AfterAttempt
<1> QED
  BY <1>1, <1>2, <1>3
     DEF Stride, InAttempt, DecidingPCs, GatePCs, Load, Skip, AtEntry, MarkSending

LEMMA BudgetNext ==
  OneWorker /\ TypeInv /\ RowInv /\ BudgetInv /\ [Next]_vars => BudgetInv'
<1> SUFFICES ASSUME OneWorker, TypeInv, RowInv, BudgetInv, [Next]_vars,
                    NEW m \in Messages
             PROVE  /\ attempt_count'[m] <= MaxAttempts + interrupted'[m]
                    /\ ~Terminal(m)' /\ ~Attempting(m)'
                         => attempt_count'[m] < MaxAttempts + interrupted'[m]
  BY DEF BudgetInv, RetryBudget, AttemptLeft
<1>0. /\ DbTypeOK /\ ConsumerTypeOK /\ WorkOK /\ HandInv
      /\ attempt_count[m] \in Nat /\ MaxAttempts \in Nat
      /\ attempt_count[m] <= MaxAttempts + interrupted[m]
      /\ ~Terminal(m) /\ ~Attempting(m)
           => attempt_count[m] < MaxAttempts + interrupted[m]
  BY ConstantsAssumption
     DEF TypeInv, TypeOK, DbTypeOK, RowInv, BudgetInv, RetryBudget, AttemptLeft
<1>1. interrupted[m] \in Nat /\ interrupted'[m] \in Nat /\ interrupted[m] <= interrupted'[m]
  BY CutOffCounts
<1>2. ASSUME NEW w \in Workers, MarkSending(w), job[w].msg = m
      PROVE  attempt_count'[m] <= MaxAttempts + interrupted'[m] /\ Attempting(m)'
  <2>1. ~Attempting(m) /\ ~Terminal(m)
    BY <1>0, <1>2, WritesAreLive
       DEF OneWorker, MarkSending, Attempting, InAttempt, Live, LiveStatuses, Terminal,
           TerminalStatuses
  <2>2. job[w].attempt = attempt_count[m]
    BY <1>0, <1>2, WritesAreLive
  <2>3. attempt_count'[m] = attempt_count[m] + 1
    BY <1>0, <1>2, <2>2 DEF MarkSending, UpdateMessageStatus, CountedAttempt, DbTypeOK
  <2>4. pc'[w] = "sending_event" /\ job'[w].msg = m
    BY <1>0, <1>2 DEF MarkSending, Goto, ConsumerTypeOK, Jobs
  <2> QED
    BY <1>0, <1>1, <2>1, <2>3, <2>4 DEF Attempting, InAttempt
<1>3. ASSUME NEW w \in Workers, UpdateStatus(w), job[w].msg = m
      PROVE  /\ attempt_count'[m] = attempt_count[m]
             /\ ~Terminal(m)' => attempt_count'[m] < MaxAttempts + interrupted'[m]
  <2> DEFINE d == job[w].decision
  <2>1. /\ d \in Decisions /\ pc[w] = "update_status"
        /\ Live(m) /\ job[w].attempt = attempt_count[m]
    BY <1>0, <1>3, WritesAreLive DEF UpdateStatus, WorkOK, DecidedPCs
  <2>2. attempt_count'[m] = attempt_count[m] /\ status'[m] = StatusOf(d)
    BY <1>0, <1>3, <2>1 DEF UpdateStatus, UpdateMessageStatus, DbTypeOK
  <2>3. CASE InAttempt(w)
    <3>1. StatusOf(d) \notin TerminalStatuses => d = "retry"
      <4>1. d \in OutcomeDecisions
        BY <2>1, <2>3 DEF InAttempt
      <4> QED
        BY <4>1 DEF OutcomeDecisions, StatusOf, TerminalStatuses
    <3>2. d = "retry" => attempt_count[m] < MaxAttempts
      BY <1>0, <2>1 DEF HandInv, DecisionKnown
    <3> QED
      BY <1>0, <1>1, <2>2, <3>1, <3>2 DEF Terminal
  <2>4. CASE ~InAttempt(w)
    <3>1. ~Attempting(m) /\ ~Terminal(m)
      BY <2>1, <2>4
         DEF OneWorker, Attempting, Live, LiveStatuses, Terminal, TerminalStatuses
    <3> QED
      BY <1>0, <1>1, <2>2, <3>1
  <2> QED
    BY <2>3, <2>4
<1>4. CASE \A w \in Workers : MarkSending(w) \/ UpdateStatus(w) => job[w].msg # m
  <2>1. attempt_count'[m] = attempt_count[m] /\ (Terminal(m)' <=> Terminal(m))
    BY <1>4, CounterKept
  <2>2. ASSUME NEW w \in Workers, InAttempt(w), job[w].msg = m, ~Attempting(m)'
        PROVE  attempt_count[m] < MaxAttempts + interrupted'[m]
    <3>1. ProcessFails(w) \/ Crash(w)
      BY <1>0, <1>4, <2>2, Strides, AttemptGoesOn DEF Attempting
    <3>2. interrupted'[m] = interrupted[m] + 1
      BY <2>2, <3>1, CutOffCounts
    <3> QED
      BY <1>0, <1>1, <3>2
  <2>3. ~Attempting(m) /\ ~Terminal(m)
          => attempt_count[m] < MaxAttempts + interrupted'[m]
    BY <1>0, <1>1
  <2> QED
    BY <1>0, <1>1, <2>1, <2>2, <2>3 DEF Attempting
<1> QED
  BY <1>0, <1>1, <1>2, <1>3, <1>4

\* With one worker MAX_ATTEMPTS bounds the attempts of every message, but for the ones
\* that a crash or a failed call cut off: each of those costs one more and no more.
THEOREM RetriesAreBudgeted ==
  ASSUME OneWorker PROVE Spec => []RetryBudget
<1>1. Init => BudgetInv
  BY ConstantsAssumption DEF Init, BudgetInv, RetryBudget, AttemptLeft
<1>2. BudgetInv => RetryBudget
  BY DEF BudgetInv
<1> QED
  BY <1>1, <1>2, BudgetNext, RowInvariant, TypeInvariant, PTL DEF Spec

-----------------------------------------------------------------------------
(* The rows of delivery_attempts.                                          *)

\* The attempt of m is counted and its row is not written yet.
RowOwed(m) ==
  \E w \in Workers : pc[w] \in {"sending_event", "attempt_row"} /\ job[w].msg = m

Owing(m) == IF RowOwed(m) THEN 1 ELSE 0

Increasing(rows) == \A i, j \in DOMAIN rows : i < j => rows[i] < rows[j]

\* The rows of m are numbered below what is counted, and the count exceeds them by the
\* attempts that were cut off and the one that is owed a row.
RowsCounted(m) ==
  LET rows == delivery_attempts[m]
  IN  /\ Increasing(rows)
      /\ \A i \in DOMAIN rows : rows[i] + Owing(m) <= attempt_count[m]
      /\ Len(rows) + Owing(m) <= attempt_count[m]
      /\ attempt_count[m] <= Len(rows) + interrupted[m] + Owing(m)

RowsInv == \A m \in Messages : RowsCounted(m)

\* A row that exceeds those before it keeps the rows in order.
LEMMA AppendIncreasing ==
  ASSUME NEW rows \in Seq(Nat), NEW n \in Nat, Increasing(rows),
         \A i \in DOMAIN rows : rows[i] < n
  PROVE  /\ Increasing(Append(rows, n))
         /\ Len(Append(rows, n)) = Len(rows) + 1
         /\ \A i \in DOMAIN Append(rows, n) : Append(rows, n)[i] <= n
<1> DEFINE more == Append(rows, n)
<1>1. /\ DOMAIN rows = 1..Len(rows) /\ Len(rows) \in Nat
      /\ more \in Seq(Nat) /\ Len(more) = Len(rows) + 1 /\ more[Len(rows) + 1] = n
      /\ \A i \in 1..Len(rows) : more[i] = rows[i] /\ rows[i] \in Nat
  OBVIOUS
<1>2. DOMAIN more = 1..(Len(rows) + 1)
  BY <1>1
<1> HIDE DEF more
<1>3. ASSUME NEW i \in DOMAIN more PROVE more[i] <= n
  <2>1. CASE i \in 1..Len(rows)
    BY <1>1, <2>1
  <2>2. CASE i = Len(rows) + 1
    BY <1>1, <2>2
  <2> QED
    BY <1>1, <1>2, <2>1, <2>2
<1>4. ASSUME NEW i \in DOMAIN more, NEW j \in DOMAIN more, i < j
      PROVE  more[i] < more[j]
  <2>1. i \in 1..Len(rows)
    BY <1>1, <1>2, <1>4
  <2>2. CASE j \in 1..Len(rows)
    BY <1>1, <1>4, <2>1, <2>2 DEF Increasing
  <2>3. CASE j = Len(rows) + 1
    BY <1>1, <2>1, <2>3
  <2> QED
    BY <1>1, <1>2, <2>2, <2>3
<1> QED
  BY <1>1, <1>3, <1>4 DEF more, Increasing

\* Only an attempt that begins comes to owe a row; it owes it until it writes it or is
\* cut off.
LEMMA OwedGoesOn ==
  ASSUME TypeInv, HandInv, [Next]_vars, NEW m \in Messages,
         \A w \in Workers : MarkSending(w) \/ WriteDeliveryAttempt(w) => job[w].msg # m
  PROVE  /\ RowOwed(m)' => RowOwed(m)
         /\ RowOwed(m) => \/ RowOwed(m)'
                          \/ \E w \in Workers : /\ InAttempt(w) /\ job[w].msg = m
                                                /\ ProcessFails(w) \/ Crash(w)
<1>0. ConsumerTypeOK /\ WorkOK
  BY DEF TypeInv, TypeOK
<1>1. ASSUME NEW w \in Workers, pc'[w] \in {"sending_event", "attempt_row"},
             job'[w].msg = m
      PROVE  pc[w] \in {"sending_event", "attempt_row"} /\ job[w].msg = m
  <2>1. CASE pc'[w] = pc[w] /\ job'[w] = job[w]
    BY <1>1, <2>1
  <2>2. CASE WriteSendingEvent(w)
    BY <1>1, <2>2 DEF WriteSendingEvent
  <2>3. CASE MarkSending(w)
    BY <1>0, <1>1, <2>3 DEF MarkSending, ConsumerTypeOK, Jobs
  <2>4. CASE WriteDeliveryAttempt(w)
    <3>1. PICK kind, d : Decide(w, d, AfterAttempt(kind))
      BY <2>4 DEF WriteDeliveryAttempt
    <3> QED
      BY <1>0, <1>1, <3>1 DEF Decide, Goto, AfterAttempt, ConsumerTypeOK
  <2>5. CASE Load(w) \/ AddSuppression(w) \/ UpdateStatus(w) \/ ProcessFails(w) \/ Crash(w)
    BY <1>0, <1>1, <2>5
       DEF Load, Skip, AddSuppression, UpdateStatus, ProcessFails, Crash, EndOfEntry, Goto,
           ConsumerTypeOK
  <2> QED
    BY <1>1, <2>1, <2>2, <2>3, <2>4, <2>5, Strides DEF Stride, DecidingPCs, GatePCs
<1>2. ASSUME NEW w \in Workers, pc[w] \in {"sending_event", "attempt_row"},
             job[w].msg = m
      PROVE  \/ pc'[w] \in {"sending_event", "attempt_row"} /\ job'[w].msg = m
             \/ ProcessFails(w) \/ Crash(w)
  <2>1. CASE pc'[w] = pc[w] /\ job'[w] = job[w]
    BY <1>2, <2>1
  <2>2. CASE WriteSendingEvent(w)
    BY <1>0, <1>2, <2>2 DEF WriteSendingEvent, Goto, ConsumerTypeOK
  <2> QED
    BY <1>2, <2>1, <2>2, Strides
       DEF Stride, DecidingPCs, GatePCs, Load, Skip, AtEntry, MarkSending, AddSuppression,
           UpdateStatus
<1>3. RowOwed(m)' => RowOwed(m)
  BY <1>1 DEF RowOwed
<1>4. RowOwed(m) => \/ RowOwed(m)'
                    \/ \E w \in Workers : /\ InAttempt(w) /\ job[w].msg = m
                                          /\ ProcessFails(w) \/ Crash(w)
  BY <1>2 DEF RowOwed, InAttempt
<1> QED
  BY <1>3, <1>4

LEMMA RowsNext ==
  OneWorker /\ TypeInv /\ RowInv /\ RowsInv /\ [Next]_vars => RowsInv'
<1> SUFFICES ASSUME OneWorker, TypeInv, RowInv, RowsInv, [Next]_vars, NEW m \in Messages
             PROVE  RowsCounted(m)'
  BY DEF RowsInv
<1> DEFINE rows == delivery_attempts[m]
           n == attempt_count[m]
<1>0. /\ DbTypeOK /\ ConsumerTypeOK /\ WorkOK /\ HandInv
      /\ n \in Nat /\ rows \in Seq(Nat) /\ Len(rows) \in Nat /\ RowsCounted(m)
      /\ \A i \in DOMAIN rows : rows[i] \in Nat
  BY DEF TypeInv, TypeOK, DbTypeOK, RowInv, RowsInv
<1>1. interrupted[m] \in Nat /\ interrupted'[m] \in Nat /\ interrupted[m] <= interrupted'[m]
  BY CutOffCounts
<1>2. ASSUME NEW w \in Workers, MarkSending(w), job[w].msg = m PROVE RowsCounted(m)'
  <2>1. ~RowOwed(m) /\ job[w].attempt = n
    BY <1>0, <1>2, WritesAreLive DEF OneWorker, MarkSending, RowOwed
  <2>2. /\ attempt_count'[m] = n + 1 /\ delivery_attempts'[m] = rows
        /\ interrupted' = interrupted
    BY <1>0, <1>2, <2>1
       DEF MarkSending, UpdateMessageStatus, CountedAttempt, DbTypeOK, historyVars
  <2>3. Owing(m) = 0 /\ Owing(m)' \in {0, 1}
    BY <2>1 DEF Owing
  <2>4. pc'[w] = "sending_event" /\ job'[w].msg = m
    BY <1>0, <1>2 DEF MarkSending, Goto, ConsumerTypeOK, Jobs
  <2>5. Owing(m)' = 1
    BY <2>4 DEF Owing, RowOwed
  <2> QED
    BY <1>0, <1>1, <2>2, <2>3, <2>5 DEF RowsCounted
<1>3. ASSUME NEW w \in Workers, WriteDeliveryAttempt(w), job[w].msg = m
      PROVE  RowsCounted(m)'
  <2>1. RowOwed(m) /\ job[w].attempt = n
    BY <1>0, <1>3
       DEF WriteDeliveryAttempt, RowOwed, HandInv, RowKnown, DecidingPCs
  <2>2. /\ attempt_count'[m] = n /\ delivery_attempts'[m] = Append(rows, n)
        /\ interrupted' = interrupted
    BY <1>0, <1>3, <2>1 DEF WriteDeliveryAttempt, DbTypeOK, historyVars
  <2>3. ~RowOwed(m)'
    <3>1. PICK kind, d : Decide(w, d, AfterAttempt(kind))
      BY <1>3 DEF WriteDeliveryAttempt
    <3>2. pc'[w] \notin {"sending_event", "attempt_row"}
      BY <1>0, <3>1 DEF Decide, Goto, AfterAttempt, ConsumerTypeOK
    <3> QED
      BY <3>2 DEF OneWorker, RowOwed
  <2>4. Owing(m) = 1 /\ Owing(m)' = 0
    BY <2>1, <2>3 DEF Owing
  <2>5. \A i \in DOMAIN rows : rows[i] < n
    BY <1>0, <2>4 DEF RowsCounted
  <2>6. /\ Increasing(Append(rows, n)) /\ Len(Append(rows, n)) = Len(rows) + 1
        /\ \A i \in DOMAIN Append(rows, n) :
             Append(rows, n)[i] <= n /\ Append(rows, n)[i] \in Nat
    <3>1. Increasing(rows)
      BY <1>0 DEF RowsCounted
    <3>2. Append(rows, n) \in Seq(Nat)
      BY <1>0, AppendType
    <3> QED
      BY <1>0, <2>5, <3>1, <3>2, AppendIncreasing
  <2> DEFINE more == Append(rows, n)
  <2>7. delivery_attempts'[m] = more
    BY <2>2
  <2>8. Increasing(more) /\ Len(more) = Len(rows) + 1
    BY <2>6
  <2>9. \A i \in DOMAIN more : more[i] <= n /\ more[i] \in Nat
    BY <2>6
  <2> HIDE DEF more
  <2> QED
    BY <1>0, <1>1, <2>2, <2>4, <2>7, <2>8, <2>9 DEF RowsCounted
<1>4. CASE \A w \in Workers : MarkSending(w) \/ WriteDeliveryAttempt(w) => job[w].msg # m
  <2>1. attempt_count'[m] = n
    <3>1. CASE \A w \in Workers : MarkSending(w) \/ UpdateStatus(w) => job[w].msg # m
      BY <3>1, CounterKept
    <3>2. ASSUME NEW w \in Workers, UpdateStatus(w), job[w].msg = m
          PROVE  attempt_count'[m] = n
      BY <1>0, <3>2, WritesAreLive DEF UpdateStatus, UpdateMessageStatus, DbTypeOK
    <3> QED
      BY <1>4, <3>1, <3>2
  <2>2. delivery_attempts'[m] = rows
    <3>1. ASSUME NEW w \in Workers, WriteDeliveryAttempt(w)
          PROVE  delivery_attempts'[m] = rows
      <4>1. job[w].msg # m
        BY <1>4, <3>1
      <4> QED
        BY <1>0, <3>1, <4>1 DEF WriteDeliveryAttempt, DbTypeOK
    <3> QED
      BY <3>1, TableSteps DEF TableStep
  <2>3. CASE RowOwed(m)' <=> RowOwed(m)
    <3>1. Owing(m)' = Owing(m) /\ Owing(m) \in {0, 1}
      BY <2>3 DEF Owing
    <3> QED
      BY <1>0, <1>1, <2>1, <2>2, <3>1 DEF RowsCounted
  <2>4. CASE RowOwed(m) /\ ~RowOwed(m)'
    <3>1. Owing(m) = 1 /\ Owing(m)' = 0
      BY <2>4 DEF Owing
    <3>2. interrupted'[m] = interrupted[m] + 1
      BY <1>0, <1>4, <2>4, OwedGoesOn, CutOffCounts
    <3> QED
      BY <1>0, <1>1, <2>1, <2>2, <3>1, <3>2 DEF RowsCounted
  <2> QED
    BY <1>0, <1>4, <2>3, <2>4, OwedGoesOn
<1> QED
  BY <1>2, <1>3, <1>4

\* With one worker every row of delivery_attempts carries a number of its own, in order,
\* and attempt_count exceeds the rows by no more than the attempts that were cut off and
\* the one that is under way.
THEOREM AttemptsAreAccounted ==
  ASSUME OneWorker PROVE Spec => []AttemptsAccounted
<1>1. Init => RowsInv
  <2> SUFFICES ASSUME Init, NEW m \in Messages PROVE RowsCounted(m)
    BY DEF RowsInv
  <2>1. /\ delivery_attempts[m] = << >> /\ attempt_count[m] = 0 /\ interrupted[m] = 0
        /\ Owing(m) = 0
    BY DEF Init, Owing, RowOwed
  <2> QED
    BY <2>1 DEF RowsCounted, Increasing
<1>2. TypeInv /\ RowsInv => AttemptsAccounted
  <2> SUFFICES ASSUME TypeInv, RowsInv, NEW m \in Messages
               PROVE  /\ Increasing(delivery_attempts[m])
                      /\ Len(delivery_attempts[m]) <= attempt_count[m]
                      /\ attempt_count[m] <= Len(delivery_attempts[m]) + interrupted[m]
                           + Cardinality({w \in Workers : InAttempt(w) /\ job[w].msg = m})
    BY DEF AttemptsAccounted, Increasing
  <2> DEFINE busy == {w \in Workers : InAttempt(w) /\ job[w].msg = m}
  <2>0. /\ attempt_count[m] \in Nat /\ Len(delivery_attempts[m]) \in Nat
        /\ interrupted[m] \in Nat /\ RowsCounted(m) /\ Owing(m) \in {0, 1}
    BY DEF TypeInv, TypeOK, DbTypeOK, HistoryTypeOK, RowsInv, Owing
  <2>1. Cardinality(busy) \in Nat /\ Owing(m) <= Cardinality(busy)
    <3>1. CASE busy = {}
      <4>1. ~RowOwed(m)
        BY <3>1 DEF RowOwed, InAttempt
      <4> QED
        BY <3>1, <4>1, FS_EmptySet DEF Owing
    <3>2. ASSUME NEW w \in busy PROVE Cardinality(busy) = 1
      <4>1. busy = {w}
        BY <3>2 DEF OneWorker
      <4> QED
        BY <4>1, FS_Singleton
    <3> QED
      BY <2>0, <3>1, <3>2
  <2> HIDE DEF busy
  <2> QED
    BY <2>0, <2>1 DEF RowsCounted, busy
<1> QED
  BY <1>1, <1>2, RowsNext, RowInvariant, TypeInvariant, PTL DEF Spec
=============================================================================
