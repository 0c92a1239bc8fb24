------------------------ MODULE DeliveryEngineProofs ------------------------
(***************************************************************************)
(* Proofs about DeliveryEngine, for any number of messages, workers,       *)
(* attempts and faults.                                                    *)
(***************************************************************************)
EXTENDS DeliveryEngine, TLAPS

\* Where a consumer has a message in hand, and where its decision is made.
WorkingPCs == {"customer", "suppression", "route", "capacity", "mark_sending",
               "sending_event", "attempt_row", "suppress", "update_status", "event",
               "retry_event", "ack"}
DecidedPCs == {"suppress", "update_status", "event"}

\* What the type invariant needs to be inductive: a batch holds delivered entries, a
\* consumer at work has a message, and one that is about to write an outcome has decided which.
WorkOK ==
  \A w \in Workers :
    /\ batch[w] \subseteq 1..cursor
    /\ pc[w] \in WorkingPCs => job[w].msg \in Messages
    /\ pc[w] \in DecidedPCs => job[w].decision \in Decisions

TypeInv == TypeOK /\ WorkOK

-----------------------------------------------------------------------------
\* The group's cursor never passes the end of the stream, and never goes back.
LEMMA LastReadBounds ==
  ASSUME stream \in Seq(Messages), cursor \in 0..Len(stream)
  PROVE  LastRead \in cursor..Len(stream)
BY ConstantsAssumption DEF LastRead

\* The tables of statuses, events and retry times cover every decision.
LEMMA DecisionTables ==
  ASSUME NEW d \in Decisions
  PROVE  /\ StatusOf(d) \in Statuses \ {"none", "queued", "sending"}
         /\ EventOf(d) \in EventTypes
         /\ NextAttemptAt(d) \in {"null", "future"}
         /\ StatusOf(d) = "deferred" <=> NextAttemptAt(d) = "future"
         /\ StatusOf(d) = "bounced" <=> d = "bounced"
BY DEF Decisions, OutcomeDecisions, GateDecisions, StatusOf, EventOf, NextAttemptAt,
       Statuses, EventTypes

\* Every answer of a provider is given a decision, and "bounced" stands for a hard
\* bounce alone.
LEMMA OutcomeDecision ==
  ASSUME NEW kind \in Kinds, NEW attempt \in Nat
  PROVE  /\ Outcome(kind, attempt) \in OutcomeDecisions
         /\ Outcome(kind, attempt) = "bounced" <=> kind = "hard_bounce"
BY DEF Kinds, Outcome, OutcomeDecisions

-----------------------------------------------------------------------------
\* The parts of the invariant that a step leaves alone.
LEMMA Frame ==
  ASSUME TypeInv
  PROVE  /\ UNCHANGED dbVars => DbTypeOK'
         /\ UNCHANGED queueVars => QueueTypeOK'
         /\ UNCHANGED consumerVars => ConsumerTypeOK'
         /\ UNCHANGED pollerVars => PollerTypeOK'
         /\ UNCHANGED <<owed, historyVars, faults, holds>> => HistoryTypeOK'
         /\ UNCHANGED <<queueVars, consumerVars>> => WorkOK'
         /\ TypeInv' <=> /\ DbTypeOK' /\ QueueTypeOK' /\ ConsumerTypeOK'
                         /\ PollerTypeOK' /\ HistoryTypeOK' /\ WorkOK'
BY DEF TypeInv, TypeOK, dbVars, queueVars, consumerVars, pollerVars, historyVars,
       DbTypeOK, QueueTypeOK, ConsumerTypeOK, PollerTypeOK, HistoryTypeOK, WorkOK

\* The steps of a consumer that has a message in hand only move on, or move on with a
\* decision.
LEMMA GotoType ==
  ASSUME TypeInv, NEW w \in Workers, NEW p \in PCs, Goto(w, p),
         pc[w] \in WorkingPCs, p \notin DecidedPCs,
         UNCHANGED <<batch, job, queueVars>>
  PROVE  ConsumerTypeOK' /\ WorkOK'
BY DEF TypeInv, TypeOK, ConsumerTypeOK, WorkOK, Goto, queueVars

LEMMA DecideType ==
  ASSUME TypeInv, NEW w \in Workers, NEW d \in Decisions, NEW p \in PCs, Decide(w, d, p),
         pc[w] \in WorkingPCs, UNCHANGED <<batch, queueVars>>
  PROVE  ConsumerTypeOK' /\ WorkOK'
<1>1. [job[w] EXCEPT !.decision = d] \in Jobs
  BY DEF TypeInv, TypeOK, ConsumerTypeOK, Jobs
<1>2. job' = [job EXCEPT ![w] = [job[w] EXCEPT !.decision = d]]
  BY DEF Decide
<1>3. ConsumerTypeOK'
  BY <1>1, <1>2 DEF TypeInv, TypeOK, ConsumerTypeOK, Decide, Goto
<1>4. job'[w].msg = job[w].msg /\ job'[w].decision = d
  BY <1>2 DEF TypeInv, TypeOK, ConsumerTypeOK, Jobs
<1>5. WorkOK'
  BY <1>2, <1>4 DEF TypeInv, TypeOK, ConsumerTypeOK, WorkOK, Decide, Goto, queueVars
<1> QED
  BY <1>3, <1>5

LEMMA AppendType ==
  ASSUME NEW s \in Seq(Nat), NEW n \in Nat
  PROVE  Append(s, n) \in Seq(Nat)
OBVIOUS

LEMMA CutOffType ==
  ASSUME HistoryTypeOK, NEW w \in Workers, CutOff(w)
  PROVE  interrupted' \in [Messages -> Nat]
<1>1. CASE InAttempt(w)
  <2>1. interrupted' = [interrupted EXCEPT ![job[w].msg] = @ + 1]
    BY <1>1 DEF CutOff
  <2>2. ASSUME NEW m \in Messages PROVE interrupted'[m] \in Nat
    <3>1. interrupted[m] \in Nat /\ interrupted[m] + 1 \in Nat
      BY DEF HistoryTypeOK
    <3> QED
      BY <2>1, <3>1 DEF HistoryTypeOK
  <2>3. interrupted' = [m \in Messages |-> interrupted'[m]]
    BY <2>1 DEF HistoryTypeOK
  <2> QED
    BY <2>2, <2>3
<1>2. CASE ~InAttempt(w)
  BY <1>2 DEF HistoryTypeOK, CutOff
<1> QED
  BY <1>1, <1>2

LEMMA TypeInit == Init => TypeInv
<1> SUFFICES ASSUME Init PROVE TypeInv
  OBVIOUS
<1> USE ConstantsAssumption DEF Init
<1>1. DbTypeOK
  BY DEF DbTypeOK, Statuses, EventTypes
<1>2. QueueTypeOK
  <2>1. stream \in Seq(Messages) /\ Len(stream) = 0
    OBVIOUS
  <2>2. cursor \in 0..Len(stream)
    BY <2>1
  <2> QED
    BY <2>1, <2>2 DEF QueueTypeOK
<1>3. ConsumerTypeOK
  BY DEF ConsumerTypeOK, PCs, Jobs, NoJob
<1>4. PollerTypeOK /\ HistoryTypeOK
  BY DEF PollerTypeOK, HistoryTypeOK
<1>5. WorkOK
  BY DEF WorkOK, WorkingPCs, DecidedPCs
<1> QED
  BY <1>1, <1>2, <1>3, <1>4, <1>5 DEF TypeInv, TypeOK

LEMMA TypeNext == TypeInv /\ [Next]_vars => TypeInv'
<1> SUFFICES ASSUME TypeInv, [Next]_vars PROVE TypeInv'
  OBVIOUS
<1>0. DbTypeOK /\ QueueTypeOK /\ ConsumerTypeOK /\ PollerTypeOK /\ HistoryTypeOK /\ WorkOK
  BY DEF TypeInv, TypeOK
<1> USE <1>0, ConstantsAssumption
<1>1. ASSUME NEW m \in Messages, Accept(m) PROVE TypeInv'
  <2>1. DbTypeOK'
    BY <1>1 DEF Accept, DbTypeOK, Statuses, EventTypes
  <2>2. HistoryTypeOK'
    BY <1>1 DEF Accept, historyVars, HistoryTypeOK
  <2>3. UNCHANGED <<queueVars, consumerVars, pollerVars>>
    BY <1>1 DEF Accept
  <2> QED
    BY <2>1, <2>2, <2>3, Frame
<1>2. ASSUME NEW m \in Messages, ApiEnqueue(m) PROVE TypeInv'
  <2>1. QueueTypeOK'
    BY <1>2 DEF ApiEnqueue, Enqueue, QueueTypeOK
  <2>2. HistoryTypeOK'
    BY <1>2 DEF ApiEnqueue, historyVars, HistoryTypeOK
  <2>3. WorkOK'
    BY <1>2 DEF ApiEnqueue, Enqueue, consumerVars, WorkOK
  <2> QED
    BY <1>2, <2>1, <2>2, <2>3, Frame DEF ApiEnqueue
<1>3. ASSUME NEW m \in Messages, ApiEnqueueFails(m) PROVE TypeInv'
  <2>1. HistoryTypeOK'
    BY <1>3 DEF ApiEnqueueFails, Fault, HistoryTypeOK
  <2> QED
    BY <1>3, <2>1, Frame DEF ApiEnqueueFails
<1>4. ASSUME NEW m \in Messages, BackoffElapses(m) PROVE TypeInv'
  <2>1. DbTypeOK'
    BY <1>4 DEF BackoffElapses, DbTypeOK
  <2> QED
    BY <1>4, <2>1, Frame DEF BackoffElapses
<1>5. ASSUME NEW e \in pel, EntryIdles(e) PROVE TypeInv'
  <2>1. QueueTypeOK'
    BY <1>5 DEF EntryIdles, QueueTypeOK
  <2>2. WorkOK'
    BY <1>5 DEF EntryIdles, consumerVars, WorkOK
  <2> QED
    BY <1>5, <2>1, <2>2, Frame DEF EntryIdles
<1>6. ASSUME NEW w \in Workers, EnsureGroup(w) PROVE TypeInv'
  <2>1. QueueTypeOK'
    BY <1>6 DEF EnsureGroup, QueueTypeOK
  <2>2. ConsumerTypeOK'
    BY <1>6 DEF EnsureGroup, Goto, ConsumerTypeOK, PCs
  <2>3. HistoryTypeOK'
    BY <1>6 DEF EnsureGroup, Entries, HistoryTypeOK, QueueTypeOK
  <2>4. WorkOK'
    BY <1>6
       DEF EnsureGroup, QueueTypeOK, ConsumerTypeOK, Goto, WorkOK, WorkingPCs, DecidedPCs
  <2> QED
    BY <1>6, <2>1, <2>2, <2>3, <2>4, Frame DEF EnsureGroup
<1>7. ASSUME NEW w \in Workers, Reclaim(w) PROVE TypeInv'
  <2>1. QueueTypeOK'
    BY <1>7 DEF Reclaim, Lowest, QueueTypeOK
  <2>2. ConsumerTypeOK'
    <3>1. Lowest(idle, ReadBatch) \in SUBSET Nat
      <4>1. Lowest(idle, ReadBatch) \subseteq idle
        BY DEF Lowest
      <4>2. idle \subseteq Nat
        BY DEF QueueTypeOK
      <4> QED
        BY <4>1, <4>2
    <3> QED
      BY <1>7, <3>1 DEF Reclaim, Goto, ConsumerTypeOK, PCs
  <2>3. WorkOK'
    BY <1>7
       DEF Reclaim, Lowest, QueueTypeOK, ConsumerTypeOK, Goto, WorkOK, WorkingPCs,
           DecidedPCs
  <2> QED
    BY <1>7, <2>1, <2>2, <2>3, Frame DEF Reclaim
<1>8. ASSUME NEW w \in Workers, ReclaimFails(w) PROVE TypeInv'
  <2>1. ConsumerTypeOK'
    BY <1>8 DEF ReclaimFails, Goto, ConsumerTypeOK, PCs
  <2>2. HistoryTypeOK'
    BY <1>8 DEF ReclaimFails, Fault, historyVars, HistoryTypeOK
  <2>3. WorkOK'
    BY <1>8
       DEF ReclaimFails, queueVars, ConsumerTypeOK, Goto, WorkOK, WorkingPCs, DecidedPCs
  <2> QED
    BY <1>8, <2>1, <2>2, <2>3, Frame DEF ReclaimFails
<1>9. ASSUME NEW w \in Workers, Read(w) PROVE TypeInv'
  <2>1. QueueTypeOK'
    <3>1. /\ cursor \in Nat /\ Len(stream) \in Nat
          /\ LastRead \in Nat /\ cursor <= LastRead /\ LastRead <= Len(stream)
      BY LastReadBounds DEF QueueTypeOK
    <3>2. /\ stream' = stream /\ idle' = idle /\ group' = group
          /\ \/ cursor' = cursor /\ pel' = pel
             \/ cursor' = LastRead /\ pel' = pel \cup (cursor + 1 .. LastRead)
      BY <1>9 DEF Read
    <3> HIDE DEF LastRead
    <3>3. cursor' \in cursor..LastRead
      BY <3>1, <3>2
    <3>4. pel' \subseteq 1..cursor' /\ idle' \subseteq pel'
      <4>1. cursor' \in Nat /\ cursor <= cursor'
        BY <3>1, <3>3
      <4>2. pel \subseteq 1..cursor'
        BY <3>1, <4>1 DEF QueueTypeOK
      <4>3. CASE cursor' = cursor /\ pel' = pel
        BY <3>2, <4>2, <4>3 DEF QueueTypeOK
      <4>4. CASE cursor' = LastRead /\ pel' = pel \cup (cursor + 1 .. LastRead)
        <5>1. cursor + 1 .. LastRead \subseteq 1..cursor'
          BY <3>1, <4>4
        <5> QED
          BY <3>2, <4>2, <4>4, <5>1 DEF QueueTypeOK
      <4> QED
        BY <3>2, <4>3, <4>4
    <3>5. cursor' \in 0..Len(stream')
      BY <3>1, <3>2, <3>3
    <3> QED
      BY <3>2, <3>4, <3>5 DEF QueueTypeOK
  <2>2. ConsumerTypeOK'
    BY <1>9, LastReadBounds
       DEF Read, Goto, AfterIdleRead, ConsumerTypeOK, QueueTypeOK, PCs
  <2>3. WorkOK'
    BY <1>9, LastReadBounds
       DEF Read, AfterIdleRead, QueueTypeOK, ConsumerTypeOK, Goto, WorkOK, WorkingPCs,
           DecidedPCs
  <2> QED
    BY <1>9, <2>1, <2>2, <2>3, Frame DEF Read
<1>10. ASSUME NEW w \in Workers, Load(w) PROVE TypeInv'
  <2>1. ConsumerTypeOK'
    <3>1. PICK e \in batch[w] :
            /\ batch' = [batch EXCEPT ![w] = @ \ {e}]
            /\ job' = [job EXCEPT ![w] =
                         [entry |-> e, msg |-> stream[e],
                          attempt |-> attempt_count[stream[e]], decision |-> "none"]]
            /\ Goto(w, "ack") \/ Goto(w, "customer")
      BY <1>10 DEF Load, Skip
    <3>2. e \in Nat /\ stream[e] \in Messages
      BY DEF WorkOK, QueueTypeOK
    <3>3. [entry |-> e, msg |-> stream[e], attempt |-> attempt_count[stream[e]],
           decision |-> "none"] \in Jobs
      BY <3>2 DEF DbTypeOK, Jobs
    <3> QED
      BY <3>1, <3>2, <3>3 DEF ConsumerTypeOK, Goto, PCs
  <2>2. WorkOK'
    BY <1>10
       DEF Load, Skip, queueVars, QueueTypeOK, ConsumerTypeOK, Goto, WorkOK, WorkingPCs,
           DecidedPCs
  <2>3. HistoryTypeOK'
    <3>1. dropped' \subseteq Messages
      BY <1>10 DEF Load, Skip, HistoryTypeOK, WorkOK, QueueTypeOK
    <3> QED
      BY <1>10, <3>1 DEF Load, HistoryTypeOK
  <2> QED
    BY <1>10, <2>1, <2>2, <2>3, Frame DEF Load
<1>11. ASSUME NEW w \in Workers, GetCustomer(w) PROVE TypeInv'
  <2>1. ConsumerTypeOK' /\ WorkOK'
    BY <1>11, DecideType, GotoType
       DEF GetCustomer, PCs, WorkingPCs, DecidedPCs, Decisions, GateDecisions
  <2> QED
    BY <1>11, <2>1, Frame DEF GetCustomer
<1>12. ASSUME NEW w \in Workers, IsSuppressed(w) PROVE TypeInv'
  <2>1. ConsumerTypeOK' /\ WorkOK'
    BY <1>12, DecideType, GotoType
       DEF IsSuppressed, PCs, WorkingPCs, DecidedPCs, Decisions, GateDecisions
  <2> QED
    BY <1>12, <2>1, Frame DEF IsSuppressed
<1>13. ASSUME NEW w \in Workers, SelectRoute(w) PROVE TypeInv'
  <2>1. ConsumerTypeOK' /\ WorkOK'
    BY <1>13, DecideType, GotoType
       DEF SelectRoute, PCs, WorkingPCs, DecidedPCs, Decisions, GateDecisions
  <2> QED
    BY <1>13, <2>1, Frame DEF SelectRoute
<1>14. ASSUME NEW w \in Workers, CheckCapacity(w) PROVE TypeInv'
  <2>1. ConsumerTypeOK' /\ WorkOK'
    BY <1>14, DecideType, GotoType
       DEF CheckCapacity, PCs, WorkingPCs, DecidedPCs, Decisions, GateDecisions
  <2>2. HistoryTypeOK'
    BY <1>14 DEF CheckCapacity, historyVars, HistoryTypeOK
  <2> QED
    BY <1>14, <2>1, <2>2, Frame DEF CheckCapacity
<1>15. ASSUME NEW w \in Workers, MarkSending(w) PROVE TypeInv'
  <2>1. DbTypeOK'
    <3>1. job[w].attempt + 1 \in Nat
      BY DEF ConsumerTypeOK, Jobs
    <3> QED
      BY <1>15, <3>1
         DEF MarkSending, UpdateMessageStatus, CountedAttempt, DbTypeOK, Statuses
  <2>2. ConsumerTypeOK'
    BY <1>15 DEF MarkSending, Goto, ConsumerTypeOK, Jobs, PCs
  <2>3. WorkOK'
    BY <1>15
       DEF MarkSending, queueVars, ConsumerTypeOK, Jobs, Goto, WorkOK, WorkingPCs,
           DecidedPCs
  <2> QED
    BY <1>15, <2>1, <2>2, <2>3, Frame DEF MarkSending
<1>16. ASSUME NEW w \in Workers, WriteSendingEvent(w) PROVE TypeInv'
  <2>1. DbTypeOK'
    BY <1>16 DEF WriteSendingEvent, WriteEvent, DbTypeOK, EventTypes
  <2>2. ConsumerTypeOK'
    BY <1>16 DEF WriteSendingEvent, WriteEvent, Goto, ConsumerTypeOK, PCs
  <2>3. WorkOK'
    BY <1>16
       DEF WriteSendingEvent, WriteEvent, queueVars, ConsumerTypeOK, Goto, WorkOK,
           WorkingPCs, DecidedPCs
  <2>4. UNCHANGED <<queueVars, pollerVars, owed, historyVars, faults, holds>>
    BY <1>16 DEF WriteSendingEvent, WriteEvent
  <2> QED
    BY <2>1, <2>2, <2>3, <2>4, Frame
<1>17. ASSUME NEW w \in Workers, WriteDeliveryAttempt(w) PROVE TypeInv'
  <2> DEFINE d(kind) == Outcome(kind, job[w].attempt)
  <2>1. PICK kind \in Kinds : Decide(w, d(kind), AfterAttempt(kind))
    BY <1>17 DEF WriteDeliveryAttempt, WorkOK, WorkingPCs, Recipients
  <2>2. d(kind) \in Decisions /\ AfterAttempt(kind) \in PCs \cap WorkingPCs
    BY OutcomeDecision DEF ConsumerTypeOK, Jobs, Decisions, AfterAttempt, PCs, WorkingPCs
  <2> HIDE DEF d
  <2>3. DbTypeOK'
    BY <1>17, AppendType
       DEF WriteDeliveryAttempt, DbTypeOK, ConsumerTypeOK, Jobs
  <2>4. ConsumerTypeOK' /\ WorkOK'
    BY <1>17, <2>1, <2>2, DecideType DEF WriteDeliveryAttempt, WorkingPCs
  <2>5. UNCHANGED <<queueVars, pollerVars, owed, historyVars, faults, holds>>
    BY <1>17 DEF WriteDeliveryAttempt
  <2> QED
    BY <2>1, <2>2, <2>3, <2>4, <2>5, Frame
<1>18. ASSUME NEW w \in Workers, AddSuppression(w) PROVE TypeInv'
  <2>1. DbTypeOK'
    BY <1>18 DEF AddSuppression, DbTypeOK, WorkOK, WorkingPCs, Recipients
  <2>2. ConsumerTypeOK'
    BY <1>18 DEF AddSuppression, Goto, ConsumerTypeOK, PCs
  <2>3. WorkOK'
    BY <1>18
       DEF AddSuppression, queueVars, ConsumerTypeOK, Goto, WorkOK, WorkingPCs, DecidedPCs
  <2> QED
    BY <1>18, <2>1, <2>2, <2>3, Frame DEF AddSuppression
<1>19. ASSUME NEW w \in Workers, UpdateStatus(w) PROVE TypeInv'
  <2>1. DbTypeOK'
    BY <1>19, DecisionTables
       DEF UpdateStatus, UpdateMessageStatus, DbTypeOK, ConsumerTypeOK, WorkOK,
           DecidedPCs, Jobs
  <2>2. ConsumerTypeOK'
    BY <1>19 DEF UpdateStatus, Goto, ConsumerTypeOK, PCs
  <2>3. WorkOK'
    BY <1>19
       DEF UpdateStatus, queueVars, ConsumerTypeOK, Goto, WorkOK, WorkingPCs, DecidedPCs
  <2> QED
    BY <1>19, <2>1, <2>2, <2>3, Frame DEF UpdateStatus
<1>20. ASSUME NEW w \in Workers, WriteDecisionEvent(w) PROVE TypeInv'
  <2>1. DbTypeOK'
    <3>1. EventOf(job[w].decision) \in EventTypes
      BY <1>20, DecisionTables DEF WriteDecisionEvent, WorkOK, DecidedPCs
    <3> QED
      BY <1>20, <3>1 DEF WriteDecisionEvent, WriteEvent, DbTypeOK
  <2>2. ConsumerTypeOK'
    BY <1>20 DEF WriteDecisionEvent, WriteEvent, Goto, ConsumerTypeOK, PCs
  <2>3. WorkOK'
    BY <1>20
       DEF WriteDecisionEvent, WriteEvent, queueVars, ConsumerTypeOK, Goto, WorkOK,
           WorkingPCs, DecidedPCs
  <2>4. UNCHANGED <<queueVars, pollerVars, owed, historyVars, faults, holds>>
    BY <1>20 DEF WriteDecisionEvent, WriteEvent
  <2> QED
    BY <2>1, <2>2, <2>3, <2>4, Frame
<1>21. ASSUME NEW w \in Workers, WriteRetryEvent(w) PROVE TypeInv'
  <2>1. DbTypeOK'
    BY <1>21 DEF WriteRetryEvent, WriteEvent, DbTypeOK, EventTypes
  <2>2. ConsumerTypeOK'
    BY <1>21 DEF WriteRetryEvent, WriteEvent, Goto, ConsumerTypeOK, PCs
  <2>3. WorkOK'
    BY <1>21
       DEF WriteRetryEvent, WriteEvent, queueVars, ConsumerTypeOK, Goto, WorkOK,
           WorkingPCs, DecidedPCs
  <2>4. UNCHANGED <<queueVars, pollerVars, owed, historyVars, faults, holds>>
    BY <1>21 DEF WriteRetryEvent, WriteEvent
  <2> QED
    BY <2>1, <2>2, <2>3, <2>4, Frame
<1>22. ASSUME NEW w \in Workers, Ack(w) PROVE TypeInv'
  <2>1. QueueTypeOK'
    BY <1>22 DEF Ack, QueueTypeOK
  <2>2. ConsumerTypeOK'
    BY <1>22 DEF Ack, EndOfEntry, Goto, NoJob, ConsumerTypeOK, Jobs, PCs
  <2>3. WorkOK'
    BY <1>22 DEF Ack, EndOfEntry, ConsumerTypeOK, Goto, WorkOK, WorkingPCs, DecidedPCs
  <2> QED
    BY <1>22, <2>1, <2>2, <2>3, Frame DEF Ack
<1>23. ASSUME NEW w \in Workers, LoadFails(w) PROVE TypeInv'
  <2>1. ConsumerTypeOK'
    BY <1>23 DEF LoadFails, ConsumerTypeOK
  <2>2. HistoryTypeOK'
    BY <1>23 DEF LoadFails, Fault, historyVars, HistoryTypeOK
  <2>3. WorkOK'
    BY <1>23 DEF LoadFails, queueVars, WorkOK, ConsumerTypeOK
  <2> QED
    BY <1>23, <2>1, <2>2, <2>3, Frame DEF LoadFails
<1>24. ASSUME NEW w \in Workers, SelectRouteFails(w) PROVE TypeInv'
  <2>1. ConsumerTypeOK' /\ WorkOK'
    BY <1>24, DecideType, GotoType
       DEF SelectRouteFails, PCs, WorkingPCs, DecidedPCs, Decisions, GateDecisions
  <2>2. HistoryTypeOK'
    BY <1>24 DEF SelectRouteFails, Fault, historyVars, HistoryTypeOK
  <2> QED
    BY <1>24, <2>1, <2>2, Frame DEF SelectRouteFails
<1>25. ASSUME NEW w \in Workers, ProcessFails(w) PROVE TypeInv'
  <2>1. QueueTypeOK'
    BY <1>25 DEF ProcessFails, PendingAfterError, QueueTypeOK
  <2>2. ConsumerTypeOK'
    BY <1>25 DEF ProcessFails, EndOfEntry, Goto, NoJob, ConsumerTypeOK, Jobs, PCs
  <2>3. HistoryTypeOK'
    BY <1>25, CutOffType DEF ProcessFails, Fault, HistoryTypeOK
  <2>4. WorkOK'
    BY <1>25
       DEF ProcessFails, EndOfEntry, ConsumerTypeOK, Goto, WorkOK, WorkingPCs, DecidedPCs
  <2> QED
    BY <1>25, <2>1, <2>2, <2>3, <2>4, Frame DEF ProcessFails
<1>26. ASSUME NEW w \in Workers, Crash(w) PROVE TypeInv'
  <2>1. ConsumerTypeOK'
    BY <1>26 DEF Crash, Goto, NoJob, ConsumerTypeOK, Jobs, PCs
  <2>2. PollerTypeOK'
    BY <1>26 DEF Crash, PollerTypeOK
  <2>3. HistoryTypeOK'
    BY <1>26, CutOffType DEF Crash, Fault, HistoryTypeOK
  <2>4. WorkOK'
    BY <1>26 DEF Crash, queueVars, ConsumerTypeOK, Goto, WorkOK, WorkingPCs, DecidedPCs
  <2> QED
    BY <1>26, <2>1, <2>2, <2>3, <2>4, Frame DEF Crash
<1>27. ASSUME NEW w \in Workers, PollTick(w) PROVE TypeInv'
  <2>1. PollerTypeOK'
    BY <1>27 DEF PollTick, PollerTypeOK
  <2> QED
    BY <1>27, <2>1, Frame DEF PollTick
<1>28. ASSUME NEW w \in Workers, PollMark(w) PROVE TypeInv'
  <2>1. DbTypeOK'
    BY <1>28 DEF PollMark, MarkQueued, DbTypeOK, Statuses
  <2>2. PollerTypeOK'
    BY <1>28 DEF PollMark, PollerTypeOK
  <2> QED
    BY <1>28, <2>1, <2>2, Frame DEF PollMark
<1>29. ASSUME NEW w \in Workers, PollMarkFails(w) PROVE TypeInv'
  <2>1. DbTypeOK'
    BY <1>29 DEF PollMarkFails, MarkQueued, dbVars, DbTypeOK, Statuses
  <2>2. PollerTypeOK'
    BY <1>29 DEF PollMarkFails, PollerTypeOK
  <2>3. HistoryTypeOK'
    BY <1>29 DEF PollMarkFails, Fault, PollerTypeOK, HistoryTypeOK
  <2> QED
    BY <1>29, <2>1, <2>2, <2>3, Frame DEF PollMarkFails
<1>30. ASSUME NEW w \in Workers, PollEnqueue(w) PROVE TypeInv'
  <2>1. QueueTypeOK'
    BY <1>30 DEF PollEnqueue, Enqueue, QueueTypeOK, PollerTypeOK
  <2>2. PollerTypeOK'
    BY <1>30 DEF PollEnqueue, PollerTypeOK
  <2>3. WorkOK'
    BY <1>30 DEF PollEnqueue, Enqueue, consumerVars, WorkOK
  <2> QED
    BY <1>30, <2>1, <2>2, <2>3, Frame DEF PollEnqueue
<1>31. ASSUME NEW w \in Workers, PollEnqueueFails(w) PROVE TypeInv'
  <2>1. PollerTypeOK'
    BY <1>31 DEF PollEnqueueFails, PollerTypeOK
  <2>2. HistoryTypeOK'
    BY <1>31 DEF PollEnqueueFails, Fault, PollerTypeOK, HistoryTypeOK
  <2> QED
    BY <1>31, <2>1, <2>2, Frame DEF PollEnqueueFails
<1>32. CASE UNCHANGED vars
  BY <1>32, Frame DEF vars
<1> QED
  BY <1>1, <1>2, <1>3, <1>4, <1>5, <1>6, <1>7, <1>8, <1>9, <1>10, <1>11, <1>12, <1>13,
     <1>14, <1>15, <1>16, <1>17, <1>18, <1>19, <1>20, <1>21, <1>22, <1>23, <1>24, <1>25,
     <1>26, <1>27, <1>28, <1>29, <1>30, <1>31, <1>32
     DEF Next, Consume, Poll, Fail

LEMMA TypeInvariant == Spec => []TypeInv
BY TypeInit, TypeNext, PTL DEF Spec

\* Every variable keeps its type, whatever the number of workers and the order in
\* which their statements, the poller's and the failures fall.
THEOREM TypeCorrect == Spec => []TypeOK
BY TypeInvariant, PTL DEF TypeInv

-----------------------------------------------------------------------------
(* What a step may do, read off the actions once for all that follows.     *)

\* The five ways a step can change the status of messages and their retry times.
StatusStep ==
  \/ UNCHANGED <<status, attempt_count, next_attempt_at>>
  \/ \E m \in Messages : Accept(m) \/ BackoffElapses(m)
  \/ \E m \in Messages : MarkQueued(m)
  \/ \E w \in Workers : MarkSending(w) \/ UpdateStatus(w)

LEMMA StatusSteps == TypeInv /\ [Next]_vars => StatusStep
<1> SUFFICES ASSUME TypeInv, [Next]_vars PROVE StatusStep
  OBVIOUS
<1>1. ASSUME NEW m \in Messages, Accept(m) PROVE StatusStep
  BY <1>1 DEF StatusStep
<1>2. ASSUME NEW m \in Messages, ApiEnqueue(m) PROVE StatusStep
  BY <1>2 DEF ApiEnqueue, StatusStep, dbVars
<1>3. ASSUME NEW m \in Messages, ApiEnqueueFails(m) PROVE StatusStep
  BY <1>3 DEF ApiEnqueueFails, StatusStep, dbVars
<1>4. ASSUME NEW m \in Messages, BackoffElapses(m) PROVE StatusStep
  BY <1>4 DEF StatusStep
<1>5. ASSUME NEW e \in pel, EntryIdles(e) PROVE StatusStep
  BY <1>5 DEF EntryIdles, StatusStep, dbVars
<1>6. ASSUME NEW w \in Workers, EnsureGroup(w) PROVE StatusStep
  BY <1>6 DEF EnsureGroup, StatusStep, dbVars
<1>7. ASSUME NEW w \in Workers, Reclaim(w) PROVE StatusStep
  BY <1>7 DEF Reclaim, StatusStep, dbVars
<1>8. ASSUME NEW w \in Workers, ReclaimFails(w) PROVE StatusStep
  BY <1>8 DEF ReclaimFails, StatusStep, dbVars
<1>9. ASSUME NEW w \in Workers, Read(w) PROVE StatusStep
  BY <1>9 DEF Read, StatusStep, dbVars
<1>10. ASSUME NEW w \in Workers, Load(w) PROVE StatusStep
  BY <1>10 DEF Load, StatusStep, dbVars
<1>11. ASSUME NEW w \in Workers, GetCustomer(w) PROVE StatusStep
  BY <1>11 DEF GetCustomer, StatusStep, dbVars
<1>12. ASSUME NEW w \in Workers, IsSuppressed(w) PROVE StatusStep
  BY <1>12 DEF IsSuppressed, StatusStep, dbVars
<1>13. ASSUME NEW w \in Workers, SelectRoute(w) PROVE StatusStep
  BY <1>13 DEF SelectRoute, StatusStep, dbVars
<1>14. ASSUME NEW w \in Workers, CheckCapacity(w) PROVE StatusStep
  BY <1>14 DEF CheckCapacity, StatusStep, dbVars
<1>15. ASSUME NEW w \in Workers, MarkSending(w) PROVE StatusStep
  BY <1>15 DEF StatusStep
<1>16. ASSUME NEW w \in Workers, WriteSendingEvent(w) PROVE StatusStep
  BY <1>16 DEF WriteSendingEvent, StatusStep, WriteEvent
<1>17. ASSUME NEW w \in Workers, WriteDeliveryAttempt(w) PROVE StatusStep
  BY <1>17 DEF WriteDeliveryAttempt, StatusStep
<1>18. ASSUME NEW w \in Workers, AddSuppression(w) PROVE StatusStep
  BY <1>18 DEF AddSuppression, StatusStep
<1>19. ASSUME NEW w \in Workers, UpdateStatus(w) PROVE StatusStep
  BY <1>19 DEF StatusStep
<1>20. ASSUME NEW w \in Workers, WriteDecisionEvent(w) PROVE StatusStep
  BY <1>20 DEF WriteDecisionEvent, StatusStep, WriteEvent
<1>21. ASSUME NEW w \in Workers, WriteRetryEvent(w) PROVE StatusStep
  BY <1>21 DEF WriteRetryEvent, StatusStep, WriteEvent
<1>22. ASSUME NEW w \in Workers, Ack(w) PROVE StatusStep
  BY <1>22 DEF Ack, StatusStep, dbVars
<1>23. ASSUME NEW w \in Workers, LoadFails(w) PROVE StatusStep
  BY <1>23 DEF LoadFails, StatusStep, dbVars
<1>24. ASSUME NEW w \in Workers, SelectRouteFails(w) PROVE StatusStep
  BY <1>24 DEF SelectRouteFails, StatusStep, dbVars
<1>25. ASSUME NEW w \in Workers, ProcessFails(w) PROVE StatusStep
  BY <1>25 DEF ProcessFails, StatusStep, dbVars
<1>26. ASSUME NEW w \in Workers, Crash(w) PROVE StatusStep
  BY <1>26 DEF Crash, StatusStep, dbVars
<1>27. ASSUME NEW w \in Workers, PollTick(w) PROVE StatusStep
  BY <1>27 DEF PollTick, StatusStep, dbVars
<1>28. ASSUME NEW w \in Workers, PollMark(w) PROVE StatusStep
  BY <1>28 DEF PollMark, TypeInv, TypeOK, PollerTypeOK, StatusStep
<1>29. ASSUME NEW w \in Workers, PollMarkFails(w) PROVE StatusStep
  BY <1>29 DEF PollMarkFails, TypeInv, TypeOK, PollerTypeOK, StatusStep, dbVars
<1>30. ASSUME NEW w \in Workers, PollEnqueue(w) PROVE StatusStep
  BY <1>30 DEF PollEnqueue, StatusStep, dbVars
<1>31. ASSUME NEW w \in Workers, PollEnqueueFails(w) PROVE StatusStep
  BY <1>31 DEF PollEnqueueFails, StatusStep, dbVars
<1>32. CASE UNCHANGED vars
  BY <1>32 DEF vars, dbVars, StatusStep
<1> QED
  BY <1>1, <1>2, <1>3, <1>4, <1>5, <1>6, <1>7, <1>8, <1>9, <1>10, <1>11, <1>12, <1>13,
     <1>14, <1>15, <1>16, <1>17, <1>18, <1>19, <1>20, <1>21, <1>22, <1>23, <1>24, <1>25,
     <1>26, <1>27, <1>28, <1>29, <1>30, <1>31, <1>32
     DEF Next, Consume, Poll, Fail, vars

\* suppression_list and delivery_attempts have one writer each.
TableStep ==
  /\ UNCHANGED suppression_list \/ \E w \in Workers : AddSuppression(w)
  /\ UNCHANGED delivery_attempts \/ \E w \in Workers : WriteDeliveryAttempt(w)

LEMMA TableSteps == [Next]_vars => TableStep
<1> SUFFICES ASSUME [Next]_vars PROVE TableStep
  OBVIOUS
<1>1. ASSUME NEW m \in Messages, Accept(m) PROVE TableStep
  BY <1>1 DEF Accept, TableStep
<1>2. ASSUME NEW m \in Messages, ApiEnqueue(m) PROVE TableStep
  BY <1>2 DEF ApiEnqueue, dbVars, TableStep
<1>3. ASSUME NEW m \in Messages, ApiEnqueueFails(m) PROVE TableStep
  BY <1>3 DEF ApiEnqueueFails, dbVars, TableStep
<1>4. ASSUME NEW m \in Messages, BackoffElapses(m) PROVE TableStep
  BY <1>4 DEF BackoffElapses, TableStep
<1>5. ASSUME NEW e \in pel, EntryIdles(e) PROVE TableStep
  BY <1>5 DEF EntryIdles, dbVars, TableStep
<1>6. ASSUME NEW w \in Workers, EnsureGroup(w) PROVE TableStep
  BY <1>6 DEF EnsureGroup, dbVars, TableStep
<1>7. ASSUME NEW w \in Workers, Reclaim(w) PROVE TableStep
  BY <1>7 DEF Reclaim, dbVars, TableStep
<1>8. ASSUME NEW w \in Workers, ReclaimFails(w) PROVE TableStep
  BY <1>8 DEF ReclaimFails, dbVars, TableStep
<1>9. ASSUME NEW w \in Workers, Read(w) PROVE TableStep
  BY <1>9 DEF Read, dbVars, TableStep
<1>10. ASSUME NEW w \in Workers, Load(w) PROVE TableStep
  BY <1>10 DEF Load, dbVars, TableStep
<1>11. ASSUME NEW w \in Workers, GetCustomer(w) PROVE TableStep
  BY <1>11 DEF GetCustomer, dbVars, TableStep
<1>12. ASSUME NEW w \in Workers, IsSuppressed(w) PROVE TableStep
  BY <1>12 DEF IsSuppressed, dbVars, TableStep
<1>13. ASSUME NEW w \in Workers, SelectRoute(w) PROVE TableStep
  BY <1>13 DEF SelectRoute, dbVars, TableStep
<1>14. ASSUME NEW w \in Workers, CheckCapacity(w) PROVE TableStep
  BY <1>14 DEF CheckCapacity, dbVars, TableStep
<1>15. ASSUME NEW w \in Workers, MarkSending(w) PROVE TableStep
  BY <1>15 DEF MarkSending, UpdateMessageStatus, TableStep
<1>16. ASSUME NEW w \in Workers, WriteSendingEvent(w) PROVE TableStep
  BY <1>16 DEF WriteSendingEvent, WriteEvent, TableStep
<1>17. ASSUME NEW w \in Workers, WriteDeliveryAttempt(w) PROVE TableStep
  BY <1>17 DEF WriteDeliveryAttempt, TableStep
<1>18. ASSUME NEW w \in Workers, AddSuppression(w) PROVE TableStep
  BY <1>18 DEF AddSuppression, TableStep
<1>19. ASSUME NEW w \in Workers, UpdateStatus(w) PROVE TableStep
  BY <1>19 DEF UpdateStatus, UpdateMessageStatus, TableStep
<1>20. ASSUME NEW w \in Workers, WriteDecisionEvent(w) PROVE TableStep
  BY <1>20 DEF WriteDecisionEvent, WriteEvent, TableStep
<1>21. ASSUME NEW w \in Workers, WriteRetryEvent(w) PROVE TableStep
  BY <1>21 DEF WriteRetryEvent, WriteEvent, TableStep
<1>22. ASSUME NEW w \in Workers, Ack(w) PROVE TableStep
  BY <1>22 DEF Ack, dbVars, TableStep
<1>23. ASSUME NEW w \in Workers, LoadFails(w) PROVE TableStep
  BY <1>23 DEF LoadFails, dbVars, TableStep
<1>24. ASSUME NEW w \in Workers, SelectRouteFails(w) PROVE TableStep
  BY <1>24 DEF SelectRouteFails, dbVars, TableStep
<1>25. ASSUME NEW w \in Workers, ProcessFails(w) PROVE TableStep
  BY <1>25 DEF ProcessFails, dbVars, TableStep
<1>26. ASSUME NEW w \in Workers, Crash(w) PROVE TableStep
  BY <1>26 DEF Crash, dbVars, TableStep
<1>27. ASSUME NEW w \in Workers, PollTick(w) PROVE TableStep
  BY <1>27 DEF PollTick, dbVars, TableStep
<1>28. ASSUME NEW w \in Workers, PollMark(w) PROVE TableStep
  BY <1>28 DEF PollMark, MarkQueued, TableStep
<1>29. ASSUME NEW w \in Workers, PollMarkFails(w) PROVE TableStep
  BY <1>29 DEF PollMarkFails, MarkQueued, dbVars, TableStep
<1>30. ASSUME NEW w \in Workers, PollEnqueue(w) PROVE TableStep
  BY <1>30 DEF PollEnqueue, dbVars, TableStep
<1>31. ASSUME NEW w \in Workers, PollEnqueueFails(w) PROVE TableStep
  BY <1>31 DEF PollEnqueueFails, dbVars, TableStep
<1>32. CASE UNCHANGED vars
  BY <1>32 DEF vars, dbVars, TableStep
<1> QED
  BY <1>1, <1>2, <1>3, <1>4, <1>5, <1>6, <1>7, <1>8, <1>9, <1>10, <1>11, <1>12, <1>13,
     <1>14, <1>15, <1>16, <1>17, <1>18, <1>19, <1>20, <1>21, <1>22, <1>23, <1>24, <1>25,
     <1>26, <1>27, <1>28, <1>29, <1>30, <1>31, <1>32
     DEF Next, Consume, Poll, Fail, vars

LEMMA SuppressionGrows == [Next]_vars => suppression_list \subseteq suppression_list'
BY TableSteps DEF TableStep, AddSuppression

\* DeferredHasRetryTime needs no more than the types: the two writers of "deferred"
\* write the retry time with it, and nobody clears it without changing the status.
LEMMA DeferredNext ==
  TypeInv /\ DeferredHasRetryTime /\ [Next]_vars => DeferredHasRetryTime'
<1> SUFFICES ASSUME TypeInv, DeferredHasRetryTime, [Next]_vars
             PROVE  DeferredHasRetryTime'
  OBVIOUS
<1>0. DbTypeOK /\ ConsumerTypeOK /\ WorkOK
  BY DEF TypeInv, TypeOK
<1>1. CASE UNCHANGED <<status, attempt_count, next_attempt_at>>
  BY <1>1 DEF DeferredHasRetryTime
<1>2. ASSUME NEW m \in Messages, Accept(m) PROVE DeferredHasRetryTime'
  BY <1>0, <1>2 DEF Accept, DbTypeOK, DeferredHasRetryTime
<1>3. ASSUME NEW m \in Messages, BackoffElapses(m) PROVE DeferredHasRetryTime'
  BY <1>0, <1>3 DEF BackoffElapses, DbTypeOK, DeferredHasRetryTime
<1>4. ASSUME NEW m \in Messages, MarkQueued(m) PROVE DeferredHasRetryTime'
  BY <1>0, <1>4 DEF MarkQueued, DbTypeOK, DeferredHasRetryTime
<1>5. ASSUME NEW w \in Workers, MarkSending(w) PROVE DeferredHasRetryTime'
  BY <1>0, <1>5
     DEF MarkSending, UpdateMessageStatus, DbTypeOK, DeferredHasRetryTime
<1>6. ASSUME NEW w \in Workers, UpdateStatus(w) PROVE DeferredHasRetryTime'
  <2> DEFINE d == job[w].decision
  <2>1. d \in Decisions
    BY <1>0, <1>6 DEF UpdateStatus, WorkOK, DecidedPCs
  <2>2. StatusOf(d) = "deferred" => NextAttemptAt(d) # "null"
    BY <2>1, DecisionTables
  <2>3. /\ status' = [status EXCEPT ![job[w].msg] = StatusOf(d)]
        /\ next_attempt_at' = [next_attempt_at EXCEPT ![job[w].msg] = NextAttemptAt(d)]
    BY <1>6 DEF UpdateStatus, UpdateMessageStatus
  <2> HIDE DEF d
  <2> QED
    BY <1>0, <2>2, <2>3 DEF DbTypeOK, DeferredHasRetryTime
<1> QED
  BY <1>1, <1>2, <1>3, <1>4, <1>5, <1>6, StatusSteps DEF StatusStep

\* The poller can see every deferred message, with any number of workers writing over
\* each other: reschedule and applyOutcome write both columns in one UPDATE.
THEOREM DeferredIsScheduled == Spec => []DeferredHasRetryTime
<1>1. Init => DeferredHasRetryTime
  BY DEF Init, DeferredHasRetryTime
<1> QED
  BY <1>1, DeferredNext, TypeInvariant, PTL DEF Spec

-----------------------------------------------------------------------------
\* A consumer about to store "bounced" has suppressed the recipient: the suppression
\* precedes the status write, so the invariant must speak of the step between.
BounceDecided ==
  \A w \in Workers :
    pc[w] = "update_status" /\ job[w].decision = "bounced"
      => RecipientOf[job[w].msg] \in suppression_list

BounceInv == BouncedIsSuppressed /\ BounceDecided

LEMMA BounceDecidedNext ==
  TypeInv /\ BounceDecided /\ [Next]_vars => BounceDecided'
<1> SUFFICES ASSUME TypeInv, BounceDecided, [Next]_vars PROVE BounceDecided'
  OBVIOUS
<1>0. ConsumerTypeOK /\ WorkOK /\ suppression_list \subseteq suppression_list'
  BY SuppressionGrows DEF TypeInv, TypeOK
<1> USE <1>0
<1>1. ASSUME NEW m \in Messages, Accept(m) PROVE BounceDecided'
  BY <1>1 DEF Accept, consumerVars, BounceDecided, ConsumerTypeOK, Jobs
<1>2. ASSUME NEW m \in Messages, ApiEnqueue(m) PROVE BounceDecided'
  BY <1>2 DEF ApiEnqueue, consumerVars, BounceDecided, ConsumerTypeOK, Jobs
<1>3. ASSUME NEW m \in Messages, ApiEnqueueFails(m) PROVE BounceDecided'
  BY <1>3 DEF ApiEnqueueFails, consumerVars, BounceDecided, ConsumerTypeOK, Jobs
<1>4. ASSUME NEW m \in Messages, BackoffElapses(m) PROVE BounceDecided'
  BY <1>4 DEF BackoffElapses, consumerVars, BounceDecided, ConsumerTypeOK, Jobs
<1>5. ASSUME NEW e \in pel, EntryIdles(e) PROVE BounceDecided'
  BY <1>5 DEF EntryIdles, consumerVars, BounceDecided, ConsumerTypeOK, Jobs
<1>6. ASSUME NEW w \in Workers, EnsureGroup(w) PROVE BounceDecided'
  BY <1>6 DEF EnsureGroup, Goto, BounceDecided, ConsumerTypeOK, Jobs
<1>7. ASSUME NEW w \in Workers, Reclaim(w) PROVE BounceDecided'
  BY <1>7 DEF Reclaim, Goto, BounceDecided, ConsumerTypeOK, Jobs
<1>8. ASSUME NEW w \in Workers, ReclaimFails(w) PROVE BounceDecided'
  BY <1>8 DEF ReclaimFails, Goto, BounceDecided, ConsumerTypeOK, Jobs
<1>9. ASSUME NEW w \in Workers, Read(w) PROVE BounceDecided'
  BY <1>9 DEF Read, Goto, AfterIdleRead, BounceDecided, ConsumerTypeOK, Jobs
<1>10. ASSUME NEW w \in Workers, Load(w) PROVE BounceDecided'
  BY <1>10 DEF Load, Skip, Goto, BounceDecided, ConsumerTypeOK, Jobs
<1>11. ASSUME NEW w \in Workers, GetCustomer(w) PROVE BounceDecided'
  BY <1>11 DEF GetCustomer, Decide, Goto, BounceDecided, ConsumerTypeOK, Jobs
<1>12. ASSUME NEW w \in Workers, IsSuppressed(w) PROVE BounceDecided'
  BY <1>12 DEF IsSuppressed, Decide, Goto, BounceDecided, ConsumerTypeOK, Jobs
<1>13. ASSUME NEW w \in Workers, SelectRoute(w) PROVE BounceDecided'
  BY <1>13 DEF SelectRoute, Decide, Goto, BounceDecided, ConsumerTypeOK, Jobs
<1>14. ASSUME NEW w \in Workers, CheckCapacity(w) PROVE BounceDecided'
  BY <1>14 DEF CheckCapacity, Decide, Goto, BounceDecided, ConsumerTypeOK, Jobs
<1>15. ASSUME NEW w \in Workers, MarkSending(w) PROVE BounceDecided'
  BY <1>15 DEF MarkSending, Goto, BounceDecided, ConsumerTypeOK, Jobs
<1>16. ASSUME NEW w \in Workers, WriteSendingEvent(w) PROVE BounceDecided'
  BY <1>16 DEF WriteSendingEvent, Goto, BounceDecided, ConsumerTypeOK, Jobs
<1>17. ASSUME NEW w \in Workers, WriteDeliveryAttempt(w) PROVE BounceDecided'
  <2>1. PICK kind \in Kinds :
          Decide(w, Outcome(kind, job[w].attempt), AfterAttempt(kind))
    BY <1>17, ConstantsAssumption DEF WriteDeliveryAttempt, WorkOK, WorkingPCs, Recipients
  <2>2. Outcome(kind, job[w].attempt) = "bounced" => AfterAttempt(kind) = "suppress"
    BY OutcomeDecision DEF ConsumerTypeOK, Jobs, AfterAttempt
  <2> QED
    BY <2>1, <2>2 DEF Decide, Goto, BounceDecided, ConsumerTypeOK, Jobs
<1>18. ASSUME NEW w \in Workers, AddSuppression(w) PROVE BounceDecided'
  BY <1>18 DEF AddSuppression, Goto, BounceDecided, ConsumerTypeOK, Jobs
<1>19. ASSUME NEW w \in Workers, UpdateStatus(w) PROVE BounceDecided'
  BY <1>19 DEF UpdateStatus, Goto, BounceDecided, ConsumerTypeOK, Jobs
<1>20. ASSUME NEW w \in Workers, WriteDecisionEvent(w) PROVE BounceDecided'
  BY <1>20 DEF WriteDecisionEvent, Goto, BounceDecided, ConsumerTypeOK, Jobs
<1>21. ASSUME NEW w \in Workers, WriteRetryEvent(w) PROVE BounceDecided'
  BY <1>21 DEF WriteRetryEvent, Goto, BounceDecided, ConsumerTypeOK, Jobs
<1>22. ASSUME NEW w \in Workers, Ack(w) PROVE BounceDecided'
  BY <1>22 DEF Ack, EndOfEntry, Goto, BounceDecided, ConsumerTypeOK, Jobs
<1>23. ASSUME NEW w \in Workers, LoadFails(w) PROVE BounceDecided'
  BY <1>23 DEF LoadFails, BounceDecided, ConsumerTypeOK, Jobs
<1>24. ASSUME NEW w \in Workers, SelectRouteFails(w) PROVE BounceDecided'
  BY <1>24 DEF SelectRouteFails, Decide, Goto, BounceDecided, ConsumerTypeOK, Jobs
<1>25. ASSUME NEW w \in Workers, ProcessFails(w) PROVE BounceDecided'
  BY <1>25 DEF ProcessFails, EndOfEntry, Goto, BounceDecided, ConsumerTypeOK, Jobs
<1>26. ASSUME NEW w \in Workers, Crash(w) PROVE BounceDecided'
  BY <1>26 DEF Crash, Goto, BounceDecided, ConsumerTypeOK, Jobs
<1>27. ASSUME NEW w \in Workers, PollTick(w) PROVE BounceDecided'
  BY <1>27 DEF PollTick, consumerVars, BounceDecided, ConsumerTypeOK, Jobs
<1>28. ASSUME NEW w \in Workers, PollMark(w) PROVE BounceDecided'
  BY <1>28 DEF PollMark, consumerVars, BounceDecided, ConsumerTypeOK, Jobs
<1>29. ASSUME NEW w \in Workers, PollMarkFails(w) PROVE BounceDecided'
  BY <1>29 DEF PollMarkFails, consumerVars, BounceDecided, ConsumerTypeOK, Jobs
<1>30. ASSUME NEW w \in Workers, PollEnqueue(w) PROVE BounceDecided'
  BY <1>30 DEF PollEnqueue, consumerVars, BounceDecided, ConsumerTypeOK, Jobs
<1>31. ASSUME NEW w \in Workers, PollEnqueueFails(w) PROVE BounceDecided'
  BY <1>31 DEF PollEnqueueFails, consumerVars, BounceDecided, ConsumerTypeOK, Jobs
<1>32. CASE UNCHANGED vars
  BY <1>32 DEF vars, consumerVars, BounceDecided
<1> QED
  BY <1>1, <1>2, <1>3, <1>4, <1>5, <1>6, <1>7, <1>8, <1>9, <1>10, <1>11, <1>12, <1>13,
     <1>14, <1>15, <1>16, <1>17, <1>18, <1>19, <1>20, <1>21, <1>22, <1>23, <1>24, <1>25,
     <1>26, <1>27, <1>28, <1>29, <1>30, <1>31, <1>32
     DEF Next, Consume, Poll, Fail, vars

LEMMA BounceNext == TypeInv /\ BounceInv /\ [Next]_vars => BounceInv'
<1> SUFFICES ASSUME TypeInv, BounceInv, [Next]_vars PROVE BouncedIsSuppressed'
  BY BounceDecidedNext DEF BounceInv
<1>0. /\ DbTypeOK /\ ConsumerTypeOK /\ WorkOK /\ suppression_list \subseteq suppression_list'
      /\ BouncedIsSuppressed /\ BounceDecided
  BY SuppressionGrows DEF TypeInv, TypeOK, BounceInv
<1> SUFFICES ASSUME NEW m \in Messages, status'[m] = "bounced", status[m] # "bounced"
             PROVE  RecipientOf[m] \in suppression_list
  BY <1>0 DEF BouncedIsSuppressed
<1>1. CASE UNCHANGED <<status, attempt_count, next_attempt_at>>
  BY <1>1
<1>2. ASSUME NEW n \in Messages, Accept(n) \/ BackoffElapses(n) \/ MarkQueued(n)
      PROVE  FALSE
  BY <1>0, <1>2 DEF Accept, BackoffElapses, MarkQueued, DbTypeOK
<1>3. ASSUME NEW w \in Workers, MarkSending(w) PROVE FALSE
  BY <1>0, <1>3 DEF MarkSending, UpdateMessageStatus, DbTypeOK
<1>4. ASSUME NEW w \in Workers, UpdateStatus(w)
      PROVE  RecipientOf[m] \in suppression_list
  <2> DEFINE d == job[w].decision
  <2>1. d \in Decisions /\ pc[w] = "update_status"
    BY <1>0, <1>4 DEF UpdateStatus, WorkOK, DecidedPCs
  <2>2. status' = [status EXCEPT ![job[w].msg] = StatusOf(d)]
    BY <1>4 DEF UpdateStatus, UpdateMessageStatus
  <2>3. StatusOf(d) = "bounced" => d = "bounced"
    BY <2>1, DecisionTables
  <2>4. m = job[w].msg /\ d = "bounced"
    BY <1>0, <2>2, <2>3 DEF DbTypeOK
  <2> QED
    BY <1>0, <2>1, <2>4 DEF BounceDecided
<1> QED
  BY <1>1, <1>2, <1>3, <1>4, StatusSteps DEF StatusStep

\* Every bounced message's recipient is on the suppression list, whatever failed,
\* crashed or ran twice between the attempt and the status write: applyOutcome
\* suppresses first, and no code path takes a recipient off the list.
THEOREM BounceSuppresses == Spec => []BouncedIsSuppressed
<1>1. Init => BounceInv
  BY DEF Init, BounceInv, BouncedIsSuppressed, BounceDecided
<1>2. BounceInv => BouncedIsSuppressed
  BY DEF BounceInv
<1> QED
  BY <1>1, <1>2, BounceNext, TypeInvariant, PTL DEF Spec

-----------------------------------------------------------------------------
(* Custody: with any number of workers, as long as nothing fails, somebody *)
(* always has an unfinished message.                                       *)

\* From its SELECT to its status write.
DecidingPCs == {"customer", "suppression", "route", "capacity", "mark_sending",
                "sending_event", "attempt_row", "suppress", "update_status"}

\* w is working on m, or will come to an entry of m in its batch.
Holds(w, m) ==
  \/ pc[w] \in DecidingPCs /\ job[w].msg = m
  \/ \E e \in batch[w] : stream[e] = m

\* The poller will see m, an XADD of m is due or was lost, an entry of m is undelivered,
\* or a worker holds it.  Pending entries do not count: two workers can share one, and
\* the first to be done acks it for both.
InCustody(m) ==
  \/ status[m] = "deferred" \/ m \in owed \/ m \in dropped
  \/ \E e \in Entries : stream[e] = m /\ e > cursor
  \/ \E w \in Workers : marked[w] = m \/ Holds(w, m)

Custody == faults = 0 => \A m \in Messages : Live(m) => InCustody(m)

\* A batch is taken over only when the one before is finished.
BatchesFinished == \A w \in Workers : pc[w] \in {"boot", "reclaim"} => batch[w] = {}

LEMMA BatchesNext == TypeInv /\ BatchesFinished /\ [Next]_vars => BatchesFinished'
<1> SUFFICES ASSUME TypeInv, BatchesFinished, [Next]_vars PROVE BatchesFinished'
  OBVIOUS
<1>0. ConsumerTypeOK
  BY DEF TypeInv, TypeOK
<1> USE DEF BatchesFinished, ConsumerTypeOK
<1>1. ASSUME NEW m \in Messages, Accept(m) PROVE BatchesFinished'
  BY <1>1, <1>0 DEF Accept, consumerVars
<1>2. ASSUME NEW m \in Messages, ApiEnqueue(m) PROVE BatchesFinished'
  BY <1>2, <1>0 DEF ApiEnqueue, consumerVars
<1>3. ASSUME NEW m \in Messages, ApiEnqueueFails(m) PROVE BatchesFinished'
  BY <1>3, <1>0 DEF ApiEnqueueFails, consumerVars
<1>4. ASSUME NEW m \in Messages, BackoffElapses(m) PROVE BatchesFinished'
  BY <1>4, <1>0 DEF BackoffElapses, consumerVars
<1>5. ASSUME NEW e \in pel, EntryIdles(e) PROVE BatchesFinished'
  BY <1>5, <1>0 DEF EntryIdles, consumerVars
<1>6. ASSUME NEW w \in Workers, EnsureGroup(w) PROVE BatchesFinished'
  BY <1>6, <1>0 DEF EnsureGroup, Goto
<1>7. ASSUME NEW w \in Workers, Reclaim(w) PROVE BatchesFinished'
  BY <1>7, <1>0 DEF Reclaim, Goto
<1>8. ASSUME NEW w \in Workers, ReclaimFails(w) PROVE BatchesFinished'
  BY <1>8, <1>0 DEF ReclaimFails, Goto
<1>9. ASSUME NEW w \in Workers, Read(w) PROVE BatchesFinished'
  BY <1>9, <1>0 DEF Read, Goto, AfterIdleRead
<1>10. ASSUME NEW w \in Workers, Load(w) PROVE BatchesFinished'
  BY <1>10, <1>0 DEF Load, Skip, Goto
<1>11. ASSUME NEW w \in Workers, GetCustomer(w) PROVE BatchesFinished'
  BY <1>11, <1>0 DEF GetCustomer, Decide, Goto
<1>12. ASSUME NEW w \in Workers, IsSuppressed(w) PROVE BatchesFinished'
  BY <1>12, <1>0 DEF IsSuppressed, Decide, Goto
<1>13. ASSUME NEW w \in Workers, SelectRoute(w) PROVE BatchesFinished'
  BY <1>13, <1>0 DEF SelectRoute, Decide, Goto
<1>14. ASSUME NEW w \in Workers, CheckCapacity(w) PROVE BatchesFinished'
  BY <1>14, <1>0 DEF CheckCapacity, Decide, Goto
<1>15. ASSUME NEW w \in Workers, MarkSending(w) PROVE BatchesFinished'
  BY <1>15, <1>0 DEF MarkSending, Goto
<1>16. ASSUME NEW w \in Workers, WriteSendingEvent(w) PROVE BatchesFinished'
  BY <1>16, <1>0 DEF WriteSendingEvent, WriteEvent, Goto
<1>17. ASSUME NEW w \in Workers, WriteDeliveryAttempt(w) PROVE BatchesFinished'
  BY <1>17, <1>0 DEF WriteDeliveryAttempt, Decide, Goto, AfterAttempt
<1>18. ASSUME NEW w \in Workers, AddSuppression(w) PROVE BatchesFinished'
  BY <1>18, <1>0 DEF AddSuppression, Goto
<1>19. ASSUME NEW w \in Workers, UpdateStatus(w) PROVE BatchesFinished'
  BY <1>19, <1>0 DEF UpdateStatus, Goto
<1>20. ASSUME NEW w \in Workers, WriteDecisionEvent(w) PROVE BatchesFinished'
  BY <1>20, <1>0 DEF WriteDecisionEvent, WriteEvent, Goto
<1>21. ASSUME NEW w \in Workers, WriteRetryEvent(w) PROVE BatchesFinished'
  BY <1>21, <1>0 DEF WriteRetryEvent, WriteEvent, Goto
<1>22. ASSUME NEW w \in Workers, Ack(w) PROVE BatchesFinished'
  BY <1>22, <1>0 DEF Ack, EndOfEntry, Goto
<1>23. ASSUME NEW w \in Workers, LoadFails(w) PROVE BatchesFinished'
  BY <1>23, <1>0 DEF LoadFails, AtEntry
<1>24. ASSUME NEW w \in Workers, SelectRouteFails(w) PROVE BatchesFinished'
  BY <1>24, <1>0 DEF SelectRouteFails, Decide, Goto
<1>25. ASSUME NEW w \in Workers, ProcessFails(w) PROVE BatchesFinished'
  BY <1>25, <1>0 DEF ProcessFails, EndOfEntry, Goto
<1>26. ASSUME NEW w \in Workers, Crash(w) PROVE BatchesFinished'
  BY <1>26, <1>0 DEF Crash, Goto
<1>27. ASSUME NEW w \in Workers, PollTick(w) PROVE BatchesFinished'
  BY <1>27, <1>0 DEF PollTick, consumerVars
<1>28. ASSUME NEW w \in Workers, PollMark(w) PROVE BatchesFinished'
  BY <1>28, <1>0 DEF PollMark, consumerVars
<1>29. ASSUME NEW w \in Workers, PollMarkFails(w) PROVE BatchesFinished'
  BY <1>29, <1>0 DEF PollMarkFails, consumerVars
<1>30. ASSUME NEW w \in Workers, PollEnqueue(w) PROVE BatchesFinished'
  BY <1>30, <1>0 DEF PollEnqueue, consumerVars
<1>31. ASSUME NEW w \in Workers, PollEnqueueFails(w) PROVE BatchesFinished'
  BY <1>31, <1>0 DEF PollEnqueueFails, consumerVars
<1>32. CASE UNCHANGED vars
  BY <1>32 DEF vars, consumerVars
<1> QED
  BY <1>1, <1>2, <1>3, <1>4, <1>5, <1>6, <1>7, <1>8, <1>9, <1>10, <1>11, <1>12, <1>13,
     <1>14, <1>15, <1>16, <1>17, <1>18, <1>19, <1>20, <1>21, <1>22, <1>23, <1>24, <1>25,
     <1>26, <1>27, <1>28, <1>29, <1>30, <1>31, <1>32
     DEF Next, Consume, Poll, Fail, vars

\* m stays in custody when its row, its entries, the batches and the XADDs due are left
\* alone and whoever works on it goes on.
LEMMA CustodyKept ==
  ASSUME QueueTypeOK, NEW m \in Messages, InCustody(m),
         status'[m] \in {status[m], "deferred"},
         owed \subseteq owed', dropped \subseteq dropped', UNCHANGED <<marked, cursor>>,
         \A e \in Entries : e \in Entries' /\ stream'[e] = stream[e],
         \A w \in Workers : Holds(w, m) => Holds(w, m)'
  PROVE  InCustody(m)'
BY DEF InCustody

\* A consumer that moves on towards its decision goes on working on what it holds.
LEMMA HoldsOn ==
  ASSUME TypeInv, NEW w \in Workers, UNCHANGED <<batch, stream>>,
         NEW p, NEW d,
         pc[w] \in DecidingPCs => p \in DecidingPCs,
         (Goto(w, p) /\ UNCHANGED job) \/ Decide(w, d, p),
         NEW v \in Workers, NEW m \in Messages, Holds(v, m)
  PROVE  Holds(v, m)'
<1>0. ConsumerTypeOK
  BY DEF TypeInv, TypeOK
<1>1. job'[v].msg = job[v].msg
  BY <1>0 DEF Decide, ConsumerTypeOK, Jobs
<1>2. pc[v] \in DecidingPCs => pc'[v] \in DecidingPCs
  BY <1>0 DEF Decide, Goto, ConsumerTypeOK
<1> QED
  BY <1>1, <1>2 DEF Holds

\* An XADD that is due, by the API or by a poller, ends in an undelivered entry.
LEMMA CustodyEnqueue ==
  ASSUME TypeInv, NEW n \in Messages, Enqueue(n), NEW m \in Messages, InCustody(m),
         UNCHANGED <<status, pc, job, batch, dropped>>,
         \/ UNCHANGED marked /\ owed' = owed \ {n}
         \/ UNCHANGED owed /\ \A v \in Workers : marked[v] = m => marked'[v] = m \/ n = m
  PROVE  InCustody(m)'
<1>1. /\ stream' = Append(stream, n) /\ cursor' = cursor
      /\ Len(stream) \in Nat /\ cursor <= Len(stream) /\ cursor \in Nat
      /\ stream \in Seq(Messages) /\ \A w \in Workers : batch[w] \subseteq 1..cursor
  BY DEF TypeInv, TypeOK, WorkOK, Enqueue, QueueTypeOK
<1>2. /\ Len(stream') = Len(stream) + 1 /\ stream'[Len(stream) + 1] = n
      /\ \A e \in 1..Len(stream) : stream'[e] = stream[e]
  BY <1>1
<1>3. CASE n = m
  <2>1. Len(stream) + 1 \in Entries' /\ Len(stream) + 1 > cursor'
    BY <1>1, <1>2 DEF Entries
  <2> QED
    BY <1>2, <1>3, <2>1 DEF InCustody
<1>4. CASE n # m
  <2>1. \A e \in Entries : e \in Entries' /\ stream'[e] = stream[e]
    BY <1>1, <1>2 DEF Entries
  <2>2. ASSUME NEW w \in Workers, Holds(w, m) PROVE Holds(w, m)'
    <3>1. \A e \in batch[w] : e \in 1..Len(stream)
      BY <1>1
    <3> QED
      BY <1>2, <2>2, <3>1 DEF Holds
  <2> QED
    BY <1>1, <1>4, <2>1, <2>2 DEF InCustody
<1> QED
  BY <1>3, <1>4

LEMMA CustodyNext ==
  TypeInv /\ BatchesFinished /\ Custody /\ [Next]_vars => Custody'
<1> SUFFICES ASSUME TypeInv, BatchesFinished, Custody, [Next]_vars, faults' = 0,
                    NEW m \in Messages, Live(m)'
             PROVE  InCustody(m)'
  BY DEF Custody
<1>0. /\ DbTypeOK /\ QueueTypeOK /\ ConsumerTypeOK /\ PollerTypeOK /\ WorkOK
      /\ faults \in Nat /\ ~Fault
  BY DEF TypeInv, TypeOK, HistoryTypeOK, Fault
<1> USE <1>0
<1>1. ASSUME NEW n \in Messages, Accept(n) PROVE InCustody(m)'
  <2>1. /\ UNCHANGED <<stream, cursor, pc, job, batch, dropped, marked, faults>>
        /\ status' = [status EXCEPT ![n] = "queued"] /\ owed' = owed \cup {n}
    BY <1>1 DEF Accept, queueVars, consumerVars, pollerVars, historyVars
  <2>2. CASE n = m
    BY <2>1, <2>2 DEF InCustody
  <2>3. CASE n # m
    <3>1. status'[m] = status[m] /\ InCustody(m)
      BY <2>1, <2>3 DEF DbTypeOK, Live, Custody
    <3> QED
      BY <2>1, <3>1, CustodyKept DEF Entries, Holds
  <2> QED
    BY <2>2, <2>3
<1>2. ASSUME NEW n \in Messages, ApiEnqueue(n) PROVE InCustody(m)'
  <2>1. /\ Enqueue(n) /\ UNCHANGED <<status, pc, job, batch, marked, dropped, faults>>
        /\ owed' = owed \ {n} /\ InCustody(m)
    BY <1>2 DEF ApiEnqueue, dbVars, consumerVars, pollerVars, historyVars, Live, Custody
  <2> QED
    BY <2>1, CustodyEnqueue
<1>3. ASSUME NEW n \in Messages, ApiEnqueueFails(n) PROVE InCustody(m)'
  BY <1>3 DEF ApiEnqueueFails
<1>4. ASSUME NEW n \in Messages, BackoffElapses(n) PROVE InCustody(m)'
  <2>1. /\ UNCHANGED <<status, stream, cursor, pc, job, batch, owed, dropped, marked, faults>>
        /\ Live(m) /\ InCustody(m)
    BY <1>4 DEF BackoffElapses, queueVars, consumerVars, pollerVars, historyVars, Live, Custody
  <2> QED
    BY <2>1, CustodyKept DEF Entries, Holds
<1>5. ASSUME NEW e \in pel, EntryIdles(e) PROVE InCustody(m)'
  <2>1. /\ UNCHANGED <<status, stream, cursor, pc, job, batch, owed, dropped, marked, faults>>
        /\ Live(m) /\ InCustody(m)
    BY <1>5 DEF EntryIdles, dbVars, consumerVars, pollerVars, historyVars, Live, Custody
  <2> QED
    BY <2>1, CustodyKept DEF Entries, Holds
<1>6. ASSUME NEW w \in Workers, EnsureGroup(w) PROVE InCustody(m)'
  <2>1. /\ UNCHANGED <<status, stream, batch, job, owed, marked, faults>>
        /\ pc[w] = "boot" /\ pc' = [pc EXCEPT ![w] = "reclaim"]
        /\ \/ UNCHANGED <<cursor, dropped>>
           \/ dropped' = dropped \cup {stream[e] : e \in Entries}
    BY <1>6 DEF EnsureGroup, Goto, dbVars, pollerVars
  <2>2. InCustody(m)
    BY <2>1 DEF Live, Custody
  <2>3. \A v \in Workers : Holds(v, m) => Holds(v, m)'
    BY <2>1 DEF Holds, DecidingPCs, ConsumerTypeOK
  <2> QED
    BY <2>1, <2>2, <2>3 DEF InCustody, Entries
<1>7. ASSUME NEW w \in Workers, Reclaim(w) PROVE InCustody(m)'
  <2>1. /\ UNCHANGED <<status, stream, cursor, job, owed, dropped, marked, faults>>
        /\ pc[w] = "reclaim" /\ pc' = [pc EXCEPT ![w] = "next"]
        /\ \A v \in Workers \ {w} : batch'[v] = batch[v]
    BY <1>7 DEF Reclaim, Goto, dbVars, pollerVars, historyVars, ConsumerTypeOK
  <2>2. Live(m) /\ InCustody(m)
    BY <2>1 DEF Live, Custody
  <2>3. batch[w] = {}
    BY <2>1 DEF BatchesFinished
  <2>4. \A v \in Workers : Holds(v, m) => Holds(v, m)'
    BY <2>1, <2>3 DEF Holds, DecidingPCs, ConsumerTypeOK
  <2> QED
    BY <2>1, <2>2, <2>4, CustodyKept DEF Entries
<1>8. ASSUME NEW w \in Workers, ReclaimFails(w) PROVE InCustody(m)'
  BY <1>8 DEF ReclaimFails
<1>9. ASSUME NEW w \in Workers, Read(w) PROVE InCustody(m)'
  <2>1. /\ UNCHANGED <<status, stream, job, owed, dropped, marked, faults>>
        /\ pc[w] = "next" /\ batch[w] = {}
        /\ \/ UNCHANGED <<cursor, batch>> /\ pc' = [pc EXCEPT ![w] = "reclaim"]
           \/ /\ UNCHANGED pc /\ cursor' = LastRead
              /\ batch' = [batch EXCEPT ![w] = cursor + 1 .. LastRead]
    BY <1>9 DEF Read, Goto, AfterIdleRead, dbVars, pollerVars, historyVars
  <2>2. Live(m) /\ InCustody(m)
    BY <2>1 DEF Live, Custody
  <2>3. \A v \in Workers : Holds(v, m) => Holds(v, m)'
    BY <2>1 DEF Holds, DecidingPCs, ConsumerTypeOK
  <2>4. ASSUME NEW e \in Entries, stream[e] = m, e > cursor, ~(e > cursor')
        PROVE  Holds(w, m)'
    <3>1. e \in cursor + 1 .. LastRead /\ batch'[w] = cursor + 1 .. LastRead
      <4>1. e \in Nat /\ cursor \in Nat /\ LastRead \in Nat
        BY LastReadBounds DEF Entries, QueueTypeOK
      <4> QED
        BY <2>1, <2>4, <4>1 DEF ConsumerTypeOK
    <3> QED
      BY <2>1, <2>4, <3>1 DEF Holds
  <2> QED
    BY <2>1, <2>2, <2>3, <2>4 DEF InCustody, Entries
<1>10. ASSUME NEW w \in Workers, Load(w) PROVE InCustody(m)'
  <2>0. PICK e \in batch[w] :
          /\ AtEntry(w, e) /\ batch' = [batch EXCEPT ![w] = batch[w] \ {e}]
          /\ job' = [job EXCEPT ![w] =
                       [entry |-> e, msg |-> stream[e],
                        attempt |-> attempt_count[stream[e]], decision |-> "none"]]
          /\ \/ Skip(w, stream[e])
             \/ Goto(w, "customer") /\ UNCHANGED dropped
    BY <1>10 DEF Load
  <2>1. /\ job'[w].msg = stream[e] /\ pc[w] = "next"
        /\ \A v \in Workers \ {w} : job'[v] = job[v] /\ pc'[v] = pc[v]
        /\ pc'[w] = "customer" \/ Skip(w, stream[e])
        /\ batch' = [batch EXCEPT ![w] = batch[w] \ {e}]
        /\ dropped \subseteq dropped'
    BY <2>0 DEF AtEntry, Skip, Goto, ConsumerTypeOK
  <2>2. UNCHANGED <<status, stream, cursor, owed, marked, faults>>
    BY <1>10 DEF Load, dbVars, queueVars, pollerVars
  <2>3. Live(m) /\ InCustody(m)
    BY <2>2 DEF Live, Custody
  <2>4. ASSUME NEW v \in Workers, v # w, Holds(v, m) PROVE Holds(v, m)'
    BY <2>1, <2>2, <2>4 DEF Holds, ConsumerTypeOK
  <2>5. CASE stream[e] # m
    <3>1. Holds(w, m) => Holds(w, m)'
      BY <2>1, <2>2, <2>5 DEF Holds, DecidingPCs, ConsumerTypeOK
    <3> QED
      BY <2>1, <2>2, <2>3, <2>4, <3>1, CustodyKept DEF Entries
  <2>6. CASE stream[e] = m /\ pc'[w] = "customer"
    <3>1. Holds(w, m)'
      BY <2>1, <2>6 DEF Holds, DecidingPCs
    <3> QED
      BY <2>2, <3>1 DEF InCustody
  <2>7. CASE stream[e] = m /\ Skip(w, m)
    <3>1. RowLocked(w, m)
      BY <2>3, <2>7 DEF Skip, Live, LiveStatuses, Terminal, TerminalStatuses
    <3>2. CASE EventsLock(w, m)
      BY <2>3, <2>7, <3>2 DEF Skip, InCustody
    <3>3. CASE status[m] = "deferred"
      BY <2>2, <3>3 DEF InCustody
    <3>4. CASE \E v \in Workers \ {w} : Holds(v, m)
      BY <2>2, <2>4, <3>4 DEF InCustody
    <3> QED
      BY <3>1, <3>2, <3>3, <3>4 DEF RowLocked, AtEntry, Holds, DecidingPCs
  <2> QED
    BY <2>1, <2>5, <2>6, <2>7
<1>11. ASSUME NEW w \in Workers, GetCustomer(w) PROVE InCustody(m)'
  <2>1. /\ UNCHANGED <<status, stream, cursor, batch, owed, dropped, marked, faults>>
        /\ Live(m) /\ InCustody(m)
    BY <1>11 DEF GetCustomer, dbVars, queueVars, pollerVars, historyVars, Live, Custody
  <2>2. \A v \in Workers : Holds(v, m) => Holds(v, m)'
    BY <1>11, <2>1, HoldsOn DEF GetCustomer, DecidingPCs
  <2> QED
    BY <2>1, <2>2, CustodyKept DEF Entries
<1>12. ASSUME NEW w \in Workers, IsSuppressed(w) PROVE InCustody(m)'
  <2>1. /\ UNCHANGED <<status, stream, cursor, batch, owed, dropped, marked, faults>>
        /\ Live(m) /\ InCustody(m)
    BY <1>12 DEF IsSuppressed, dbVars, queueVars, pollerVars, historyVars, Live, Custody
  <2>2. \A v \in Workers : Holds(v, m) => Holds(v, m)'
    BY <1>12, <2>1, HoldsOn DEF IsSuppressed, DecidingPCs
  <2> QED
    BY <2>1, <2>2, CustodyKept DEF Entries
<1>13. ASSUME NEW w \in Workers, SelectRoute(w) PROVE InCustody(m)'
  <2>1. /\ UNCHANGED <<status, stream, cursor, batch, owed, dropped, marked, faults>>
        /\ Live(m) /\ InCustody(m)
    BY <1>13 DEF SelectRoute, dbVars, queueVars, pollerVars, historyVars, Live, Custody
  <2>2. \A v \in Workers : Holds(v, m) => Holds(v, m)'
    BY <1>13, <2>1, HoldsOn DEF SelectRoute, DecidingPCs
  <2> QED
    BY <2>1, <2>2, CustodyKept DEF Entries
<1>14. ASSUME NEW w \in Workers, CheckCapacity(w) PROVE InCustody(m)'
  <2>1. /\ UNCHANGED <<status, stream, cursor, batch, owed, dropped, marked, faults>>
        /\ Live(m) /\ InCustody(m)
    BY <1>14 DEF CheckCapacity, dbVars, queueVars, pollerVars, historyVars, Live, Custody
  <2>2. \A v \in Workers : Holds(v, m) => Holds(v, m)'
    BY <1>14, <2>1, HoldsOn DEF CheckCapacity, DecidingPCs
  <2> QED
    BY <2>1, <2>2, CustodyKept DEF Entries
<1>15. ASSUME NEW w \in Workers, MarkSending(w) PROVE InCustody(m)'
  <2>1. /\ UNCHANGED <<stream, cursor, batch, owed, dropped, marked, faults>>
        /\ status' = [status EXCEPT ![job[w].msg] = "sending"]
        /\ pc[w] = "mark_sending" /\ pc' = [pc EXCEPT ![w] = "sending_event"]
        /\ \A v \in Workers : job'[v].msg = job[v].msg
    BY <1>15 DEF MarkSending, UpdateMessageStatus, Goto, queueVars, pollerVars,
                   historyVars, ConsumerTypeOK, Jobs
  <2>2. \A v \in Workers : Holds(v, m) => Holds(v, m)'
    BY <2>1 DEF Holds, DecidingPCs, ConsumerTypeOK
  <2>3. CASE job[w].msg = m
    BY <2>1, <2>2, <2>3 DEF InCustody, Holds, DecidingPCs
  <2>4. CASE job[w].msg # m
    <3>1. status'[m] = status[m] /\ InCustody(m)
      BY <2>1, <2>4 DEF DbTypeOK, Live, Custody
    <3> QED
      BY <2>1, <2>2, <3>1, CustodyKept DEF Entries
  <2> QED
    BY <2>3, <2>4
<1>16. ASSUME NEW w \in Workers, WriteSendingEvent(w) PROVE InCustody(m)'
  <2>1. /\ UNCHANGED <<status, stream, cursor, batch, owed, dropped, marked, faults>>
        /\ Live(m) /\ InCustody(m)
    BY <1>16
       DEF WriteSendingEvent, WriteEvent, queueVars, pollerVars, historyVars, Live,
           Custody
  <2>2. \A v \in Workers : Holds(v, m) => Holds(v, m)'
    BY <1>16, <2>1, HoldsOn DEF WriteSendingEvent, WriteEvent, DecidingPCs
  <2> QED
    BY <2>1, <2>2, CustodyKept DEF Entries
<1>17. ASSUME NEW w \in Workers, WriteDeliveryAttempt(w) PROVE InCustody(m)'
  <2>1. /\ UNCHANGED <<status, stream, cursor, batch, owed, dropped, marked, faults>>
        /\ Live(m) /\ InCustody(m)
    BY <1>17 DEF WriteDeliveryAttempt, queueVars, pollerVars, historyVars, Live, Custody
  <2>2. \A v \in Workers : Holds(v, m) => Holds(v, m)'
    BY <1>17, <2>1, HoldsOn DEF WriteDeliveryAttempt, AfterAttempt, DecidingPCs
  <2> QED
    BY <2>1, <2>2, CustodyKept DEF Entries
<1>18. ASSUME NEW w \in Workers, AddSuppression(w) PROVE InCustody(m)'
  <2>1. /\ UNCHANGED <<status, stream, cursor, batch, owed, dropped, marked, faults>>
        /\ Live(m) /\ InCustody(m)
    BY <1>18 DEF AddSuppression, queueVars, pollerVars, historyVars, Live, Custody
  <2>2. \A v \in Workers : Holds(v, m) => Holds(v, m)'
    BY <1>18, <2>1, HoldsOn DEF AddSuppression, DecidingPCs
  <2> QED
    BY <2>1, <2>2, CustodyKept DEF Entries
<1>19. ASSUME NEW w \in Workers, UpdateStatus(w) PROVE InCustody(m)'
  <2> DEFINE s == StatusOf(job[w].decision)
  <2>1. /\ UNCHANGED <<stream, cursor, batch, job, owed, dropped, marked, faults>>
        /\ status' = [status EXCEPT ![job[w].msg] = s]
        /\ pc' = [pc EXCEPT ![w] = "event"]
    BY <1>19 DEF UpdateStatus, UpdateMessageStatus, Goto, queueVars, pollerVars,
                   historyVars
  <2>2. s \notin {"queued", "sending"}
    BY <1>19, DecisionTables DEF UpdateStatus, WorkOK, DecidedPCs
  <2> HIDE DEF s
  <2>3. CASE job[w].msg = m
    BY <2>1, <2>2, <2>3 DEF DbTypeOK, Live, LiveStatuses, InCustody
  <2>4. CASE job[w].msg # m
    <3>1. status'[m] = status[m] /\ InCustody(m)
      BY <2>1, <2>4 DEF DbTypeOK, Live, Custody
    <3>2. \A v \in Workers : Holds(v, m) => Holds(v, m)'
      BY <2>1, <2>4 DEF Holds, ConsumerTypeOK
    <3> QED
      BY <2>1, <3>1, <3>2, CustodyKept DEF Entries
  <2> QED
    BY <2>3, <2>4
<1>20. ASSUME NEW w \in Workers, WriteDecisionEvent(w) PROVE InCustody(m)'
  <2>1. /\ UNCHANGED <<status, stream, cursor, batch, owed, dropped, marked, faults>>
        /\ Live(m) /\ InCustody(m)
    BY <1>20
       DEF WriteDecisionEvent, WriteEvent, queueVars, pollerVars, historyVars, Live,
           Custody
  <2>2. \A v \in Workers : Holds(v, m) => Holds(v, m)'
    BY <1>20, <2>1, HoldsOn DEF WriteDecisionEvent, WriteEvent, DecidingPCs
  <2> QED
    BY <2>1, <2>2, CustodyKept DEF Entries
<1>21. ASSUME NEW w \in Workers, WriteRetryEvent(w) PROVE InCustody(m)'
  <2>1. /\ UNCHANGED <<status, stream, cursor, batch, owed, dropped, marked, faults>>
        /\ Live(m) /\ InCustody(m)
    BY <1>21
       DEF WriteRetryEvent, WriteEvent, queueVars, pollerVars, historyVars, Live,
           Custody
  <2>2. \A v \in Workers : Holds(v, m) => Holds(v, m)'
    BY <1>21, <2>1, HoldsOn DEF WriteRetryEvent, WriteEvent, DecidingPCs
  <2> QED
    BY <2>1, <2>2, CustodyKept DEF Entries
<1>22. ASSUME NEW w \in Workers, Ack(w) PROVE InCustody(m)'
  <2>1. /\ UNCHANGED <<status, stream, cursor, batch, owed, dropped, marked, faults>>
        /\ Live(m) /\ InCustody(m)
    BY <1>22 DEF Ack, dbVars, pollerVars, historyVars, Live, Custody
  <2>2. \A v \in Workers : Holds(v, m) => Holds(v, m)'
    BY <1>22, <2>1 DEF Ack, EndOfEntry, Goto, Holds, DecidingPCs, ConsumerTypeOK
  <2> QED
    BY <2>1, <2>2, CustodyKept DEF Entries
<1>23. ASSUME NEW w \in Workers, LoadFails(w) PROVE InCustody(m)'
  BY <1>23 DEF LoadFails
<1>24. ASSUME NEW w \in Workers, SelectRouteFails(w) PROVE InCustody(m)'
  BY <1>24 DEF SelectRouteFails
<1>25. ASSUME NEW w \in Workers, ProcessFails(w) PROVE InCustody(m)'
  BY <1>25 DEF ProcessFails
<1>26. ASSUME NEW w \in Workers, Crash(w) PROVE InCustody(m)'
  BY <1>26 DEF Crash
<1>27. ASSUME NEW w \in Workers, PollTick(w) PROVE InCustody(m)'
  <2>1. /\ UNCHANGED <<status, stream, cursor, pc, job, batch, owed, dropped, marked, faults>>
        /\ Live(m) /\ InCustody(m)
    BY <1>27 DEF PollTick, dbVars, queueVars, consumerVars, historyVars, Live, Custody
  <2> QED
    BY <2>1, CustodyKept DEF Entries, Holds
<1>28. ASSUME NEW w \in Workers, PollMark(w) PROVE InCustody(m)'
  <2>1. PICK n \in Messages : MarkQueued(n) /\ marked' = [marked EXCEPT ![w] = n]
    BY <1>28 DEF PollMark, PollerTypeOK
  <2>2. /\ UNCHANGED <<stream, cursor, pc, job, batch, owed, dropped, faults>>
        /\ marked[w] = None
    BY <1>28 DEF PollMark, queueVars, consumerVars, historyVars
  <2>3. CASE n = m
    BY <2>1, <2>3 DEF InCustody, PollerTypeOK
  <2>4. CASE n # m
    <3>1. status'[m] = status[m]
      BY <2>1, <2>4 DEF MarkQueued, DbTypeOK
    <3>2. InCustody(m)
      BY <2>2, <3>1 DEF Live, Custody
    <3>3. \A v \in Workers : marked[v] = m => marked'[v] = m
      BY <2>1, <2>2, ConstantsAssumption DEF PollerTypeOK
    <3> QED
      BY <2>2, <3>1, <3>2, <3>3 DEF InCustody, Entries, Holds
  <2> QED
    BY <2>3, <2>4
<1>29. ASSUME NEW w \in Workers, PollMarkFails(w) PROVE InCustody(m)'
  BY <1>29 DEF PollMarkFails
<1>30. ASSUME NEW w \in Workers, PollEnqueue(w) PROVE InCustody(m)'
  <2>1. /\ UNCHANGED <<status, pc, job, batch, owed, dropped, faults>>
        /\ marked[w] \in Messages /\ Enqueue(marked[w])
        /\ marked' = [marked EXCEPT ![w] = None] /\ InCustody(m)
    BY <1>30 DEF PollEnqueue, dbVars, consumerVars, historyVars, PollerTypeOK, Live, Custody
  <2>2. \A v \in Workers : marked[v] = m => marked'[v] = m \/ marked[w] = m
    BY <2>1 DEF PollerTypeOK
  <2> QED
    BY <2>1, <2>2, CustodyEnqueue
<1>31. ASSUME NEW w \in Workers, PollEnqueueFails(w) PROVE InCustody(m)'
  BY <1>31 DEF PollEnqueueFails
<1>32. CASE UNCHANGED vars
  <2>1. /\ UNCHANGED <<status, stream, cursor, pc, job, batch, owed, dropped, marked, faults>>
        /\ Live(m) /\ InCustody(m)
    BY <1>32 DEF vars, dbVars, queueVars, consumerVars, pollerVars, historyVars, Live, Custody
  <2> QED
    BY <2>1, CustodyKept DEF Entries, Holds
<1> QED
  BY <1>1, <1>2, <1>3, <1>4, <1>5, <1>6, <1>7, <1>8, <1>9, <1>10, <1>11, <1>12, <1>13,
     <1>14, <1>15, <1>16, <1>17, <1>18, <1>19, <1>20, <1>21, <1>22, <1>23, <1>24, <1>25,
     <1>26, <1>27, <1>28, <1>29, <1>30, <1>31, <1>32
     DEF Next, Consume, Poll, Fail, vars

\* However many workers take up the same entry or duplicates of it, an unfinished
\* message is in reach or in the hands of a worker until a call fails: a worker acks a
\* row unprocessed only when the holder of its lock still has to write its status, or
\* has written it and is inserting the events, which is the race counted as dropped.
THEOREM NothingIsStrandedWithoutFaults == Spec => []NothingStrandedWithoutFaults
<1>1. Init => BatchesFinished /\ Custody
  BY DEF Init, BatchesFinished, Custody, Live, LiveStatuses
<1>2. TypeInv /\ Custody => NothingStrandedWithoutFaults
  BY DEF Custody, InCustody, Holds, DecidingPCs, NothingStrandedWithoutFaults, InReach,
         InHand
<1> QED
  BY <1>1, <1>2, BatchesNext, CustodyNext, TypeInvariant, PTL DEF Spec
=============================================================================
