-------------------------- MODULE AbuseControlProofs --------------------------
(***************************************************************************)
(* Proofs about AbuseControl, for any number of messages, workers,         *)
(* pollers, sweeps, entries, decisions and faults.                         *)
(***************************************************************************)
EXTENDS AbuseControl, TLAPS

\* The history variable stale covers everyone who could still act against the state:
\* a worker past its gate with a message the state stops, a request past its check of a
\* customer blocked from sending, and a sweep of a customer that is not swept any more.
StaleCovers ==
  /\ \A w \in Workers : pc[w] = "send" /\ job[w][1] \in Stopped => <<"send", w>> \in stale
  /\ \A m \in Messages :
       request[m] = "checked" /\ sending_state = "blocked_from_sending" =>
         <<"request", m>> \in stale
  /\ \A s \in Sweepers :
       sweep[s] # "asleep" /\ ~Sweeps(sending_state) => <<"sweep", s>> \in stale

\* Whatever names a message, a worker's entry, one in the stream, a request about to add one
\* or a poller, names one that has been stored.
JobsStored ==
  /\ \A w \in Workers : pc[w] # "idle" => status[job[w][1]] # "none"
  /\ \A e \in entries : status[e[1]] # "none"
  /\ \A m \in Messages : request[m] = "stored" => status[m] # "none"
  /\ \A p \in Pollers : poller[p] # None => status[poller[p][1]] # "none"

IInv == TypeOK /\ JobsStored /\ StaleCovers

-----------------------------------------------------------------------------
\* The actors are told apart by what they do.
LEMMA ActorsDiffer ==
  \A a, b : /\ <<"send", a>> # <<"sweep", b>> /\ <<"send", a>> # <<"request", b>>
            /\ <<"sweep", a>> # <<"request", b>>
            /\ <<"send", a>> = <<"send", b>> => a = b
            /\ <<"sweep", a>> = <<"sweep", b>> => a = b
            /\ <<"request", a>> = <<"request", b>> => a = b
OBVIOUS

\* Being informed, read off the program counters.
LEMMA InformedMembers ==
  /\ \A m \in Messages : <<"request", m>> \in Informed <=> request[m] = "checked"
  /\ \A w \in Workers : <<"send", w>> \in Informed <=> pc[w] = "send"
  /\ \A s \in Sweepers : <<"sweep", s>> \in Informed <=> sweep[s] # "asleep"
BY DEF Informed

LEMMA InitIInv == Init => IInv
<1> SUFFICES ASSUME Init PROVE IInv
  OBVIOUS
<1>1. TypeOK
  BY AbuseAssumption DEF Init, TypeOK, States
<1>2. StaleCovers
  BY DEF Init, StaleCovers
<1> QED BY <1>1, <1>2 DEF IInv, JobsStored, Init

\* A stream entry and what a poller has in hand name a message.
LEMMA Named ==
  /\ \A e \in Entries : e[1] \in Messages
  /\ \A r \in Requeues : r[1] \in Messages
  /\ \A m \in Messages : \A e \in {m} \X (1..MaxEntries) : e \in Entries /\ e[1] = m
  /\ None \notin Entries /\ None \notin Requeues
BY AbuseAssumption DEF Entries, Requeues

LEMMA AddType ==
  ASSUME TypeOK, NEW m \in Messages, Add(m)
  PROVE  /\ entries' \subseteq Entries /\ dropped' \subseteq Messages
         /\ faults' \in 0..MaxFaults
         /\ \A e \in entries' : e \in entries \/ e[1] = m
<1>1. entries \subseteq Entries /\ dropped \subseteq Messages /\ faults \in 0..MaxFaults /\ MaxFaults \in Nat
  BY AbuseAssumption DEF TypeOK
<1>2. CASE UNCHANGED <<dropped, faults>> /\ \E e \in {m} \X (1..MaxEntries) : entries' = entries \cup {e}
  BY <1>1, <1>2, Named
<1>3. CASE faults < MaxFaults /\ faults' = faults + 1 /\ dropped' = dropped \cup {m} /\ UNCHANGED entries
  BY <1>1, <1>3
<1> QED BY <1>2, <1>3 DEF Add

LEMMA SettleType ==
  ASSUME TypeOK, NEW w \in Workers, pc[w] # "idle",
         NEW s \in Terminal \cup {"deferred"}, Settle(w, s)
  PROVE  /\ status' \in [Messages -> Terminal \cup {"none", "queued", "deferred"}]
         /\ pc' \in [Workers -> {"idle", "gate", "send", "ack"}] /\ job' = job
         /\ \A v \in Workers : job'[v] = None <=> pc'[v] = "idle"
         /\ \A m \in Messages : status'[m] = "none" => status[m] = "none"
<1>1. job[w] \in Entries
  BY DEF TypeOK
<1>2. job[w][1] \in Messages
  BY <1>1, Named
<1> QED BY <1>1, <1>2 DEF Settle, TypeOK, Terminal

LEMMA TypeStep == TypeOK /\ [Next]_vars => TypeOK'
<1> SUFFICES ASSUME TypeOK, [Next]_vars PROVE TypeOK'
  OBVIOUS
<1> USE AbuseAssumption DEF TypeOK, worker, queue
<1>1. ASSUME NEW s \in States, Decide(s) PROVE TypeOK'
  BY <1>1 DEF Decide, Informed
<1>2. ASSUME NEW m \in Messages, CheckCustomer(m) PROVE TypeOK'
  BY <1>2 DEF CheckCustomer, Informed
<1>3. ASSUME NEW m \in Messages, Accept(m) PROVE TypeOK'
  BY <1>3 DEF Accept, Acted, Informed
<1>4. ASSUME NEW m \in Messages, RollBack(m) PROVE TypeOK'
  BY <1>4 DEF RollBack, Acted, Informed
<1>5. ASSUME NEW m \in Messages, Age(m) PROVE TypeOK'
  BY <1>5 DEF Age, Informed
<1>6. ASSUME NEW w \in Workers, LoadMessage(w) PROVE TypeOK'
  <2>1. CASE \E e \in entries : entries' = entries \ {e} /\ UNCHANGED worker
    BY <1>6, <2>1 DEF LoadMessage, Informed
  <2>2. CASE \E e \in entries : /\ job' = [job EXCEPT ![w] = e]
                                /\ pc' = [pc EXCEPT ![w] = "gate"] /\ UNCHANGED entries
    <3>1. PICK e \in entries : /\ job' = [job EXCEPT ![w] = e]
                               /\ pc' = [pc EXCEPT ![w] = "gate"] /\ UNCHANGED entries
      BY <2>2
    <3>2. e \in Entries /\ e # None
      BY Named
    <3>3. /\ job' \in [Workers -> Entries \cup {None}]
          /\ pc' \in [Workers -> {"idle", "gate", "send", "ack"}]
          /\ \A v \in Workers : job'[v] = None <=> pc'[v] = "idle"
      BY <3>1, <3>2
    <3> QED BY <1>6, <3>1, <3>3 DEF LoadMessage, Informed
  <2> QED BY <1>6, <2>1, <2>2 DEF LoadMessage
<1>7. ASSUME NEW w \in Workers, SkipLocked(w) PROVE TypeOK'
  <2>1. PICK e \in entries : /\ entries' = entries \ {e}
                             /\ dropped' \in {dropped, dropped \cup {e[1]}}
    BY <1>7 DEF SkipLocked
  <2>2. e[1] \in Messages
    BY Named
  <2> QED BY <1>7, <2>1, <2>2 DEF SkipLocked, Informed
<1>8. ASSUME NEW w \in Workers, GateOnState(w) PROVE TypeOK'
  <2>1. CASE Block(w)
    <3>1. /\ pc[w] # "idle" /\ Settle(w, "blocked") /\ "blocked" \in Terminal \cup {"deferred"}
      BY <1>8, <2>1 DEF GateOnState, Block, Terminal
    <3>2. recent' \subseteq {m \in Messages : status'[m] # "none"}
      BY <1>8, <3>1, SettleType DEF GateOnState
    <3>3. stale' \subseteq Informed'
      BY <1>8, <3>1 DEF GateOnState, Settle, Informed
    <3>4. UNCHANGED <<sending_state, request, queue, sweep, decisions, faults>>
      BY <1>8 DEF GateOnState
    <3> HIDE DEF TypeOK
    <3>5. /\ status' \in [Messages -> Terminal \cup {"none", "queued", "deferred"}]
          /\ pc' \in [Workers -> {"idle", "gate", "send", "ack"}] /\ job' = job
          /\ \A v \in Workers : job'[v] = None <=> pc'[v] = "idle"
      BY <3>1, SettleType
    <3> QED BY <3>2, <3>3, <3>4, <3>5 DEF TypeOK
  <2>2. CASE pc' = [pc EXCEPT ![w] = "send"] /\ UNCHANGED <<status, job>>
    BY <1>8, <2>2 DEF GateOnState, Informed
  <2> QED BY <1>8, <2>1, <2>2 DEF GateOnState
<1>9. ASSUME NEW w \in Workers, Send(w) PROVE TypeOK'
  <2>1. PICK s \in {"delivered", "bounced", "failed", "deferred"} : Settle(w, s)
    BY <1>9 DEF Send
  <2>2. pc[w] # "idle" /\ s \in Terminal \cup {"deferred"}
    BY <1>9 DEF Send, Terminal
  <2>3. recent' \subseteq {m \in Messages : status'[m] # "none"}
    BY <1>9, <2>1, <2>2, SettleType DEF Send
  <2>4. stale' \subseteq Informed'
    BY <1>9, <2>1 DEF Send, Settle, Acted, Informed
  <2>5. UNCHANGED <<sending_state, request, queue, sweep, decisions, faults>>
    BY <1>9 DEF Send
  <2> HIDE DEF TypeOK
  <2>6. /\ status' \in [Messages -> Terminal \cup {"none", "queued", "deferred"}]
        /\ pc' \in [Workers -> {"idle", "gate", "send", "ack"}] /\ job' = job
        /\ \A v \in Workers : job'[v] = None <=> pc'[v] = "idle"
    BY <2>1, <2>2, SettleType
  <2> QED BY <2>3, <2>4, <2>5, <2>6 DEF TypeOK
<1>10. ASSUME NEW w \in Workers, Ack(w) PROVE TypeOK'
  BY <1>10 DEF Ack, Drop, Informed
<1>11. ASSUME NEW w \in Workers, Fail(w) PROVE TypeOK'
  BY <1>11 DEF Fail, Drop, Acted, Informed
<1>12. ASSUME NEW s \in Sweepers, SweepCustomer(s) PROVE TypeOK'
  BY <1>12 DEF SweepCustomer, SweepTo, Informed
<1>13. ASSUME NEW s \in Sweepers, SweepRate(s) PROVE TypeOK'
  BY <1>13 DEF SweepRate, SweepTo, Acted, Informed
<1>14. ASSUME NEW s \in Sweepers, SweepUpdate(s) PROVE TypeOK'
  BY <1>14 DEF SweepUpdate, SweepTo, Informed, States
<1>15. ASSUME NEW s \in Sweepers, SweepFails(s) PROVE TypeOK'
  BY <1>15 DEF SweepFails, SweepTo, Acted, Informed
<1>16. ASSUME NEW m \in Messages, Enqueue(m) PROVE TypeOK'
  <2>1. /\ entries' \subseteq Entries /\ dropped' \subseteq Messages /\ faults' \in 0..MaxFaults
    BY <1>16, AddType DEF Enqueue
  <2>2. /\ UNCHANGED <<sending_state, status, recent, worker, poller, sweep, stale, decisions>>
        /\ request[m] = "stored" /\ request' = [request EXCEPT ![m] = "closed"]
    BY <1>16 DEF Enqueue
  <2> QED BY <2>1, <2>2 DEF Informed
<1>17. ASSUME NEW p \in Pollers, Poll(p) PROVE TypeOK'
  <2>1. PICK m \in Messages : poller' = [poller EXCEPT ![p] = <<m, "due">>]
    BY <1>17 DEF Poll
  <2>2. <<m, "due">> \in Requeues
    BY DEF Requeues
  <2> QED BY <1>17, <2>1, <2>2 DEF Poll, Informed
<1>18. ASSUME NEW p \in Pollers, Mark(p) PROVE TypeOK'
  <2>1. poller[p][1] \in Messages /\ <<poller[p][1], "marked">> \in Requeues
    BY <1>18 DEF Mark, Requeues
  <2>2. /\ status' = [status EXCEPT ![poller[p][1]] = IF @ = "deferred" THEN "queued" ELSE @]
        /\ poller' = [poller EXCEPT ![p] = <<poller[p][1], "marked">>]
        /\ UNCHANGED <<sending_state, recent, request, worker, entries, dropped, sweep, stale,
                       decisions, faults>>
    BY <1>18 DEF Mark
  <2>3. /\ status' \in [Messages -> Terminal \cup {"none", "queued", "deferred"}]
        /\ \A m \in Messages : status'[m] = "none" => status[m] = "none"
    BY <2>1, <2>2
  <2> QED BY <2>1, <2>2, <2>3 DEF Informed
<1>19. ASSUME NEW p \in Pollers, Requeue(p) PROVE TypeOK'
  <2>1. poller[p][1] \in Messages
    BY <1>19 DEF Requeue
  <2>2. /\ entries' \subseteq Entries /\ dropped' \subseteq Messages /\ faults' \in 0..MaxFaults
    BY <1>19, <2>1, AddType DEF Requeue
  <2>3. /\ UNCHANGED <<sending_state, status, recent, request, worker, sweep, stale, decisions>>
        /\ poller' = [poller EXCEPT ![p] = None]
    BY <1>19 DEF Requeue
  <2> QED BY <2>2, <2>3 DEF Informed
<1>20. ASSUME NEW p \in Pollers, MarkFails(p) PROVE TypeOK'
  BY <1>20 DEF MarkFails, Informed
<1>21. CASE UNCHANGED vars
  BY <1>21 DEF vars, Informed
<1> QED BY <1>1, <1>2, <1>3, <1>4, <1>5, <1>6, <1>7, <1>8, <1>9, <1>10, <1>11, <1>12,
           <1>13, <1>14, <1>15, <1>16, <1>17, <1>18, <1>19, <1>20, <1>21
        DEF Next, Consume, Process, PollDeferred, Sweep

\* Nothing a step does turns a stored message into one that is not.
LEMMA StaysStored ==
  ASSUME TypeOK, JobsStored, [Next]_vars
  PROVE  \A m \in Messages : status[m] # "none" => status'[m] # "none"
<1>1. ASSUME NEW m \in Messages, Accept(m) PROVE \A n \in Messages : status[n] # "none" => status'[n] # "none"
  BY <1>1 DEF Accept, TypeOK
<1>2. ASSUME NEW w \in Workers, GateOnState(w) \/ Send(w)
      PROVE \A n \in Messages : status[n] # "none" => status'[n] # "none"
  <2>1. pc[w] # "idle"
    BY <1>2 DEF GateOnState, Send
  <2>2. \/ UNCHANGED status
        \/ \E s \in Terminal \cup {"deferred"} : Settle(w, s)
    BY <1>2 DEF GateOnState, Block, Send, Terminal
  <2>3. CASE \E s \in Terminal \cup {"deferred"} : Settle(w, s)
    BY <2>1, <2>3, SettleType
  <2> QED BY <2>2, <2>3
<1>3. ASSUME NEW p \in Pollers, Mark(p)
      PROVE \A n \in Messages : status[n] # "none" => status'[n] # "none"
  BY <1>3 DEF Mark, TypeOK
<1>4. CASE UNCHANGED status
  BY <1>4
<1> QED BY <1>1, <1>2, <1>3, <1>4 DEF Next, Consume, Process, PollDeferred, Sweep, vars, Decide,
           CheckCustomer, RollBack, Enqueue, Age, LoadMessage, SkipLocked, Ack, Fail, Poll, Requeue,
           MarkFails, SweepCustomer, SweepRate, SweepUpdate, SweepFails

LEMMA JobsStep == TypeOK /\ JobsStored /\ [Next]_vars => JobsStored'
<1> SUFFICES ASSUME TypeOK, JobsStored, [Next]_vars PROVE JobsStored'
  OBVIOUS
<1>0. /\ entries \subseteq Entries /\ job \in [Workers -> Entries \cup {None}]
      /\ poller \in [Pollers -> Requeues \cup {None}]
      /\ \A w \in Workers : job[w] = None <=> pc[w] = "idle"
  BY DEF TypeOK
<1>1. /\ \A w \in Workers : pc[w] # "idle" => status'[job[w][1]] # "none"
      /\ \A e \in entries : status'[e[1]] # "none"
      /\ \A m \in Messages : request[m] = "stored" => status'[m] # "none"
      /\ \A p \in Pollers : poller[p] # None => status'[poller[p][1]] # "none"
  <2>1. \A w \in Workers : pc[w] # "idle" => job[w][1] \in Messages
    BY <1>0, Named
  <2>2. \A e \in entries : e[1] \in Messages
    BY <1>0, Named
  <2>3. \A p \in Pollers : poller[p] # None => poller[p][1] \in Messages
    BY <1>0, Named
  <2> QED BY <2>1, <2>2, <2>3, StaysStored DEF JobsStored
<1> HIDE DEF JobsStored
<1>2. \A w \in Workers : pc'[w] # "idle" => status'[job'[w][1]] # "none"
  <2>1. ASSUME NEW v \in Workers, LoadMessage(v)
        PROVE  \A w \in Workers : pc'[w] # "idle" => status'[job'[w][1]] # "none"
    BY <1>0, <1>1, <2>1 DEF LoadMessage, worker, TypeOK
  <2>2. ASSUME NEW v \in Workers, Process(v) \/ Fail(v)
        PROVE  \A w \in Workers : pc'[w] # "idle" => status'[job'[w][1]] # "none"
    <3>1. \/ job' = job /\ \A w \in Workers : pc'[w] # "idle" => pc[w] # "idle"
          \/ Drop(v)
      BY <2>2 DEF Process, GateOnState, Block, Send, Settle, Ack, Fail, TypeOK
    <3> QED BY <1>1, <3>1 DEF Drop, TypeOK
  <2>3. CASE UNCHANGED worker
    BY <1>1, <2>3 DEF worker
  <2> QED BY <2>1, <2>2, <2>3 DEF Next, Consume, PollDeferred, Sweep, vars, Decide, CheckCustomer,
             Accept, RollBack, Enqueue, Age, SkipLocked, Poll, Mark, Requeue, MarkFails,
             SweepCustomer, SweepRate, SweepUpdate, SweepFails
<1>3. \A e \in entries' : status'[e[1]] # "none"
  <2>1. CASE entries' \subseteq entries
    BY <1>1, <2>1
  <2>2. ASSUME NEW m \in Messages, Enqueue(m)
        PROVE  \A e \in entries' : status'[e[1]] # "none"
    BY <1>1, <2>2, AddType DEF Enqueue
  <2>3. ASSUME NEW p \in Pollers, Requeue(p)
        PROVE  \A e \in entries' : status'[e[1]] # "none"
    <3>1. poller[p] # None /\ poller[p][1] \in Messages
      BY <1>0, <2>3, Named DEF Requeue, Requeues
    <3> QED BY <1>1, <2>3, <3>1, AddType DEF Requeue
  <2> QED BY <2>1, <2>2, <2>3 DEF Next, Consume, Process, PollDeferred, Sweep, vars, queue, Decide,
             CheckCustomer, Accept, RollBack, Age, LoadMessage, SkipLocked, GateOnState, Send, Ack,
             Fail, Poll, Mark, MarkFails, SweepCustomer, SweepRate, SweepUpdate, SweepFails
<1>4. \A m \in Messages : request'[m] = "stored" => status'[m] # "none"
  <2>1. ASSUME NEW n \in Messages, Accept(n)
        PROVE  \A m \in Messages : request'[m] = "stored" => status'[m] # "none"
    BY <1>1, <2>1 DEF Accept, TypeOK
  <2>2. CASE \A m \in Messages : request'[m] = "stored" => request[m] = "stored"
    BY <1>1, <2>2
  <2>3. ASSUME NEW n \in Messages, CheckCustomer(n) \/ RollBack(n) \/ Enqueue(n)
        PROVE  \A m \in Messages : request'[m] = "stored" => request[m] = "stored"
    BY <2>3 DEF CheckCustomer, RollBack, Enqueue, TypeOK
  <2>4. UNCHANGED request => \A m \in Messages : request'[m] = "stored" => request[m] = "stored"
    OBVIOUS
  <2> QED BY <2>1, <2>2, <2>3, <2>4 DEF Next, Consume, Process, PollDeferred, Sweep, vars, Decide, Age,
             LoadMessage, SkipLocked, GateOnState, Send, Ack, Fail, Poll, Mark, Requeue, MarkFails,
             SweepCustomer, SweepRate, SweepUpdate, SweepFails
<1>5. \A p \in Pollers : poller'[p] # None => status'[poller'[p][1]] # "none"
  <2>1. ASSUME NEW q \in Pollers, Poll(q)
        PROVE  \A p \in Pollers : poller'[p] # None => status'[poller'[p][1]] # "none"
    <3>1. PICK m \in Messages : /\ status[m] = "deferred"
                                /\ poller' = [poller EXCEPT ![q] = <<m, "due">>]
      BY <2>1 DEF Poll
    <3>2. status'[m] = "deferred"
      BY <2>1, <3>1 DEF Poll
    <3> QED BY <1>0, <1>1, <3>1, <3>2
  <2>2. ASSUME NEW q \in Pollers, Mark(q)
        PROVE  \A p \in Pollers : poller'[p] # None => status'[poller'[p][1]] # "none"
    <3>1. /\ poller' = [poller EXCEPT ![q] = <<poller[q][1], "marked">>]
          /\ poller[q] # None
      BY <1>0, <2>2, Named DEF Mark, Requeues
    <3> QED BY <1>0, <1>1, <3>1
  <2>3. ASSUME NEW q \in Pollers, Requeue(q) \/ MarkFails(q)
        PROVE  \A p \in Pollers : poller'[p] # None => status'[poller'[p][1]] # "none"
    <3>1. poller' = [poller EXCEPT ![q] = None]
      BY <2>3 DEF Requeue, MarkFails
    <3> QED BY <1>0, <1>1, <3>1
  <2>4. CASE UNCHANGED poller
    BY <1>1, <2>4
  <2> QED BY <2>1, <2>2, <2>3, <2>4 DEF Next, Consume, Process, PollDeferred, Sweep, vars, queue, Decide,
             CheckCustomer, Accept, RollBack, Enqueue, Age, LoadMessage, SkipLocked, GateOnState, Send,
             Ack, Fail, SweepCustomer, SweepRate, SweepUpdate, SweepFails
<1> QED BY <1>2, <1>3, <1>4, <1>5 DEF JobsStored

LEMMA CoverStep == IInv /\ [Next]_vars => StaleCovers'
<1> SUFFICES ASSUME IInv, [Next]_vars PROVE StaleCovers'
  OBVIOUS
<1> USE DEF IInv, StaleCovers, worker, queue
<1>a. TypeOK
  OBVIOUS
<1>1. ASSUME NEW s \in States, Decide(s) PROVE StaleCovers'
  BY <1>1, InformedMembers DEF Decide
<1>2. ASSUME NEW m \in Messages, CheckCustomer(m) PROVE StaleCovers'
  BY <1>2, <1>a DEF CheckCustomer, Refuses, TypeOK, Stopped
<1>3. ASSUME NEW m \in Messages, Accept(m) PROVE StaleCovers'
  BY <1>3, <1>a, ActorsDiffer DEF Accept, Acted, TypeOK, Stopped
<1>4. ASSUME NEW m \in Messages, RollBack(m) PROVE StaleCovers'
  BY <1>4, <1>a, ActorsDiffer DEF RollBack, Acted, TypeOK, Stopped
<1>5. ASSUME NEW m \in Messages, Age(m) \/ Enqueue(m) PROVE StaleCovers'
  BY <1>5, <1>a DEF Age, Enqueue, TypeOK, Stopped
<1>6. ASSUME NEW w \in Workers, LoadMessage(w) PROVE StaleCovers'
  BY <1>6, <1>a DEF LoadMessage, TypeOK, Stopped
<1>7. ASSUME NEW w \in Workers, GateOnState(w) PROVE StaleCovers'
  BY <1>7, <1>a DEF GateOnState, Block, Blocks, Settle, TypeOK, Stopped
<1>8. ASSUME NEW w \in Workers, Send(w) PROVE StaleCovers'
  BY <1>8, <1>a, ActorsDiffer DEF Send, Settle, Acted, TypeOK, Stopped
<1>9. ASSUME NEW w \in Workers, Fail(w) PROVE StaleCovers'
  BY <1>9, <1>a, ActorsDiffer DEF Fail, Drop, Acted, TypeOK, Stopped
<1>10. ASSUME NEW s \in Sweepers, SweepCustomer(s) PROVE StaleCovers'
  BY <1>10, <1>a DEF SweepCustomer, SweepTo, TypeOK, Stopped
<1>11. ASSUME NEW s \in Sweepers, SweepRate(s) PROVE StaleCovers'
  BY <1>11, <1>a, ActorsDiffer DEF SweepRate, SweepTo, Acted, TypeOK, Stopped
<1>12. ASSUME NEW s \in Sweepers, SweepUpdate(s) PROVE StaleCovers'
  BY <1>12, <1>a, ActorsDiffer, InformedMembers DEF SweepUpdate, SweepTo, TypeOK, Stopped, Sweeps
<1>13. ASSUME NEW s \in Sweepers, SweepFails(s) PROVE StaleCovers'
  BY <1>13, <1>a, ActorsDiffer DEF SweepFails, SweepTo, Acted, TypeOK, Stopped
<1>14. ASSUME NEW w \in Workers, Ack(w) PROVE StaleCovers'
  BY <1>14, <1>a DEF Ack, Drop, TypeOK, Stopped
<1>15. CASE UNCHANGED <<sending_state, request, pc, job, sweep, stale>>
  BY <1>15 DEF Stopped
<1>16. \/ \E m \in Messages : CheckCustomer(m) \/ Accept(m) \/ RollBack(m) \/ Age(m) \/ Enqueue(m)
       \/ \E w \in Workers : LoadMessage(w) \/ GateOnState(w) \/ Send(w) \/ Ack(w) \/ Fail(w)
       \/ \E s \in States : Decide(s)
       \/ \E s \in Sweepers : SweepCustomer(s) \/ SweepRate(s) \/ SweepUpdate(s) \/ SweepFails(s)
       \/ UNCHANGED <<sending_state, request, pc, job, sweep, stale>>
  BY DEF Next, Consume, Process, PollDeferred, Sweep, vars, SkipLocked, Poll, Mark, Requeue, MarkFails
<1> QED BY <1>1, <1>2, <1>3, <1>4, <1>5, <1>6, <1>7, <1>8, <1>9, <1>10, <1>11, <1>12,
           <1>13, <1>14, <1>15, <1>16

\* The invariant the theorems below rest on.
THEOREM Invariance == Spec => []IInv
<1>1. IInv /\ [Next]_vars => IInv'
  BY TypeStep, JobsStep, CoverStep DEF IInv
<1> QED BY InitIInv, <1>1, PTL DEF Spec

\* Every variable keeps its type, and only informed actors are ever stale.
THEOREM TypeCorrect == Spec => []TypeOK
<1>1. IInv => TypeOK
  BY DEF IInv
<1> QED BY Invariance, <1>1, PTL

\* A block an operator sets is only ever replaced by a sweep that read the customer
\* before the block was set.
THEOREM BlocksStand == Spec => BlockStands
<1> DEFINE Stands ==
      sending_state' # sending_state /\ sending_state \in Blocked /\ decisions' = decisions =>
        \E s \in Sweepers : sweep[s] = "update" /\ <<"sweep", s>> \in stale
<1>1. IInv /\ [Next]_vars => [Stands]_vars
  <2> SUFFICES ASSUME IInv, [Next]_vars, sending_state' # sending_state,
                      sending_state \in Blocked, decisions' = decisions
               PROVE  \E s \in Sweepers : sweep[s] = "update" /\ <<"sweep", s>> \in stale
    OBVIOUS
  <2>1. ~Sweeps(sending_state)
    BY DEF Blocked, Sweeps
  <2>2. PICK s \in Sweepers : SweepUpdate(s)
    <3>1. ASSUME NEW s \in States, Decide(s) PROVE FALSE
      BY <3>1 DEF Decide, IInv, TypeOK
    <3> QED BY <3>1 DEF Next, Consume, Process, PollDeferred, Sweep, vars, CheckCustomer, Accept,
               RollBack, Enqueue, Age, LoadMessage, SkipLocked, GateOnState, Send, Ack, Fail, Poll,
               Mark, Requeue, MarkFails, SweepCustomer, SweepRate, SweepFails
  <2> QED BY <2>1, <2>2 DEF IInv, StaleCovers, SweepUpdate
<1>2. Spec => [][Next]_vars
  BY PTL DEF Spec
<1>3. Spec => [][Stands]_vars
  BY <1>1, <1>2, Invariance, PTL
<1> QED BY <1>3 DEF BlockStands

\* Once a customer is blocked, only what a worker had already let through its gate is sent.
THEOREM SendingStops == Spec => SendsStop
<1> DEFINE Stops ==
      \A w \in Workers :
        pc[w] = "send" /\ pc'[w] = "ack" /\ job[w][1] \in Stopped =>
          <<"send", w>> \in stale
<1>1. IInv => Stops
  BY DEF IInv, StaleCovers
<1>2. Spec => [][Stops]_vars
  BY <1>1, Invariance, PTL
<1> QED BY <1>2 DEF SendsStop

\* Once a customer is blocked from sending, only a request that had passed its check
\* still stores a message.
THEOREM AdmissionStops == Spec => AdmissionsStop
<1> DEFINE Stops ==
      \A m \in Messages :
        status[m] = "none" /\ status'[m] = "queued" /\ sending_state = "blocked_from_sending" =>
          <<"request", m>> \in stale
<1>1. IInv /\ [Next]_vars => [Stops]_vars
  <2> SUFFICES ASSUME IInv, [Next]_vars, NEW m \in Messages, status[m] = "none",
                      status'[m] = "queued", sending_state = "blocked_from_sending"
               PROVE  <<"request", m>> \in stale
    OBVIOUS
  <2>1. CASE \E n \in Messages : Accept(n)
    BY <2>1 DEF Accept, IInv, StaleCovers, TypeOK
  <2>2. ASSUME NEW w \in Workers, GateOnState(w) \/ Send(w) PROVE FALSE
    <3>1. status' # status
      BY DEF TypeOK
    <3>2. \E s \in Terminal \cup {"deferred"} : Settle(w, s)
      BY <2>2, <3>1 DEF GateOnState, Block, Send, Terminal
    <3> QED BY <3>2 DEF Settle, Terminal, IInv, TypeOK
  <2>3. ASSUME NEW p \in Pollers, Mark(p) PROVE FALSE
    BY <2>3 DEF Mark, IInv, TypeOK
  <2> QED BY <2>1, <2>2, <2>3 DEF Next, Consume, Process, PollDeferred, Sweep, vars, Decide,
             CheckCustomer, Accept, RollBack, Enqueue, Age, LoadMessage, SkipLocked, Ack, Fail, Poll,
             Requeue, MarkFails, SweepCustomer, SweepRate, SweepUpdate, SweepFails
<1>2. Spec => [][Next]_vars
  BY PTL DEF Spec
<1>3. Spec => [][Stops]_vars
  BY <1>1, <1>2, Invariance, PTL
<1> QED BY <1>3 DEF AdmissionsStop
=============================================================================
